-------------------------- MODULE CallOptionProofs ---------------------------
(***************************************************************************)
(* Proofs about CallOptionToken, for any holders, terms and bounds.        *)
(*                                                                         *)
(* OptionsBacked speaks of the balances, while exerciseOptions looks at    *)
(* the deposit only.  What connects them is that until the settlement the  *)
(* supply is the sum of the balances (TypeOK), and that both inequalities  *)
(* hold until the settlement, which lies behind the expiry (Backed).       *)
(***************************************************************************)
EXTENDS CallOption, LedgerLemmas

Backed ==
    ~expired => /\ SumOf(balances) * UnderlyingAmount <= totalUnderlyingDeposited
                /\ totalUnderlyingDeposited <= heldUnderlying

IInv == TypeOK /\ Backed

(* Options moved between two accounts, or to oneself, stay as many.        *)
LEMMA MovedFacts ==
  ASSUME balances \in [Users -> Nat], NEW from \in Users, NEW to \in Users, NEW n \in Nat,
         n <= balances[from]
  PROVE  Moved(from, to, n) \in [Users -> Nat] /\ SumOf(Moved(from, to, n)) = SumOf(balances)
<1>1. CASE to = from
  <2>1. Moved(from, to, n) = balances
    BY <1>1 DEF Moved
  <2> QED
    BY <2>1
<1>2. CASE to # from
  <2>0. balances[from] - n \in Nat /\ balances[to] + n \in Nat
    OBVIOUS
  <2>1. PICK h \in [Users -> Nat] : h = Moved(from, to, n)
    BY <1>2, <2>0 DEF Moved
  <2>2. /\ h[from] = balances[from] - n /\ h[to] = balances[to] + n
        /\ \A w \in Users : w # from /\ w # to => h[w] = balances[w]
    BY <1>2, <2>1 DEF Moved
  <2>3. h[from] + h[to] = balances[from] + balances[to]
    BY <2>2
  <2>4. SumOf(h) = SumOf(balances)
    BY <1>2, <2>2, <2>3, SumMove, UsersAssumption
  <2> QED
    BY <2>1, <2>4
<1> QED
  BY <1>1, <1>2

(* A call that moves options and leaves the assets alone.                  *)
LEMMA MoveKeeps ==
  ASSUME IInv, balances' \in [Users -> Nat], SumOf(balances') = SumOf(balances),
         allowances' \in [Users -> [Users -> Nat]], heldPayment' \in Nat,
         UNCHANGED <<now, totalSupply, expired, totalUnderlyingDeposited, heldUnderlying>>
  PROVE  IInv'
BY DEF IInv, TypeOK, Backed

LEMMA IssueKeeps ==
  ASSUME IInv, NEW deposit \in Nat, issueOptions(deposit)
  PROVE  IInv'
<1> DEFINE n == OptionsFor(deposit)
<1>1. /\ ~expired
      /\ totalSupply' = totalSupply + n
      /\ balances' = [balances EXCEPT ![Issuer] = balances[Issuer] + n]
      /\ totalUnderlyingDeposited' = totalUnderlyingDeposited + deposit
      /\ heldUnderlying' = heldUnderlying + deposit
      /\ UNCHANGED <<now, allowances, expired, heldPayment>>
  BY DEF issueOptions, notExpired
<1>2. n \in Nat /\ UnderlyingAmount * n <= deposit
  BY DivFacts, TermsAssumption DEF OptionsFor
<1>3. /\ balances \in [Users -> Nat] /\ totalSupply = SumOf(balances) /\ totalSupply \in Nat
      /\ totalUnderlyingDeposited \in Nat /\ heldUnderlying \in Nat
      /\ SumOf(balances) * UnderlyingAmount <= totalUnderlyingDeposited
      /\ totalUnderlyingDeposited <= heldUnderlying
  BY <1>1 DEF IInv, TypeOK, Backed
<1> HIDE DEF n
<1>4. balances' \in [Users -> Nat] /\ SumOf(balances') = SumOf(balances) + n
  <2>0. Issuer \in Users /\ balances[Issuer] \in Nat /\ balances[Issuer] + n \in Nat
    BY <1>2, <1>3, UsersAssumption
  <2>1. PICK h \in [Users -> Nat] : h = balances'
    BY <1>1, <1>3, <2>0
  <2>2. /\ h[Issuer] = balances[Issuer] + n /\ balances[Issuer] \in Nat
        /\ \A w \in Users : w # Issuer => h[w] = balances[w]
    BY <1>1, <1>3, <2>0, <2>1
  <2>3. SumOf(h) = SumOf(balances) - balances[Issuer] + h[Issuer]
    BY <1>3, <2>0, <2>2, SumUpdate, UsersAssumption
  <2> QED
    BY <1>2, <1>3, <2>1, <2>3, <2>2
<1>5. SumOf(balances') * UnderlyingAmount <= totalUnderlyingDeposited'
  <2> DEFINE m == SumOf(balances)
  <2>1. m \in Nat /\ UnderlyingAmount \in Nat
    BY <1>3, TermsAssumption
  <2>2. (m + n) * UnderlyingAmount = m * UnderlyingAmount + UnderlyingAmount * n
    BY <1>2, <2>1
  <2>3. \A i, j \in Nat : i * j \in Nat
    OBVIOUS
  <2>4. m * UnderlyingAmount \in Nat /\ UnderlyingAmount * n \in Nat
    BY <1>2, <2>1, <2>3
  <2> HIDE DEF m
  <2>5. m * UnderlyingAmount + UnderlyingAmount * n <= totalUnderlyingDeposited + deposit
    BY <1>2, <1>3, <2>4 DEF m
  <2> QED
    BY <1>1, <1>4, <2>2, <2>5 DEF m
<1> QED
  BY <1>1, <1>2, <1>3, <1>4, <1>5 DEF IInv, TypeOK, Backed

LEMMA ExerciseKeeps ==
  ASSUME IInv, NEW u \in Users, NEW n \in Nat, exerciseOptions(u, n)
  PROVE  IInv'
<1> DEFINE k == n * UnderlyingAmount
           m == SumOf(balances)
<1>1. /\ ~expired
      /\ n <= balances[u] /\ k <= totalUnderlyingDeposited /\ k <= heldUnderlying
      /\ n <= totalSupply
      /\ heldPayment' = heldPayment + n * StrikePrice
      /\ balances' = [balances EXCEPT ![u] = balances[u] - n]
      /\ totalSupply' = totalSupply - n
      /\ totalUnderlyingDeposited' = totalUnderlyingDeposited - k
      /\ heldUnderlying' = heldUnderlying - k
      /\ UNCHANGED <<now, allowances, expired>>
  BY DEF exerciseOptions, notExpired
<1>2. /\ balances \in [Users -> Nat] /\ totalSupply = m /\ totalSupply \in Nat
      /\ totalUnderlyingDeposited \in Nat /\ heldUnderlying \in Nat /\ heldPayment \in Nat
      /\ m * UnderlyingAmount <= totalUnderlyingDeposited
      /\ totalUnderlyingDeposited <= heldUnderlying
  BY <1>1 DEF IInv, TypeOK, Backed
<1>3. k \in Nat /\ n * StrikePrice \in Nat
  <2>1. \A i, j \in Nat : i * j \in Nat
    OBVIOUS
  <2> QED
    BY <2>1, TermsAssumption
<1>4. balances' \in [Users -> Nat] /\ SumOf(balances') = m - n
  <2>1. balances[u] - n \in Nat
    BY <1>1, <1>2
  <2>2. PICK h \in [Users -> Nat] : h = balances'
    BY <1>1, <1>2, <2>1
  <2>3. /\ h[u] = balances[u] - n /\ balances[u] \in Nat
        /\ \A w \in Users : w # u => h[w] = balances[w]
    BY <1>1, <1>2, <2>2
  <2>4. SumOf(h) = SumOf(balances) - balances[u] + h[u]
    BY <1>2, <2>3, SumUpdate, UsersAssumption
  <2> QED
    BY <1>2, <2>2, <2>4, <2>3
<1>5. SumOf(balances') * UnderlyingAmount <= totalUnderlyingDeposited'
  <2>1. (m - n) * UnderlyingAmount = m * UnderlyingAmount - k
    BY <1>2, TermsAssumption
  <2>2. m * UnderlyingAmount \in Int
    BY <1>2, TermsAssumption
  <2> HIDE DEF k, m
  <2> QED
    BY <1>1, <1>2, <1>3, <1>4, <2>1, <2>2
<1> HIDE DEF k, m
<1>6. /\ totalSupply' \in Nat /\ totalUnderlyingDeposited' \in Nat /\ heldUnderlying' \in Nat
      /\ heldPayment' \in Nat /\ totalSupply' = SumOf(balances')
      /\ totalUnderlyingDeposited' <= heldUnderlying'
  BY <1>1, <1>2, <1>3, <1>4
<1> QED
  BY <1>1, <1>4, <1>5, <1>6 DEF IInv, TypeOK, Backed

LEMMA ExpireKeeps ==
  ASSUME IInv, expireOptions
  PROVE  IInv'
<1>1. /\ now >= ExpirationDate
      /\ totalUnderlyingDeposited <= heldUnderlying
      /\ expired' = TRUE
      /\ heldUnderlying' = heldUnderlying - totalUnderlyingDeposited
      /\ totalUnderlyingDeposited' = 0 /\ heldPayment' = 0 /\ totalSupply' = 0
      /\ balances' = [balances EXCEPT ![Issuer] = 0]
      /\ UNCHANGED <<now, allowances>>
  BY DEF expireOptions, isExpired
<1>2. /\ balances \in [Users -> Nat] /\ allowances \in [Users -> [Users -> Nat]]
      /\ heldUnderlying \in Nat /\ totalUnderlyingDeposited \in Nat /\ now \in Nat
  BY DEF IInv, TypeOK
<1>3. balances' \in [Users -> Nat]
  BY <1>1, <1>2
<1>4. heldUnderlying' \in Nat
  BY <1>1, <1>2
<1>5. TypeOK'
  BY <1>1, <1>2, <1>3, <1>4 DEF TypeOK
<1>6. Backed'
  BY <1>1 DEF Backed
<1> QED
  BY <1>5, <1>6 DEF IInv

LEMMA OptionInitial == Init => IInv
<1> SUFFICES ASSUME Init PROVE IInv
  OBVIOUS
<1>1. balances \in [Users -> Nat] /\ \A u \in Users : balances[u] = 0
  BY DEF Init
<1>2. SumOf(balances) = 0
  BY <1>1, SumZero, UsersAssumption
<1>3. 0 * UnderlyingAmount = 0
  BY TermsAssumption
<1>4. TypeOK
  BY <1>2 DEF Init, TypeOK
<1>5. Backed
  BY <1>2, <1>3 DEF Init, Backed
<1> QED
  BY <1>4, <1>5 DEF IInv

LEMMA OptionStep == IInv /\ [Next]_vars => IInv'
<1> SUFFICES ASSUME IInv, [Next]_vars PROVE IInv'
  OBVIOUS
<1>1. /\ balances \in [Users -> Nat] /\ allowances \in [Users -> [Users -> Nat]]
      /\ now \in Nat /\ heldPayment \in Nat /\ heldUnderlying \in Nat
  BY DEF IInv, TypeOK
<1>2. Amounts \subseteq Nat
  BY DEF Amounts
<1>3. ASSUME NEW from \in Users, NEW to \in Users, NEW n \in Amounts, transfer(from, to, n)
      PROVE  IInv'
  BY <1>1, <1>2, <1>3, MovedFacts, MoveKeeps DEF transfer, tokenVars
<1>4. ASSUME NEW from \in Users, NEW to \in Users, NEW n \in Amounts, approve(from, to, n)
      PROVE  IInv'
  <2>1. allowances' \in [Users -> [Users -> Nat]]
    BY <1>1, <1>2, <1>4 DEF approve
  <2> QED
    BY <1>1, <1>4, <2>1, MoveKeeps DEF approve, tokenVars
<1>5. ASSUME NEW from \in Users, NEW to \in Users, NEW n \in Amounts, NEW spender \in Users,
             transferFrom(spender, from, to, n)
      PROVE  IInv'
  <2>1. allowances' \in [Users -> [Users -> Nat]]
    <3>1. n \in Nat /\ n <= allowances[from][spender] /\ allowances[from][spender] \in Nat
      BY <1>1, <1>2, <1>5 DEF transferFrom
    <3>2. allowances[from][spender] - n \in Nat
      BY <3>1
    <3> QED
      BY <1>1, <1>5, <3>2 DEF transferFrom
  <2>2. balances' \in [Users -> Nat] /\ SumOf(balances') = SumOf(balances)
    BY <1>1, <1>2, <1>5, MovedFacts DEF transferFrom
  <2> QED
    BY <1>1, <1>5, <2>1, <2>2, MoveKeeps DEF transferFrom, tokenVars
<1>6. ASSUME NEW deposit \in 1..MaxDeposit, issueOptions(deposit) \/ receive(deposit)
      PROVE  IInv'
  <2>1. deposit \in Nat
    OBVIOUS
  <2>2. CASE issueOptions(deposit)
    BY <2>1, <2>2, IssueKeeps
  <2>3. CASE receive(deposit)
    BY <2>1, <2>3 DEF receive, IInv, TypeOK, Backed
  <2> QED
    BY <1>6, <2>2, <2>3
<1>7. ASSUME NEW n \in Amounts, NEW payment \in 0..MaxPaid, createTradingPair(n, payment)
      PROVE  IInv'
  BY <1>1, <1>7, MoveKeeps DEF createTradingPair
<1>8. ASSUME NEW u \in Users, NEW n \in Amounts, buyOptions(u, n)
      PROVE  IInv'
  <2>1. n \in Nat /\ Premium(n) \in Nat
    <3>1. n \in Nat
      BY <1>2
    <3>2. \A i, j \in Nat : i * j \in Nat
      OBVIOUS
    <3>3. n * StrikePrice \in Nat
      BY <3>1, <3>2, TermsAssumption
    <3>4. n * StrikePrice * 10 \in Nat
      BY <3>2, <3>3
    <3>5. (n * StrikePrice * 10) \div 100 \in Nat
      BY <3>4, DivFacts
    <3> QED
      BY <3>1, <3>5 DEF Premium
  <2>2. balances' \in [Users -> Nat] /\ SumOf(balances') = SumOf(balances)
    BY <1>1, <1>8, <2>1, MovedFacts, UsersAssumption DEF buyOptions
  <2> QED
    BY <1>1, <1>8, <2>1, <2>2, MoveKeeps DEF buyOptions
<1>9. ASSUME NEW u \in Users, NEW n \in Amounts, exerciseOptions(u, n)
      PROVE  IInv'
  BY <1>2, <1>9, ExerciseKeeps
<1>10. CASE expireOptions
  BY <1>10, ExpireKeeps
<1>11. CASE Tick
  BY <1>11, TermsAssumption DEF Tick, IInv, TypeOK, Backed
<1>12. CASE UNCHANGED vars
  BY <1>12 DEF vars, IInv, TypeOK, Backed
<1> QED
  BY <1>3, <1>4, <1>5, <1>6, <1>7, <1>8, <1>9, <1>10, <1>11, <1>12 DEF Next

(* CallOptionToken.sol:186: for any terms and any number of holders, all   *)
(* the options held before the expiry can be exercised.                    *)
THEOREM OptionsAreBacked == Spec => []OptionsBacked
<1>1. IInv => OptionsBacked
  BY TermsAssumption DEF IInv, TypeOK, Backed, OptionsBacked
<1> QED
  BY <1>1, OptionInitial, OptionStep, PTL DEF Spec

(* CallOptionToken.sol:186-214: before the expiry the asset leaves only    *)
(* against one holder's options, and for their strike price.               *)
THEOREM ReleasesArePaid == Spec => ReleasedAgainstStrike
<1> DEFINE Paid ==
      now < ExpirationDate /\ heldUnderlying' < heldUnderlying =>
        \E u \in Users :
           LET n == balances[u] - balances'[u]
           IN  /\ heldUnderlying - heldUnderlying' = n * UnderlyingAmount
               /\ heldPayment' - heldPayment >= n * StrikePrice
               /\ \A w \in Users \ {u} : balances'[w] = balances[w]
<1>1. ASSUME IInv, [Next]_vars
      PROVE  Paid
  <2> SUFFICES ASSUME now < ExpirationDate, heldUnderlying' < heldUnderlying
               PROVE  \E u \in Users :
                        LET n == balances[u] - balances'[u]
                        IN  /\ heldUnderlying - heldUnderlying' = n * UnderlyingAmount
                            /\ heldPayment' - heldPayment >= n * StrikePrice
                            /\ \A w \in Users \ {u} : balances'[w] = balances[w]
    OBVIOUS
  <2>1. /\ heldUnderlying \in Nat /\ heldPayment \in Nat /\ now \in Nat
        /\ balances \in [Users -> Nat] /\ (expired => now >= ExpirationDate)
    BY <1>1 DEF IInv, TypeOK
  <2>2. \A d \in 1..MaxDeposit : ~issueOptions(d) /\ ~receive(d)
    BY <2>1 DEF issueOptions, receive
  <2>3. ~expireOptions
    BY <2>1, TermsAssumption DEF expireOptions, isExpired
  <2>4. PICK u \in Users, n \in Amounts : exerciseOptions(u, n)
    BY <1>1, <2>1, <2>2, <2>3
    DEF Next, vars, transfer, transferFrom, approve, tokenVars, createTradingPair, buyOptions, Tick
  <2>5. n \in Nat /\ n <= balances[u] /\ balances[u] \in Nat
    BY <2>1, <2>4 DEF Amounts, exerciseOptions
  <2>6. /\ balances' = [balances EXCEPT ![u] = balances[u] - n]
        /\ heldPayment' = heldPayment + n * StrikePrice
        /\ heldUnderlying' = heldUnderlying - n * UnderlyingAmount
    BY <2>4 DEF exerciseOptions
  <2>7. balances[u] - balances'[u] = n /\ \A w \in Users \ {u} : balances'[w] = balances[w]
    BY <2>1, <2>5, <2>6
  <2>8. n * UnderlyingAmount \in Int /\ n * StrikePrice \in Int
    BY <2>5, TermsAssumption
  <2>9. /\ heldUnderlying - heldUnderlying' = n * UnderlyingAmount
        /\ heldPayment' - heldPayment >= n * StrikePrice
    BY <2>1, <2>6, <2>8
  <2> QED
    BY <2>7, <2>9
<1>2. Spec => []IInv
  BY OptionInitial, OptionStep, PTL DEF Spec
<1> QED
  BY <1>1, <1>2, PTL DEF Spec, ReleasedAgainstStrike

=============================================================================
