------------------------------ MODULE AmmProofs ------------------------------
(***************************************************************************)
(* Proofs about the pools, the router, FlashSwap and the oracle, for any   *)
(* pools, paths and amounts, and however long the world runs.              *)
(*                                                                         *)
(* What is inductive is AmmInv.  It says of every pool that its books add  *)
(* up (PoolOK: the supply is what the holders have, some of it is locked   *)
(* for ever once there is any, the product of the reserves has not fallen  *)
(* below the one last noted), that it holds what it states but for what an *)
(* open swap sent ahead (Covers), and of an open swap that the world a     *)
(* revert goes back to was in order too (Rested).  Every call is then one  *)
(* of a few things (CallShape): the pools of it Move, which keeps their    *)
(* books and takes nothing from a share.  Calls through the router and     *)
(* FlashSwap are sequences of such moves, pool by pool.                    *)
(*                                                                         *)
(* Timely and OracleInv come on top of it: that time does not run back,    *)
(* also over a revert, and that accumulators are sums of past prices.      *)
(***************************************************************************)
EXTENDS Amm, LedgerLemmas

(***************************************************************************)
(* Arithmetic.                                                             *)
(***************************************************************************)

LEMMA TimesMonotone ==
  ASSUME NEW x \in Nat, NEW y \in Nat, NEW k \in Nat, x <= y
  PROVE  x * k <= y * k /\ k * x <= k * y
OBVIOUS

LEMMA TimesStrict ==
  ASSUME NEW x \in Nat, NEW y \in Nat, NEW k \in Nat, x * k < y * k
  PROVE  x < y
<1> SUFFICES ASSUME y <= x PROVE FALSE
  OBVIOUS
<1> QED
  BY TimesMonotone

LEMMA TimesBoth ==
  ASSUME NEW x \in Nat, NEW y \in Nat, NEW u \in Nat, NEW v \in Nat, x <= u, y <= v
  PROVE  x * y <= u * v
<1>1. x * y <= u * y
  BY TimesMonotone
<1>2. u * y <= u * v
  BY TimesMonotone
<1>3. x * y \in Nat /\ u * y \in Nat /\ u * v \in Nat
  OBVIOUS
<1> QED
  BY <1>1, <1>2, <1>3

(* A factor that is not zero may be cancelled. *)
LEMMA TimesCancel ==
  ASSUME NEW x \in Nat, NEW y \in Nat, NEW k \in Nat, k > 0, x * k <= y * k
  PROVE  x <= y
<1> SUFFICES ASSUME y < x PROVE FALSE
  OBVIOUS
<1>1. (y + 1) * k <= x * k
  BY TimesMonotone
<1>2. (y + 1) * k = y * k + k
  OBVIOUS
<1>3. x * k \in Nat /\ y * k \in Nat
  OBVIOUS
<1> QED
  BY <1>1, <1>2, <1>3

(* What a division promises its caller, and where it stops. *)
LEMMA Floor ==
  ASSUME NEW x \in Nat, NEW d \in Nat, d > 0
  PROVE  /\ x \div d \in Nat
         /\ (x \div d) * d <= x
         /\ x < (x \div d) * d + d
         /\ \A q \in Nat : q <= x \div d <=> q * d <= x
<1>1. /\ x \div d \in Nat
      /\ (x \div d) * d <= x
      /\ x < (x \div d) * d + d
  OBVIOUS
<1>2. ASSUME NEW q \in Nat, q <= x \div d PROVE q * d <= x
  <2>1. q * d <= (x \div d) * d
    BY <1>1, <1>2, TimesMonotone
  <2> QED
    BY <1>1, <2>1
<1>3. ASSUME NEW q \in Nat, q * d <= x PROVE q <= x \div d
  <2>1. q * d < (x \div d + 1) * d
    BY <1>1, <1>3
  <2>2. x \div d + 1 \in Nat
    BY <1>1
  <2> HIDE <1>1
  <2>3. q < x \div d + 1
    BY <2>1, <2>2, TimesStrict
  <2> QED
    BY <1>1, <2>3
<1> QED
  BY <1>1, <1>2, <1>3

(* Sqrt is the integer below the root, for what a product of reserves can  *)
(* be.                                                                     *)
LEMMA SqrtFacts ==
  ASSUME NEW y \in Nat, y <= MaxReserve * MaxReserve
  PROVE  /\ Sqrt(y) \in Nat
         /\ Sqrt(y) * Sqrt(y) <= y
         /\ y < (Sqrt(y) + 1) * (Sqrt(y) + 1)
<1> DEFINE S == {z \in Nat : y < (z + 1) * (z + 1)}
<1>1. MaxReserve \in S
  BY PairAssumption
<1>2. PICK m \in S : \A t \in S : m <= t
  BY <1>1, LeastExists
<1>3. m \in 0 .. MaxReserve
  BY <1>1, <1>2, PairAssumption
<1>4. m * m <= y
  <2>1. CASE m = 0
    BY <2>1
  <2>2. CASE m > 0
    <3>1. m - 1 \notin S /\ m - 1 \in Nat
      BY <1>2, <2>2
    <3> QED
      BY <3>1
  <2> QED
    BY <1>2, <2>1, <2>2
<1>5. \E z \in 0 .. MaxReserve : z * z <= y /\ y < (z + 1) * (z + 1)
  BY <1>2, <1>3, <1>4
<1>6. Sqrt(y) \in 0 .. MaxReserve /\ Sqrt(y) * Sqrt(y) <= y /\ y < (Sqrt(y) + 1) * (Sqrt(y) + 1)
  BY <1>5 DEF Sqrt
<1> QED
  BY <1>6, PairAssumption

(* The protocol's share: what it dilutes the others by is growth. *)
LEMMA FeeDilutes ==
  ASSUME NEW S \in Nat, NEW k \in Nat, NEW l \in Nat, l < k
  PROVE  /\ (S * (k - l)) \div (k * 5 + l) \in Nat
         /\ (S + (S * (k - l)) \div (k * 5 + l)) * l <= S * k
<1> DEFINE d == k * 5 + l
           x == S * (k - l)
           f == x \div d
<1>1. d \in Nat /\ d > 0 /\ x \in Nat /\ l <= d
  OBVIOUS
<1>2. f \in Nat /\ f * d <= x
  BY <1>1, Floor
<1>3. f * l <= f * d
  BY <1>1, <1>2, TimesMonotone
<1>4. x = S * k - S * l
  OBVIOUS
<1>5. f * l <= S * k - S * l
  <2> HIDE DEF f, x, d
  <2> QED BY <1>1, <1>2, <1>3, <1>4
<1>6. (S + f) * l = S * l + f * l
  <2> HIDE DEF f, x, d
  <2> QED BY <1>2
<1>7. S * l \in Nat /\ S * k \in Nat /\ f * l \in Int
  <2> HIDE DEF f, x, d
  <2> QED BY <1>2
<1>8. (S + f) * l <= S * k
  <2> HIDE DEF f, x, d
  <2> QED BY <1>5, <1>6, <1>7
<1> QED
  BY <1>2, <1>8

-----------------------------------------------------------------------------
(***************************************************************************)
(* One pool.                                                               *)
(***************************************************************************)

(* Once shares exist some of them are locked for ever, and the reserves    *)
(* are not empty; the reserves have not shrunk since kLast was noted.      *)
PoolOK(p) ==
    /\ p \in Pool
    /\ p.supply = p.lp["zero"] + p.lp["pair"] + p.lp["user"] + p.lp["feeTo"]
    /\ \A s \in Sides : p.r[s] <= MaxReserve
    /\ p.supply > 0 => Funded(p.r) /\ p.lp["zero"] > 0
    /\ p.kLast <= K(p.r)

Fits(p) == \A s \in Sides : p.b[s] <= MaxReserve

(* The pool holds its reserves but for what was sent ahead. *)
Covers(p, ahead) == \A s \in Sides : p.b[s] >= p.r[s] - ahead[s]
Nothing == [s \in Sides |-> 0]

(* The accumulators are brought to t before the reserves change. *)
Booked(a, c, t) ==
    \/ c.r = a.r /\ c.cum = a.cum /\ c.last = a.last
    \/ c.cum = Accrued(a, t) /\ c.last = Stamp(t) /\ Stamp(t) >= a.last

LEMMA SidesFacts ==
  /\ 0 \in Sides /\ 1 \in Sides
  /\ \A s \in Sides : s \in {0, 1} /\ Other(s) \in Sides /\ Other(s) # s /\ Other(Other(s)) = s
  /\ Other(0) = 1 /\ Other(1) = 0
BY DEF Sides, Other

LEMMA KNat ==
  ASSUME NEW r \in [Sides -> Nat]
  PROVE  /\ K(r) \in Nat
         /\ Funded(r) <=> K(r) > 0
         /\ (\A s \in Sides : r[s] <= MaxReserve) => K(r) <= MaxReserve * MaxReserve
<1>1. r[0] \in Nat /\ r[1] \in Nat
  BY DEF Sides
<1>2. K(r) \in Nat
  BY <1>1 DEF K
<1>3. Funded(r) <=> r[0] > 0 /\ r[1] > 0
  BY DEF Funded, Sides
<1>4. r[0] > 0 /\ r[1] > 0 <=> r[0] * r[1] > 0
  <2>1. CASE r[0] = 0
    BY <1>1, <2>1
  <2>2. CASE r[1] = 0
    BY <1>1, <2>2
  <2>3. CASE r[0] >= 1 /\ r[1] >= 1
    BY <1>1, <2>3, TimesBoth
  <2> QED
    BY <1>1, <2>1, <2>2, <2>3
<1>5. (\A s \in Sides : r[s] <= MaxReserve) => K(r) <= MaxReserve * MaxReserve
  BY <1>1, TimesBoth, PairAssumption DEF K, Sides
<1> QED
  BY <1>2, <1>3, <1>4, <1>5 DEF K

LEMMA PriceNat ==
  ASSUME NEW r \in [Sides -> Nat], Funded(r), NEW s \in Sides
  PROVE  PriceAt(r, s) \in Nat
<1>1. r[Other(s)] \in Nat /\ r[s] \in Nat /\ r[s] > 0
  BY SidesFacts DEF Funded
<1>2. r[Other(s)] * Q \in Nat
  BY <1>1, PairAssumption
<1> QED
  BY <1>1, <1>2, Floor DEF PriceAt

LEMMA AccruedNat ==
  ASSUME NEW p \in Pool, NEW t \in Nat, Stamp(t) >= p.last
  PROVE  Accrued(p, t) \in [Sides -> Nat] /\ Stamp(t) \in Nat
<1>1. Stamp(t) \in Nat /\ Stamp(t) - p.last \in Nat
  BY PairAssumption DEF Stamp, Pool
<1>2. ASSUME NEW s \in Sides
      PROVE  (IF Stamp(t) - p.last > 0 /\ Funded(p.r)
              THEN p.cum[s] + PriceAt(p.r, s) * (Stamp(t) - p.last) ELSE p.cum[s]) \in Nat
  <2>1. p.cum[s] \in Nat /\ p.r \in [Sides -> Nat]
    BY DEF Pool
  <2>2. CASE Funded(p.r)
    <3>1. PriceAt(p.r, s) \in Nat
      BY <2>1, <2>2, PriceNat
    <3> QED
      BY <1>1, <2>1, <3>1
  <2>3. CASE ~ Funded(p.r)
    BY <2>1, <2>3
  <2> QED
    BY <2>2, <2>3
<1> QED
  BY <1>1, <1>2 DEF Accrued

LEMMA UpdateFacts ==
  ASSUME NEW p \in Pool, NEW t \in Nat, UpdateAllowed(p, t), NEW c, c = Update(p, t)
  PROVE  /\ c \in Pool
         /\ c.r = p.b /\ c.b = p.b
         /\ c.supply = p.supply /\ c.lp = p.lp /\ c.kLast = p.kLast
         /\ c.cum = Accrued(p, t) /\ c.last = Stamp(t) /\ Stamp(t) >= p.last
         /\ Fits(c)
<1>1. Accrued(p, t) \in [Sides -> Nat] /\ Stamp(t) \in Nat /\ Stamp(t) >= p.last
  BY AccruedNat DEF UpdateAllowed
<1>2. /\ c.r = p.b /\ c.b = p.b
      /\ c.supply = p.supply /\ c.lp = p.lp /\ c.kLast = p.kLast
      /\ c.cum = Accrued(p, t) /\ c.last = Stamp(t)
      /\ c = [r |-> c.r, b |-> c.b, supply |-> c.supply, lp |-> c.lp, kLast |-> c.kLast,
              last |-> c.last, cum |-> c.cum]
  BY DEF Update, Pool
<1>3. c \in Pool
  <2>1. /\ p.b \in [Sides -> Nat] /\ p.supply \in Nat /\ p.lp \in [Holders -> Nat]
        /\ p.kLast \in Nat
    BY DEF Pool
  <2> QED
    BY <1>1, <1>2, <2>1 DEF Pool
<1> QED
  BY <1>1, <1>2, <1>3 DEF Fits, UpdateAllowed

LEMMA LpNat ==
  ASSUME NEW p \in Pool
  PROVE  /\ p.lp["zero"] \in Nat /\ p.lp["pair"] \in Nat
         /\ p.lp["user"] \in Nat /\ p.lp["feeTo"] \in Nat
         /\ p.supply \in Nat /\ p.kLast \in Nat /\ p.last \in Nat
         /\ p.r \in [Sides -> Nat] /\ p.b \in [Sides -> Nat] /\ p.cum \in [Sides -> Nat]
         /\ p.lp \in [Holders -> Nat]
BY DEF Pool, Holders

(* New shares: only the balance of the one they are for changes. *)
LEMMA MintSharesFacts ==
  ASSUME NEW p \in Pool, NEW to \in Holders, NEW n \in Nat, NEW q, q = MintShares(p, to, n)
  PROVE  /\ q \in Pool
         /\ q.r = p.r /\ q.b = p.b /\ q.cum = p.cum /\ q.last = p.last /\ q.kLast = p.kLast
         /\ q.supply = p.supply + n
         /\ q.lp[to] = p.lp[to] + n
         /\ \A h \in Holders : h # to => q.lp[h] = p.lp[h]
<1>1. /\ p.supply \in Nat /\ p.kLast \in Nat /\ p.last \in Nat
      /\ p.r \in [Sides -> Nat] /\ p.b \in [Sides -> Nat] /\ p.cum \in [Sides -> Nat]
      /\ p.lp \in [Holders -> Nat]
  BY LpNat
<1>2. /\ q.r = p.r /\ q.b = p.b /\ q.cum = p.cum /\ q.last = p.last /\ q.kLast = p.kLast
      /\ q.supply = p.supply + n
      /\ q.lp = [p.lp EXCEPT ![to] = @ + n]
      /\ q = [r |-> q.r, b |-> q.b, supply |-> q.supply, lp |-> q.lp, kLast |-> q.kLast,
              last |-> q.last, cum |-> q.cum]
  BY DEF MintShares, Pool
<1>3. q.lp \in [Holders -> Nat]
  BY <1>1, <1>2
<1>4. q \in Pool
  BY <1>1, <1>2, <1>3 DEF Pool
<1> QED
  BY <1>1, <1>2, <1>4

(* _mintFee dilutes the others by no more than the root of k has grown. *)
LEMMA FeeFacts ==
  ASSUME NEW p, PoolOK(p), NEW on \in BOOLEAN, NEW q, q = MintFee(p, on)
  PROVE  /\ q \in Pool
         /\ q.r = p.r /\ q.b = p.b /\ q.cum = p.cum /\ q.last = p.last
         /\ q.kLast <= K(p.r)
         /\ q.lp["zero"] = p.lp["zero"] /\ q.lp["pair"] = p.lp["pair"]
         /\ q.supply = q.lp["zero"] + q.lp["pair"] + q.lp["user"] + q.lp["feeTo"]
         /\ q.supply >= p.supply
         /\ p.supply = 0 => q.supply = 0
         /\ ~ on => q.kLast = 0
         /\ IF q.lp["feeTo"] = p.lp["feeTo"] THEN q.supply = p.supply
            ELSE q.supply * Sqrt(p.kLast) <= p.supply * Sqrt(K(p.r))
<1> DEFINE S == p.supply
           k == Sqrt(K(p.r))
           l == Sqrt(p.kLast)
<1>1. /\ p \in Pool /\ S \in Nat /\ p.kLast \in Nat /\ p.kLast <= K(p.r) /\ K(p.r) \in Nat
      /\ K(p.r) <= MaxReserve * MaxReserve /\ p.lp["zero"] \in Nat /\ p.lp["pair"] \in Nat
      /\ p.lp["user"] \in Nat /\ p.lp["feeTo"] \in Nat
      /\ S = p.lp["zero"] + p.lp["pair"] + p.lp["user"] + p.lp["feeTo"]
  BY LpNat, KNat DEF PoolOK
<1>2. /\ k \in Nat /\ k * k <= K(p.r) /\ K(p.r) < (k + 1) * (k + 1)
      /\ l \in Nat /\ l * l <= p.kLast
  <2>1. p.kLast <= MaxReserve * MaxReserve
    BY <1>1, PairAssumption
  <2> QED
    BY <1>1, <2>1, SqrtFacts
<1>3. l <= k
  <2> HIDE DEF l, k
  <2>1. l * l < (k + 1) * (k + 1)
    BY <1>1, <1>2
  <2>2. l < k + 1
    <3> SUFFICES ASSUME k + 1 <= l PROVE FALSE
      BY <1>2
    <3>1. (k + 1) * (k + 1) <= l * l
      BY <1>2, TimesBoth
    <3> QED
      BY <2>1, <3>1, <1>2
  <2> QED
    BY <1>2, <2>2
<1>4. CASE p.kLast = 0
  BY <1>1, <1>4 DEF MintFee, PoolOK
<1>5. CASE p.kLast # 0 /\ ~ on
  <2>1. q = [p EXCEPT !.kLast = 0]
    BY <1>5 DEF MintFee
  <2>2. /\ q.r = p.r /\ q.b = p.b /\ q.cum = p.cum /\ q.last = p.last /\ q.kLast = 0
        /\ q.lp = p.lp /\ q.supply = p.supply
        /\ q = [r |-> q.r, b |-> q.b, supply |-> q.supply, lp |-> q.lp, kLast |-> q.kLast,
                last |-> q.last, cum |-> q.cum]
    BY <1>1, <2>1 DEF Pool
  <2>3. q \in Pool
    BY <1>1, <2>2 DEF Pool
  <2> QED
    BY <1>1, <1>5, <2>2, <2>3
<1>6. CASE p.kLast # 0 /\ on
  <2> DEFINE n == FeeShares(p)
  <2>1. n \in Nat /\ (S + n) * l <= S * k /\ (S = 0 => n = 0)
    <3>1. CASE k > l
      <4>1. n = (S * (k - l)) \div (k * 5 + l)
        BY <3>1 DEF FeeShares
      <4>2. n \in Nat /\ (S + n) * l <= S * k
        <5> HIDE DEF l, k, S, n
        <5> QED BY <1>1, <1>2, <3>1, <4>1, FeeDilutes
      <4>3. S = 0 => n = 0
        <5> HIDE DEF l, k, S
        <5> SUFFICES ASSUME S = 0 PROVE n = 0
          OBVIOUS
        <5>1. S * (k - l) = 0 /\ k * 5 + l \in Nat /\ k * 5 + l > 0
          BY <1>2, <3>1
        <5>2. 0 \div (k * 5 + l) = 0
          BY <5>1
        <5> QED
          BY <5>1, <5>2, <4>1
      <4> QED
        BY <4>2, <4>3
    <3>2. CASE ~ (k > l)
      <4>1. n = 0
        BY <3>2 DEF FeeShares
      <4>2. S * l <= S * k
        BY <1>1, <1>2, <1>3, TimesMonotone
      <4>3. (S + n) * l = S * l
        <5> HIDE DEF l, k, S, n
        <5> QED BY <4>1, <1>1, <1>2
      <4> QED
        BY <4>1, <4>2, <4>3
    <3> QED
      BY <3>1, <3>2
  <2>2. q = MintShares(p, "feeTo", n)
    BY <1>6 DEF MintFee
  <2> HIDE DEF n, k, l
  <2>3. /\ q \in Pool
        /\ q.r = p.r /\ q.b = p.b /\ q.cum = p.cum /\ q.last = p.last /\ q.kLast = p.kLast
        /\ q.supply = S + n /\ q.lp["feeTo"] = p.lp["feeTo"] + n
        /\ q.lp["zero"] = p.lp["zero"] /\ q.lp["pair"] = p.lp["pair"]
        /\ q.lp["user"] = p.lp["user"]
    <3>1. "feeTo" \in Holders /\ "zero" \in Holders /\ "pair" \in Holders /\ "user" \in Holders
      BY DEF Holders
    <3>2. n \in Nat /\ p \in Pool
      BY <1>1, <2>1
    <3>3. /\ q \in Pool
          /\ q.r = p.r /\ q.b = p.b /\ q.cum = p.cum /\ q.last = p.last /\ q.kLast = p.kLast
          /\ q.supply = p.supply + n /\ q.lp["feeTo"] = p.lp["feeTo"] + n
          /\ \A h \in Holders : h # "feeTo" => q.lp[h] = p.lp[h]
      BY <2>2, <3>1, <3>2, MintSharesFacts
    <3> QED
      BY <3>1, <3>3
  <2>4. q.supply * l <= S * k
    BY <2>1, <2>3
  <2>5. /\ q.supply = q.lp["zero"] + q.lp["pair"] + q.lp["user"] + q.lp["feeTo"]
        /\ q.supply >= S /\ (S = 0 => q.supply = 0) /\ q.kLast <= K(p.r)
    BY <1>1, <2>1, <2>3
  <2> QED
    BY <1>1, <1>6, <2>1, <2>3, <2>4, <2>5 DEF k, l
<1> QED
  BY <1>4, <1>5, <1>6

LEMMA SettledFacts ==
  ASSUME NEW p \in Pool, NEW on \in BOOLEAN, NEW t \in Nat, UpdateAllowed(p, t),
         NEW c, c = Settled(p, on, t)
  PROVE  /\ c \in Pool
         /\ c.r = p.b /\ c.b = p.b /\ c.supply = p.supply /\ c.lp = p.lp
         /\ c.kLast = IF on THEN K(p.b) ELSE p.kLast
         /\ c.cum = Accrued(p, t) /\ c.last = Stamp(t) /\ Stamp(t) >= p.last
         /\ Fits(c)
<1> DEFINE q == Update(p, t)
<1>1. /\ q \in Pool
      /\ q.r = p.b /\ q.b = p.b
      /\ q.supply = p.supply /\ q.lp = p.lp /\ q.kLast = p.kLast
      /\ q.cum = Accrued(p, t) /\ q.last = Stamp(t) /\ Stamp(t) >= p.last
      /\ Fits(q)
  BY UpdateFacts
<1>2. c = IF on THEN [q EXCEPT !.kLast = K(q.r)] ELSE q
  BY DEF Settled
<1> HIDE DEF q
<1>3. CASE ~ on
  BY <1>1, <1>2, <1>3
<1>4. CASE on
  <2>1. /\ c.r = q.r /\ c.b = q.b /\ c.supply = q.supply /\ c.lp = q.lp /\ c.kLast = K(q.r)
        /\ c.cum = q.cum /\ c.last = q.last
        /\ c = [r |-> c.r, b |-> c.b, supply |-> c.supply, lp |-> c.lp, kLast |-> c.kLast,
                last |-> c.last, cum |-> c.cum]
    BY <1>1, <1>2, <1>4 DEF Pool
  <2>2. K(q.r) \in Nat
    BY <1>1, LpNat, KNat
  <2>3. c \in Pool
    <3>1. /\ q.supply \in Nat /\ q.last \in Nat /\ q.r \in [Sides -> Nat] /\ q.b \in [Sides -> Nat]
          /\ q.cum \in [Sides -> Nat] /\ q.lp \in [Holders -> Nat]
      BY <1>1, LpNat
    <3> QED
      BY <2>1, <2>2, <3>1 DEF Pool
  <2> QED
    BY <1>1, <1>4, <2>1, <2>3 DEF Fits
<1> QED
  BY <1>3, <1>4

LEMMA AccruedSame ==
  ASSUME NEW p, NEW q, q.r = p.r, q.cum = p.cum, q.last = p.last, NEW t
  PROVE  Accrued(q, t) = Accrued(p, t)
BY DEF Accrued

Worth(a, c) ==
    a.supply > 0 => K(c.r) * a.supply * a.supply >= WorthBase(a, c) * c.supply * c.supply

(* U shares are left for the balances c, of T after the protocol's fee and *)
(* S before it for the reserves r.                                         *)
LEMMA WorthOfFee ==
  ASSUME NEW S \in Nat, NEW T \in Nat, NEW U \in Nat, NEW R \in Nat, NEW C \in Nat,
         NEW k \in Nat, NEW l \in Nat,
         R > 0, (U * U) * R <= (T * T) * C, k * k <= R, T * l <= S * k
  PROVE  C * S * S >= (l * l) * U * U
<1> DEFINE u == U * U
           w == T * T
           s == S * S
           a == l * l
           g == k * k
<1>1. u \in Nat /\ w \in Nat /\ s \in Nat /\ a \in Nat /\ g \in Nat
  OBVIOUS
<1>2. a * w <= s * g
  <2>1. (T * l) * (T * l) <= (S * k) * (S * k)
    BY TimesBoth
  <2>2. (T * l) * (T * l) = a * w /\ (S * k) * (S * k) = s * g
    OBVIOUS
  <2> QED
    BY <2>1, <2>2
<1>3. u * R <= w * C /\ g <= R
  OBVIOUS
<1>4. C * S * S = C * s /\ (l * l) * U * U = a * u
  OBVIOUS
<1> HIDE DEF u, w, s, a, g
<1>5. a * (u * R) <= a * (w * C)
  <2>1. u * R \in Nat /\ w * C \in Nat
    BY <1>1
  <2> QED
    BY <1>1, <1>3, <2>1, TimesMonotone
<1>6. (a * w) * C <= (s * g) * C
  <2>1. a * w \in Nat /\ s * g \in Nat
    BY <1>1
  <2> QED
    BY <1>2, <2>1, TimesMonotone
<1>7. g * (s * C) <= R * (s * C)
  <2>1. s * C \in Nat
    BY <1>1
  <2> QED
    BY <1>1, <1>3, <2>1, TimesMonotone
<1>8. /\ a * (u * R) = (a * u) * R /\ a * (w * C) = (a * w) * C
      /\ g * (s * C) = (s * g) * C /\ R * (s * C) = (C * s) * R
  BY <1>1
<1>9. /\ (a * u) * R \in Nat /\ (a * w) * C \in Nat /\ (s * g) * C \in Nat
      /\ (C * s) * R \in Nat /\ a * u \in Nat /\ C * s \in Nat
  BY <1>1
<1>10. (a * u) * R <= (C * s) * R
  BY <1>5, <1>6, <1>7, <1>8, <1>9
<1>11. a * u <= C * s
  BY <1>9, <1>10, TimesCancel
<1> QED
  BY <1>4, <1>9, <1>11

(* A call that leaves the shares at least their part of either balance.    *)
LEMMA WorthOfShares ==
  ASSUME NEW a, PoolOK(a), NEW on \in BOOLEAN, NEW q, q = MintFee(a, on), NEW c \in Pool,
         a.supply > 0,
         \A s \in Sides : c.supply * a.r[s] <= q.supply * c.r[s],
         c.lp["feeTo"] = q.lp["feeTo"]
  PROVE  Worth(a, c)
<1> DEFINE S == a.supply
           T == q.supply
           U == c.supply
           R == K(a.r)
           C == K(c.r)
<1>1. S \in Nat /\ T \in Nat /\ U \in Nat /\ R \in Nat /\ C \in Nat /\ R > 0 /\ a.kLast \in Nat
      /\ a.kLast <= R /\ R <= MaxReserve * MaxReserve
  <2>1. a \in Pool /\ q \in Pool /\ Funded(a.r) /\ (\A s \in Sides : a.r[s] <= MaxReserve)
        /\ a.kLast <= K(a.r)
    BY FeeFacts DEF PoolOK
  <2> QED
    BY <2>1, LpNat, KNat
<1>2. (U * U) * R <= (T * T) * C
  <2> DEFINE a0 == a.r[0]
             a1 == a.r[1]
             c0 == c.r[0]
             c1 == c.r[1]
  <2>1. a0 \in Nat /\ a1 \in Nat /\ c0 \in Nat /\ c1 \in Nat
    <3>1. a.r \in [Sides -> Nat] /\ c.r \in [Sides -> Nat]
      BY LpNat DEF PoolOK
    <3> QED
      BY <3>1 DEF Sides
  <2>2. U * a0 <= T * c0 /\ U * a1 <= T * c1
    BY DEF Sides
  <2>3. R = a0 * a1 /\ C = c0 * c1
    BY DEF K
  <2> HIDE DEF a0, a1, c0, c1, U, T, R, C
  <2>4. (U * a0) * (U * a1) <= (T * c0) * (T * c1)
    <3>1. U * a0 \in Nat /\ T * c0 \in Nat /\ U * a1 \in Nat /\ T * c1 \in Nat
      BY <1>1, <2>1
    <3> QED
      BY <2>2, <3>1, TimesBoth
  <2>5. (U * a0) * (U * a1) = (U * U) * (a0 * a1) /\ (T * c0) * (T * c1) = (T * T) * (c0 * c1)
    BY <1>1, <2>1
  <2> QED
    BY <2>3, <2>4, <2>5
<1>3. CASE q.lp["feeTo"] # a.lp["feeTo"]
  <2> DEFINE k == Sqrt(R)
             l == Sqrt(a.kLast)
  <2>1. k \in Nat /\ l \in Nat /\ k * k <= R
    <3>1. a.kLast <= MaxReserve * MaxReserve
      BY <1>1, PairAssumption
    <3> QED
      BY <1>1, <3>1, SqrtFacts
  <2>2. T * l <= S * k
    BY <1>3, FeeFacts
  <2>3. WorthBase(a, c) = l * l
    BY <1>3 DEF WorthBase
  <2> HIDE DEF k, l, S, T, U, R, C
  <2>4. C * S * S >= (l * l) * U * U
    BY <1>1, <1>2, <2>1, <2>2, WorthOfFee
  <2> QED
    BY <2>3, <2>4 DEF Worth, S, C, U
<1>4. CASE q.lp["feeTo"] = a.lp["feeTo"]
  <2>1. T = S
    BY <1>4, FeeFacts
  <2>2. WorthBase(a, c) = R
    BY <1>4 DEF WorthBase
  <2> HIDE DEF S, T, U, R, C
  <2>3. (U * U) * R = R * U * U /\ (S * S) * C = C * S * S
    BY <1>1
  <2>4. C * S * S >= R * U * U
    <3>1. (U * U) * R \in Nat /\ (S * S) * C \in Nat
      BY <1>1
    <3> QED
      BY <1>2, <2>1, <2>3, <3>1
  <2> QED
    BY <2>2, <2>4 DEF Worth, S, C, U
<1> QED
  BY <1>3, <1>4

LEMMA KMonotone ==
  ASSUME NEW r \in [Sides -> Nat], NEW b \in [Sides -> Nat], \A s \in Sides : r[s] <= b[s]
  PROVE  K(r) <= K(b)
<1>1. r[0] \in Nat /\ r[1] \in Nat /\ b[0] \in Nat /\ b[1] \in Nat /\ r[0] <= b[0] /\ r[1] <= b[1]
  BY DEF Sides
<1> QED
  BY <1>1, TimesBoth DEF K

(* The shares a deposit buys, after the protocol's fee. *)
LEMMA SharesFacts ==
  ASSUME NEW p, PoolOK(p), NEW on \in BOOLEAN, NEW t, MintAllowed(p, on, t),
         NEW q, q = MintFee(p, on), NEW n, n = SharesFor(q, Brought(p))
  PROVE  /\ n \in Nat /\ n > 0
         /\ q.supply = 0 => Funded(p.b)
         /\ q.supply > 0 => \A s \in Sides : (q.supply + n) * p.r[s] <= q.supply * p.b[s]
<1> DEFINE x == Brought(p)
           T == q.supply
<1>1. /\ p \in Pool /\ p.r \in [Sides -> Nat] /\ p.b \in [Sides -> Nat]
      /\ \A s \in Sides : p.b[s] >= p.r[s] /\ p.b[s] <= MaxReserve
  BY LpNat DEF PoolOK, MintAllowed, UpdateAllowed
<1>2. /\ q.r = p.r /\ q \in Pool /\ T \in Nat /\ T >= p.supply /\ p.supply \in Nat
      /\ (p.supply = 0 => T = 0)
  <2>1. q \in Pool /\ q.r = p.r /\ T >= p.supply /\ (p.supply = 0 => T = 0)
    BY FeeFacts
  <2> QED
    BY <1>1, <2>1, LpNat
<1>3. x \in [Sides -> Nat] /\ \A s \in Sides : x[s] <= p.b[s] /\ x[s] = p.b[s] - p.r[s]
  BY <1>1 DEF Brought
<1>4. n > 0
  BY DEF MintAllowed
<1>5. CASE T = 0
  <2>1. n = Sqrt(K(x)) - MinLiquidity
    BY <1>5 DEF SharesFor
  <2>2. K(x) \in Nat /\ K(x) <= MaxReserve * MaxReserve /\ (Funded(x) <=> K(x) > 0)
    <3>1. \A s \in Sides : x[s] <= MaxReserve
      BY <1>1, <1>3, PairAssumption
    <3> QED
      BY <1>3, <3>1, KNat
  <2>3. Sqrt(K(x)) \in Nat /\ Sqrt(K(x)) * Sqrt(K(x)) <= K(x)
    BY <2>2, SqrtFacts
  <2>4. n \in Nat /\ Sqrt(K(x)) >= 1
    BY <1>4, <2>1, <2>3, PairAssumption
  <2>5. K(x) > 0
    <3>1. 1 * 1 <= Sqrt(K(x)) * Sqrt(K(x))
      BY <2>3, <2>4, TimesBoth
    <3> QED
      BY <2>2, <2>3, <3>1
  <2>6. Funded(p.b)
    BY <1>1, <1>3, <2>2, <2>5 DEF Funded
  <2> QED
    BY <1>4, <1>5, <2>4, <2>6
<1>6. CASE T # 0
  <2>1. Funded(p.r)
    BY <1>2, <1>6 DEF PoolOK
  <2>2. n = Lesser((x[0] * T) \div p.r[0], (x[1] * T) \div p.r[1])
    BY <1>2, <1>6 DEF SharesFor
  <2> DEFINE v(s) == (x[s] * T) \div p.r[s]
  <2>3. ASSUME NEW s \in Sides
        PROVE  /\ p.r[s] \in Nat /\ p.r[s] > 0 /\ x[s] \in Nat /\ x[s] * T \in Nat
               /\ v(s) \in Nat /\ v(s) * p.r[s] <= x[s] * T
    <3>1. p.r[s] \in Nat /\ p.r[s] > 0 /\ x[s] \in Nat
      BY <1>1, <1>3, <2>1 DEF Funded
    <3>2. x[s] * T \in Nat
      BY <1>2, <3>1
    <3> QED
      BY <3>1, <3>2, Floor
  <2>4. n \in Nat /\ \A s \in Sides : n <= v(s)
    <3>1. n = Lesser(v(0), v(1)) /\ v(0) \in Nat /\ v(1) \in Nat
      BY <2>2, <2>3 DEF Sides
    <3> HIDE DEF v
    <3> QED
      BY <3>1 DEF Lesser, Sides
  <2>5. ASSUME NEW s \in Sides PROVE (T + n) * p.r[s] <= T * p.b[s]
    <3> DEFINE r == p.r[s]
               y == x[s]
               b == p.b[s]
               m == v(s)
    <3>1. r \in Nat /\ y \in Nat /\ b \in Nat /\ m \in Nat /\ n \in Nat /\ T \in Nat
          /\ n <= m /\ m * r <= y * T /\ b = r + y
      BY <1>1, <1>2, <1>3, <2>3, <2>4
    <3> HIDE DEF r, y, b, m, T
    <3>2. n * r <= m * r
      BY <3>1, TimesMonotone
    <3>3. (T + n) * r = T * r + n * r /\ T * b = T * r + y * T
      BY <3>1
    <3>4. n * r \in Nat /\ m * r \in Nat /\ y * T \in Nat /\ T * r \in Nat
      BY <3>1
    <3>5. (T + n) * r <= T * b
      BY <3>1, <3>2, <3>3, <3>4
    <3> QED
      BY <3>5 DEF r, b
  <2> QED
    BY <1>2, <1>4, <1>6, <2>4, <2>5
<1> QED
  BY <1>2, <1>5, <1>6

LEMMA MintKeeps ==
  ASSUME NEW p, PoolOK(p), NEW on \in BOOLEAN, NEW t \in Nat, MintAllowed(p, on, t),
         NEW c, c = Minted(p, on, t)
  PROVE  /\ PoolOK(c) /\ c.r = p.b /\ c.b = p.b /\ Fits(c)
         /\ Booked(p, c, t)
         /\ Worth(p, c)
<1> DEFINE q == MintFee(p, on)
           n == SharesFor(q, Brought(p))
           first == IF q.supply = 0 THEN MintShares(q, "zero", MinLiquidity) ELSE q
           m == MintShares(first, "user", n)
<1>0. c = Settled(m, on, t)
  BY DEF Minted
<1>1. /\ q \in Pool
      /\ q.r = p.r /\ q.b = p.b /\ q.cum = p.cum /\ q.last = p.last
      /\ q.kLast <= K(p.r)
      /\ q.supply = q.lp["zero"] + q.lp["pair"] + q.lp["user"] + q.lp["feeTo"]
      /\ q.lp["zero"] = p.lp["zero"]
      /\ q.supply >= p.supply
      /\ (p.supply = 0 => q.supply = 0)
  BY FeeFacts
<1>2. /\ n \in Nat /\ n > 0
      /\ (q.supply = 0 => Funded(p.b))
      /\ (q.supply > 0 => \A s \in Sides : (q.supply + n) * p.r[s] <= q.supply * p.b[s])
  BY SharesFacts
<1>3. /\ p \in Pool /\ p.r \in [Sides -> Nat] /\ p.b \in [Sides -> Nat] /\ p.supply \in Nat
      /\ q.supply \in Nat /\ q.kLast \in Nat
      /\ q.lp["zero"] \in Nat /\ q.lp["pair"] \in Nat /\ q.lp["user"] \in Nat /\ q.lp["feeTo"] \in Nat
      /\ \A s \in Sides : p.b[s] >= p.r[s] /\ p.b[s] <= MaxReserve
      /\ UpdateAllowed(p, t)
  <2>1. p \in Pool
    BY DEF PoolOK
  <2> QED
    BY <1>1, <2>1, LpNat DEF MintAllowed, UpdateAllowed
<1>4. "zero" \in Holders /\ "pair" \in Holders /\ "user" \in Holders /\ "feeTo" \in Holders
  BY DEF Holders
<1> HIDE DEF q, n
<1>5. /\ first \in Pool
      /\ first.r = p.r /\ first.b = p.b /\ first.cum = p.cum /\ first.last = p.last
      /\ first.kLast = q.kLast
      /\ first.lp["pair"] = q.lp["pair"] /\ first.lp["user"] = q.lp["user"]
      /\ first.lp["feeTo"] = q.lp["feeTo"]
      /\ first.supply = first.lp["zero"] + q.lp["pair"] + q.lp["user"] + q.lp["feeTo"]
      /\ first.lp["zero"] \in Nat
      /\ IF q.supply = 0 THEN first.lp["zero"] > 0
         ELSE first.supply = q.supply /\ first.lp["zero"] = p.lp["zero"]
  <2>1. CASE q.supply = 0
    <3>1. first = MintShares(q, "zero", MinLiquidity) /\ MinLiquidity \in Nat /\ MinLiquidity > 0
      BY <2>1, PairAssumption
    <3> HIDE DEF first
    <3>2. /\ first \in Pool
          /\ first.r = q.r /\ first.b = q.b /\ first.cum = q.cum /\ first.last = q.last
          /\ first.kLast = q.kLast
          /\ first.supply = q.supply + MinLiquidity
          /\ first.lp["zero"] = q.lp["zero"] + MinLiquidity
          /\ \A h \in Holders : h # "zero" => first.lp[h] = q.lp[h]
      <4>1. q \in Pool /\ "zero" \in Holders
        BY <1>1, <1>4
      <4> QED
        BY <3>1, <4>1, MintSharesFacts
    <3> QED
      BY <1>1, <1>3, <1>4, <2>1, <3>1, <3>2
  <2>2. CASE q.supply # 0
    BY <1>1, <1>3, <2>2
  <2> QED
    BY <2>1, <2>2
<1> HIDE DEF first
<1>14. m = MintShares(first, "user", n)
  OBVIOUS
<1> HIDE DEF m
<1>6. /\ m \in Pool
      /\ m.r = p.r /\ m.b = p.b /\ m.cum = p.cum /\ m.last = p.last /\ m.kLast = q.kLast
      /\ m.supply = first.supply + n
      /\ m.lp["user"] = first.lp["user"] + n
      /\ \A h \in Holders : h # "user" => m.lp[h] = first.lp[h]
  <2>1. first \in Pool /\ "user" \in Holders /\ n \in Nat
    BY <1>2, <1>4, <1>5
  <2>2. /\ m \in Pool
        /\ m.r = first.r /\ m.b = first.b /\ m.cum = first.cum /\ m.last = first.last
        /\ m.kLast = first.kLast /\ m.supply = first.supply + n
        /\ m.lp["user"] = first.lp["user"] + n
        /\ \A h \in Holders : h # "user" => m.lp[h] = first.lp[h]
    BY <1>14, <2>1, MintSharesFacts
  <2> QED
    BY <1>5, <2>2
<1>7. /\ c \in Pool
      /\ c.r = p.b /\ c.b = p.b /\ c.supply = m.supply /\ c.lp = m.lp
      /\ c.kLast = (IF on THEN K(p.b) ELSE q.kLast)
      /\ c.cum = Accrued(p, t) /\ c.last = Stamp(t) /\ Stamp(t) >= p.last
      /\ Fits(c)
  <2>1. UpdateAllowed(m, t)
    BY <1>3, <1>6 DEF UpdateAllowed
  <2>2. Accrued(m, t) = Accrued(p, t)
    BY <1>6, AccruedSame
  <2> QED
    BY <1>0, <1>6, <2>1, <2>2, SettledFacts
<1>8. K(p.r) <= K(p.b) /\ K(p.r) \in Nat /\ K(p.b) \in Nat
  BY <1>3, KMonotone, KNat
<1>9. c.supply = c.lp["zero"] + c.lp["pair"] + c.lp["user"] + c.lp["feeTo"]
  BY <1>2, <1>3, <1>4, <1>5, <1>6, <1>7
<1>10. Funded(c.r) /\ c.lp["zero"] > 0
  <2>1. CASE q.supply = 0
    BY <1>2, <1>4, <1>5, <1>6, <1>7, <2>1
  <2>2. CASE q.supply # 0
    <3>1. p.supply > 0
      BY <1>1, <1>3, <2>2
    <3>2. Funded(p.r) /\ p.lp["zero"] > 0
      BY <3>1 DEF PoolOK
    <3>3. Funded(p.b)
      BY <1>3, <3>2 DEF Funded
    <3> QED
      BY <1>4, <1>5, <1>6, <1>7, <2>2, <3>2, <3>3
  <2> QED
    BY <2>1, <2>2
<1>11. c.kLast <= K(c.r)
  BY <1>1, <1>3, <1>7, <1>8
<1>12. PoolOK(c)
  BY <1>3, <1>7, <1>9, <1>10, <1>11 DEF PoolOK
<1>13. Worth(p, c)
  <2>1. CASE p.supply = 0
    BY <2>1 DEF Worth
  <2>2. CASE p.supply # 0
    <3>1. q.supply > 0 /\ c.supply = q.supply + n /\ p.supply > 0
          /\ c.lp["feeTo"] = q.lp["feeTo"]
      BY <1>1, <1>2, <1>3, <1>4, <1>5, <1>6, <1>7, <2>2
    <3>2. \A s \in Sides : c.supply * p.r[s] <= q.supply * c.r[s]
      BY <1>2, <1>7, <3>1
    <3> QED
      BY <1>7, <3>1, <3>2, WorthOfShares DEF q
  <2> QED
    BY <2>1, <2>2
<1> QED
  BY <1>7, <1>12, <1>13 DEF Booked

(* Covered in full: nothing was sent ahead. *)
LEMMA CoversAll ==
  ASSUME NEW p \in Pool
  PROVE  Covers(p, Nothing) <=> \A s \in Sides : p.r[s] <= p.b[s]
<1>1. \A s \in Sides : p.r[s] \in Nat /\ p.b[s] \in Nat /\ Nothing[s] = 0
  BY LpNat DEF Nothing
<1> QED
  BY <1>1 DEF Covers

(* What a withdrawal is paid, after the protocol's fee. *)
LEMMA PayoutFacts ==
  ASSUME NEW p, PoolOK(p), Covers(p, Nothing), NEW on \in BOOLEAN, p.supply > 0,
         NEW q, q = MintFee(p, on), NEW out, out = Payout(p, on), NEW s \in Sides
  PROVE  /\ out[s] \in Nat /\ out[s] < p.b[s]
         /\ p.lp["pair"] < q.supply
         /\ (q.supply - p.lp["pair"]) * p.r[s] <= q.supply * (p.b[s] - out[s])
<1> DEFINE T == q.supply
           L == p.lp["pair"]
           b == p.b[s]
           r == p.r[s]
           n == (L * b) \div T
<1>1. /\ p \in Pool /\ q \in Pool /\ L \in Nat /\ T \in Nat /\ b \in Nat /\ r \in Nat /\ r > 0 /\ r <= b
  <2>1. p \in Pool /\ q \in Pool /\ Funded(p.r)
    BY FeeFacts DEF PoolOK
  <2> QED
    BY <2>1, LpNat, CoversAll DEF Funded
<1>2. L < T
  <2>1. /\ q.lp["zero"] > 0 /\ q.lp["pair"] = L
        /\ T = q.lp["zero"] + q.lp["pair"] + q.lp["user"] + q.lp["feeTo"]
    BY FeeFacts DEF PoolOK
  <2> QED
    BY <1>1, <2>1, LpNat
<1>3. out[s] = n
  BY DEF Payout
<1>4. L * b \in Nat /\ L * b < T * b
  <2> HIDE DEF L, b, T
  <2>1. (L + 1) * b <= T * b
    BY <1>1, <1>2, TimesMonotone
  <2>2. (L + 1) * b = L * b + b /\ L * b \in Nat /\ T * b \in Nat /\ b > 0
    BY <1>1
  <2> QED
    BY <1>1, <2>1, <2>2
<1> HIDE DEF L, b, T, r
<1>5. n \in Nat /\ n * T <= L * b
  BY <1>1, <1>2, <1>4, Floor
<1>6. n < b
  <2> HIDE DEF n
  <2>1. n * T < b * T
    <3>1. n * T \in Nat /\ b * T = T * b /\ T * b \in Nat
      BY <1>1, <1>5
    <3> QED
      BY <1>4, <1>5, <3>1
  <2> QED
    BY <1>1, <1>5, <2>1, TimesStrict
<1>7. (T - L) * r <= T * (b - n)
  <2> HIDE DEF n
  <2>1. T * (b - n) = T * b - n * T /\ (T - L) * b = T * b - L * b
    BY <1>1, <1>5
  <2>2. (T - L) * r <= (T - L) * b
    <3>1. T - L \in Nat
      BY <1>1, <1>2
    <3> QED
      BY <1>1, <3>1, TimesMonotone
  <2>3. T * b \in Nat /\ n * T \in Nat /\ L * b \in Nat /\ (T - L) * r \in Int
    BY <1>1, <1>5
  <2> QED
    BY <1>5, <2>1, <2>2, <2>3
<1> QED
  BY <1>2, <1>3, <1>5, <1>6, <1>7 DEF T, L, b, r

LEMMA BurnSharesFacts ==
  ASSUME NEW p \in Pool, NEW n, NEW q, q = BurnShares(p, n)
  PROVE  /\ q.r = p.r /\ q.cum = p.cum /\ q.last = p.last /\ q.kLast = p.kLast
         /\ q.supply = p.supply - n
         /\ q.lp = [p.lp EXCEPT !["pair"] = @ - n]
         /\ q = [r |-> q.r, b |-> q.b, supply |-> q.supply, lp |-> q.lp, kLast |-> q.kLast,
                 last |-> q.last, cum |-> q.cum]
BY DEF BurnShares, Pool

LEMMA BurnKeeps ==
  ASSUME NEW p, PoolOK(p), Covers(p, Nothing), NEW on \in BOOLEAN, NEW t \in Nat,
         BurnAllowed(p, on, t), NEW c, c = Burned(p, on, t)
  PROVE  /\ PoolOK(c) /\ c.r = c.b /\ Fits(c)
         /\ Booked(p, c, t)
         /\ Worth(p, c)
<1> DEFINE q == MintFee(p, on)
           out == Payout(p, on)
           L == p.lp["pair"]
           left == [s \in Sides |-> p.b[s] - out[s]]
           m == BurnShares(q, L)
           n == [m EXCEPT !.b = left]
<1>0. c = Settled(n, on, t)
  BY DEF Burned
<1>1. /\ q \in Pool
      /\ q.r = p.r /\ q.b = p.b /\ q.cum = p.cum /\ q.last = p.last
      /\ q.kLast <= K(p.r) /\ (~ on => q.kLast = 0)
      /\ q.supply = q.lp["zero"] + q.lp["pair"] + q.lp["user"] + q.lp["feeTo"]
      /\ q.lp["zero"] = p.lp["zero"] /\ q.lp["pair"] = L
      /\ q.supply >= p.supply
  BY FeeFacts
<1>2. p.supply > 0 /\ p \in Pool /\ p.lp["zero"] > 0 /\ Funded(p.r) /\ UpdateAllowed(p, t)
  BY DEF BurnAllowed, PoolOK
<1>3. /\ L < q.supply
      /\ \A s \in Sides :
          /\ out[s] \in Nat /\ out[s] < p.b[s]
          /\ (q.supply - L) * p.r[s] <= q.supply * (p.b[s] - out[s])
  BY <1>2, PayoutFacts, SidesFacts
<1>4. /\ p.b \in [Sides -> Nat] /\ p.supply \in Nat /\ L \in Nat
      /\ q.supply \in Nat /\ q.kLast \in Nat /\ q.last \in Nat /\ q.cum \in [Sides -> Nat]
      /\ q.r \in [Sides -> Nat]
      /\ q.lp \in [Holders -> Nat]
      /\ q.lp["zero"] \in Nat /\ q.lp["pair"] \in Nat /\ q.lp["user"] \in Nat /\ q.lp["feeTo"] \in Nat
  BY <1>1, <1>2, LpNat
<1> HIDE DEF q, out
<1>5. left \in [Sides -> Nat] /\ Funded(left) /\ \A s \in Sides : left[s] <= p.b[s]
  BY <1>3, <1>4 DEF Funded
<1> HIDE DEF L, left
<1>15. /\ m.r = q.r /\ m.cum = q.cum /\ m.last = q.last /\ m.kLast = q.kLast
       /\ m.supply = q.supply - L /\ m.lp = [q.lp EXCEPT !["pair"] = @ - L]
       /\ m = [r |-> m.r, b |-> m.b, supply |-> m.supply, lp |-> m.lp, kLast |-> m.kLast,
               last |-> m.last, cum |-> m.cum]
  BY <1>1, BurnSharesFacts
<1> HIDE DEF m
<1>6. /\ n.r = p.r /\ n.b = left /\ n.cum = p.cum /\ n.last = p.last /\ n.kLast = q.kLast
      /\ n.supply = q.supply - L /\ n.lp = [q.lp EXCEPT !["pair"] = @ - L]
      /\ n = [r |-> n.r, b |-> n.b, supply |-> n.supply, lp |-> n.lp, kLast |-> n.kLast,
              last |-> n.last, cum |-> n.cum]
  BY <1>1, <1>15
<1> HIDE DEF n
<1>7. /\ n.lp \in [Holders -> Nat]
      /\ n.lp["zero"] = q.lp["zero"] /\ n.lp["pair"] = 0
      /\ n.lp["user"] = q.lp["user"] /\ n.lp["feeTo"] = q.lp["feeTo"]
  BY <1>1, <1>4, <1>6 DEF Holders
<1>8. n \in Pool
  <2>1. n.supply \in Nat
    BY <1>3, <1>4, <1>6
  <2> QED
    BY <1>1, <1>4, <1>5, <1>6, <1>7, <2>1 DEF Pool
<1>9. /\ c \in Pool
      /\ c.r = left /\ c.b = left /\ c.supply = n.supply /\ c.lp = n.lp
      /\ c.kLast = (IF on THEN K(left) ELSE n.kLast)
      /\ c.cum = Accrued(p, t) /\ c.last = Stamp(t) /\ Stamp(t) >= p.last
      /\ Fits(c)
  <2>1. UpdateAllowed(n, t)
    <3>1. \A s \in Sides : p.b[s] <= MaxReserve /\ p.b[s] \in Nat /\ left[s] \in Nat
      BY <1>2, <1>4, <1>5 DEF UpdateAllowed
    <3> QED
      BY <1>2, <1>5, <1>6, <3>1, PairAssumption DEF UpdateAllowed
  <2>2. Accrued(n, t) = Accrued(p, t)
    BY <1>6, AccruedSame
  <2> QED
    BY <1>0, <1>6, <1>8, <2>1, <2>2, SettledFacts
<1>10. K(left) \in Nat
  BY <1>5, KNat
<1>11. c.supply = c.lp["zero"] + c.lp["pair"] + c.lp["user"] + c.lp["feeTo"]
  BY <1>1, <1>4, <1>6, <1>7, <1>9
<1>12. c.kLast <= K(c.r)
  BY <1>1, <1>6, <1>9, <1>10
<1>13. PoolOK(c)
  BY <1>1, <1>2, <1>5, <1>7, <1>9, <1>11, <1>12 DEF PoolOK, Fits
<1>14. Worth(p, c)
  <2>1. c.supply = q.supply - L /\ c.r = left /\ \A s \in Sides : left[s] = p.b[s] - out[s]
    BY <1>6, <1>9 DEF left
  <2>2. \A s \in Sides : c.supply * p.r[s] <= q.supply * c.r[s]
    BY <1>3, <2>1
  <2>3. c.lp["feeTo"] = q.lp["feeTo"]
    BY <1>7, <1>9
  <2> QED
    BY <1>2, <1>9, <2>2, <2>3, WorthOfShares DEF q
<1> QED
  BY <1>9, <1>13, <1>14 DEF Booked

(* Balances that change and nothing else. *)
SameBooks(p, c) ==
    /\ c.r = p.r /\ c.supply = p.supply /\ c.lp = p.lp /\ c.kLast = p.kLast
    /\ c.cum = p.cum /\ c.last = p.last

LEMMA SameBooksOK ==
  ASSUME NEW p, PoolOK(p), NEW c \in Pool, SameBooks(p, c)
  PROVE  PoolOK(c)
BY DEF PoolOK, SameBooks

LEMMA BalancesFacts ==
  ASSUME NEW p \in Pool, NEW b \in [Sides -> Nat], NEW c, c = [p EXCEPT !.b = b]
  PROVE  c \in Pool /\ c.b = b /\ SameBooks(p, c)
<1>1. /\ c.r = p.r /\ c.b = b /\ c.supply = p.supply /\ c.lp = p.lp /\ c.kLast = p.kLast
      /\ c.cum = p.cum /\ c.last = p.last
      /\ c = [r |-> c.r, b |-> c.b, supply |-> c.supply, lp |-> c.lp, kLast |-> c.kLast,
              last |-> c.last, cum |-> c.cum]
  BY DEF Pool
<1>2. /\ p.supply \in Nat /\ p.kLast \in Nat /\ p.last \in Nat
      /\ p.r \in [Sides -> Nat] /\ p.cum \in [Sides -> Nat] /\ p.lp \in [Holders -> Nat]
  BY LpNat
<1>3. c \in Pool
  BY <1>1, <1>2 DEF Pool
<1> QED
  BY <1>1, <1>3 DEF SameBooks

LEMMA PayInFacts ==
  ASSUME NEW p \in Pool, NEW s \in Sides, NEW n \in Nat, NEW c, c = PayIn(p, s, n)
  PROVE  /\ c \in Pool /\ SameBooks(p, c)
         /\ c.b[s] = p.b[s] + n /\ c.b[Other(s)] = p.b[Other(s)]
<1> DEFINE b == [p.b EXCEPT ![s] = @ + n]
<1>1. p.b \in [Sides -> Nat]
  BY LpNat
<1>2. b \in [Sides -> Nat]
  BY <1>1
<1>3. c = [p EXCEPT !.b = b]
  BY DEF PayIn
<1>4. c \in Pool /\ c.b = b /\ SameBooks(p, c)
  <2> HIDE DEF b
  <2> QED BY <1>2, <1>3, BalancesFacts
<1> QED
  BY <1>1, <1>4, SidesFacts

LEMMA PayInKeeps ==
  ASSUME NEW p, PoolOK(p), NEW s \in Sides, NEW n \in Nat, NEW c, c = PayIn(p, s, n)
  PROVE  /\ PoolOK(c) /\ SameBooks(p, c)
         /\ \A x \in Sides : p.b[x] <= c.b[x]
<1>1. p \in Pool
  BY DEF PoolOK
<1>2. /\ c \in Pool /\ SameBooks(p, c)
      /\ c.b[s] = p.b[s] + n /\ c.b[Other(s)] = p.b[Other(s)]
  BY <1>1, PayInFacts
<1>3. \A x \in Sides : p.b[x] \in Nat
  BY <1>1, LpNat
<1> QED
  BY <1>2, <1>3, SameBooksOK DEF Sides, Other

LEMMA SentOutKeeps ==
  ASSUME NEW p, PoolOK(p), Covers(p, Nothing), NEW out \in [Sides -> Nat], SwapBegins(p, out),
         NEW c, c = SentOut(p, out)
  PROVE  /\ PoolOK(c) /\ SameBooks(p, c)
         /\ \A s \in Sides : c.b[s] = p.b[s] - out[s] /\ out[s] < p.r[s]
         /\ Covers(c, out)
<1> DEFINE b == [s \in Sides |-> p.b[s] - out[s]]
<1>1. p \in Pool /\ \A s \in Sides : /\ p.b[s] \in Nat /\ p.r[s] \in Nat
                                     /\ out[s] \in Nat /\ out[s] < p.r[s] /\ p.r[s] <= p.b[s]
  BY LpNat, CoversAll DEF PoolOK, SwapBegins
<1>2. b \in [Sides -> Nat]
  BY <1>1
<1>3. c = [p EXCEPT !.b = b]
  BY DEF SentOut
<1>4. c \in Pool /\ c.b = b /\ SameBooks(p, c)
  <2> HIDE DEF b
  <2> QED BY <1>1, <1>2, <1>3, BalancesFacts
<1>5. \A s \in Sides : c.b[s] = p.b[s] - out[s] /\ c.r[s] = p.r[s]
  BY <1>4 DEF SameBooks
<1> QED
  BY <1>1, <1>4, <1>5, SameBooksOK DEF Covers

(* What came in is what the balances hold beyond what was left. *)
LEMMA CameInFacts ==
  ASSUME NEW p \in Pool, NEW out \in [Sides -> Nat], NEW s \in Sides,
         out[s] < p.r[s], Covers(p, out)
  PROVE  CameIn(p, out)[s] \in Nat /\ p.b[s] = p.r[s] - out[s] + CameIn(p, out)[s]
<1>1. p.b[s] \in Nat /\ p.r[s] \in Nat /\ out[s] \in Nat /\ p.b[s] >= p.r[s] - out[s]
  BY LpNat DEF Covers
<1>2. CameIn(p, out)[s] = IF p.b[s] > p.r[s] - out[s] THEN p.b[s] - (p.r[s] - out[s]) ELSE 0
  BY DEF CameIn
<1> QED
  BY <1>1, <1>2

(* A pool that accepts has not lost. *)
LEMMA SwapEndsKeeps ==
  ASSUME NEW p, PoolOK(p), NEW out \in [Sides -> Nat], \A s \in Sides : out[s] < p.r[s],
         Covers(p, out), NEW t \in Nat, SwapEnds(p, out, t), NEW c, c = Update(p, t)
  PROVE  /\ PoolOK(c) /\ c.r = p.b /\ c.b = p.b /\ Fits(c)
         /\ c.supply = p.supply /\ c.lp = p.lp /\ c.kLast = p.kLast
         /\ Booked(p, c, t) /\ K(p.r) <= K(c.r)
<1> DEFINE in == CameIn(p, out)
           b0 == p.b[0]
           b1 == p.b[1]
           x0 == in[0]
           x1 == in[1]
<1>1. p \in Pool /\ p.r \in [Sides -> Nat] /\ p.b \in [Sides -> Nat] /\ K(p.r) \in Nat /\ K(p.b) \in Nat
      /\ p.supply \in Nat /\ p.kLast \in Nat
  <2>1. p \in Pool
    BY DEF PoolOK
  <2> QED
    BY <2>1, LpNat, KNat
<1>2. /\ b0 \in Nat /\ b1 \in Nat /\ x0 \in Nat /\ x1 \in Nat /\ x0 <= b0 /\ x1 <= b1
  <2>1. \A s \in Sides : in[s] \in Nat /\ p.b[s] = p.r[s] - out[s] + in[s] /\ p.r[s] \in Nat
                          /\ out[s] \in Nat
    BY <1>1, CameInFacts
  <2> QED
    BY <1>1, <2>1 DEF Sides
<1>3. (b0 * 1000 - x0 * 3) * (b1 * 1000 - x1 * 3) >= K(p.r) * 1000 * 1000
  BY DEF SwapEnds, KeepsK, K, Sides
<1>4. K(p.b) = b0 * b1
  BY DEF K
<1> HIDE DEF b0, b1, x0, x1
<1>5. K(p.r) <= K(p.b)
  <2>1. /\ b0 * 1000 - x0 * 3 \in Nat /\ b0 * 1000 - x0 * 3 <= b0 * 1000
        /\ b1 * 1000 - x1 * 3 \in Nat /\ b1 * 1000 - x1 * 3 <= b1 * 1000
        /\ b0 * 1000 \in Nat /\ b1 * 1000 \in Nat
    BY <1>2
  <2>2. (b0 * 1000 - x0 * 3) * (b1 * 1000 - x1 * 3) <= (b0 * 1000) * (b1 * 1000)
    BY <2>1, TimesBoth
  <2>3. (b0 * 1000) * (b1 * 1000) = (b0 * b1) * 1000000 /\ b0 * b1 \in Nat
    BY <1>2
  <2>4. (b0 * 1000 - x0 * 3) * (b1 * 1000 - x1 * 3) \in Int
    BY <1>2
  <2> HIDE DEF in
  <2> QED
    BY <1>1, <1>3, <1>4, <2>2, <2>3, <2>4
<1>6. /\ c \in Pool /\ c.r = p.b /\ c.b = p.b
      /\ c.supply = p.supply /\ c.lp = p.lp /\ c.kLast = p.kLast
      /\ c.cum = Accrued(p, t) /\ c.last = Stamp(t) /\ Stamp(t) >= p.last
      /\ Fits(c)
  BY <1>1, UpdateFacts DEF SwapEnds
<1>7. Funded(p.r) => Funded(p.b)
  BY <1>1, <1>5, KNat
<1>8. p.kLast <= K(p.r) /\ p.kLast <= K(p.b)
  BY <1>1, <1>5 DEF PoolOK
<1>9. PoolOK(c)
  BY <1>6, <1>7, <1>8 DEF PoolOK, Fits
<1> QED
  BY <1>5, <1>6, <1>9 DEF Booked

(* What a trade leaves of a pool's books. *)
Traded(p, c, t) ==
    /\ c.supply = p.supply /\ c.lp = p.lp /\ c.kLast = p.kLast
    /\ K(p.r) <= K(c.r)
    /\ Booked(p, c, t)

LEMMA SwapKeeps ==
  ASSUME NEW p, PoolOK(p), Covers(p, Nothing), NEW out \in [Sides -> Nat], NEW t \in Nat,
         SwapAllowed(p, out, t), NEW c, c = Swapped(p, out, t)
  PROVE  /\ PoolOK(c) /\ c.r = c.b /\ Fits(c) /\ Traded(p, c, t)
         /\ \A s \in Sides : c.b[s] = p.b[s] - out[s]
<1> DEFINE q == SentOut(p, out)
<1>1. /\ PoolOK(q) /\ SameBooks(p, q)
      /\ \A s \in Sides : q.b[s] = p.b[s] - out[s] /\ out[s] < p.r[s]
      /\ Covers(q, out)
  BY SentOutKeeps DEF SwapAllowed
<1>2. SwapEnds(q, out, t) /\ c = Update(q, t)
  BY DEF SwapAllowed, Swapped
<1> HIDE DEF q
<1>3. /\ PoolOK(c) /\ c.r = q.b /\ c.b = q.b /\ Fits(c)
      /\ c.supply = q.supply /\ c.lp = q.lp /\ c.kLast = q.kLast
      /\ Booked(q, c, t) /\ K(q.r) <= K(c.r)
  BY <1>1, <1>2, SwapEndsKeeps DEF SameBooks
<1>4. Booked(p, c, t)
  BY <1>1, <1>3, AccruedSame DEF SameBooks, Booked
<1> QED
  BY <1>1, <1>3, <1>4 DEF SameBooks, Traded

LEMMA TradedSame ==
  ASSUME NEW p \in Pool, NEW c, SameBooks(p, c), NEW t
  PROVE  Traded(p, c, t)
<1>1. K(p.r) \in Nat
  BY LpNat, KNat
<1> QED
  BY <1>1 DEF SameBooks, Traded, Booked

(* Within one second only the first trade moves the accumulators. *)
LEMMA TradedTwice ==
  ASSUME NEW p \in Pool, NEW q \in Pool, NEW c \in Pool, NEW t \in Nat,
         Traded(p, q, t), Traded(q, c, t)
  PROVE  Traded(p, c, t)
<1>1. K(p.r) \in Nat /\ K(q.r) \in Nat /\ K(c.r) \in Nat
  BY LpNat, KNat
<1>2. Booked(p, c, t)
  <2>1. CASE q.r = p.r /\ q.cum = p.cum /\ q.last = p.last
    BY <2>1, AccruedSame DEF Traded, Booked
  <2>2. CASE q.cum = Accrued(p, t) /\ q.last = Stamp(t) /\ Stamp(t) >= p.last
    <3>1. q.last \in Nat /\ q.cum \in [Sides -> Nat]
      BY LpNat
    <3>2. Accrued(q, t) = q.cum
      BY <2>2, <3>1 DEF Accrued
    <3> QED
      BY <2>2, <3>2 DEF Traded, Booked
  <2> QED
    BY <2>1, <2>2 DEF Traded, Booked
<1> QED
  BY <1>1, <1>2 DEF Traded

LEMMA MoveSharesKeeps ==
  ASSUME NEW p, PoolOK(p), NEW n \in Nat, n <= p.lp["user"],
         NEW c, c = MoveShares(p, "user", "pair", n)
  PROVE  /\ PoolOK(c) /\ c.b = p.b /\ c.r = p.r /\ c.cum = p.cum /\ c.last = p.last
         /\ c.supply = p.supply /\ c.kLast = p.kLast /\ c.lp["feeTo"] = p.lp["feeTo"]
<1> DEFINE lp == [h \in Holders |->
                   p.lp[h] + (IF h = "pair" THEN n ELSE 0) - (IF h = "user" THEN n ELSE 0)]
<1>1. /\ p \in Pool
      /\ p.lp["zero"] \in Nat /\ p.lp["pair"] \in Nat /\ p.lp["user"] \in Nat /\ p.lp["feeTo"] \in Nat
      /\ p.supply \in Nat /\ p.kLast \in Nat /\ p.last \in Nat
      /\ p.r \in [Sides -> Nat] /\ p.b \in [Sides -> Nat] /\ p.cum \in [Sides -> Nat]
  BY LpNat DEF PoolOK
<1>2. /\ c.r = p.r /\ c.b = p.b /\ c.supply = p.supply /\ c.lp = lp /\ c.kLast = p.kLast
      /\ c.cum = p.cum /\ c.last = p.last
      /\ c = [r |-> c.r, b |-> c.b, supply |-> c.supply, lp |-> c.lp, kLast |-> c.kLast,
              last |-> c.last, cum |-> c.cum]
  <2>1. c = [p EXCEPT !.lp = lp]
    BY DEF MoveShares
  <2> HIDE DEF lp
  <2> QED
    BY <1>1, <2>1 DEF Pool
<1>3. /\ lp["zero"] = p.lp["zero"] /\ lp["pair"] = p.lp["pair"] + n
      /\ lp["user"] = p.lp["user"] - n /\ lp["feeTo"] = p.lp["feeTo"]
  BY <1>1 DEF Holders
<1>4. lp \in [Holders -> Nat]
  <2>1. \A h \in Holders : lp[h] \in Nat
    BY <1>1, <1>3 DEF Holders
  <2> QED
    BY <2>1
<1> HIDE DEF lp
<1>5. c \in Pool
  BY <1>1, <1>2, <1>4 DEF Pool
<1>6. c.supply = c.lp["zero"] + c.lp["pair"] + c.lp["user"] + c.lp["feeTo"]
  BY <1>1, <1>2, <1>3 DEF PoolOK
<1> QED
  BY <1>2, <1>3, <1>5, <1>6 DEF PoolOK

(* skim and sync. *)
LEMMA SkimKeeps ==
  ASSUME NEW p, PoolOK(p), NEW c, c = [p EXCEPT !.b = p.r]
  PROVE  PoolOK(c) /\ c.b = c.r /\ SameBooks(p, c) /\ Fits(c)
<1>1. p \in Pool /\ p.r \in [Sides -> Nat]
  BY LpNat DEF PoolOK
<1>2. c \in Pool /\ c.b = p.r /\ SameBooks(p, c)
  BY <1>1, BalancesFacts
<1> QED
  BY <1>2, SameBooksOK DEF PoolOK, Fits, SameBooks

LEMMA SyncKeeps ==
  ASSUME NEW p, PoolOK(p), Covers(p, Nothing), NEW t \in Nat, UpdateAllowed(p, t),
         NEW c, c = Update(p, t)
  PROVE  PoolOK(c) /\ c.b = c.r /\ Fits(c) /\ Traded(p, c, t)
<1>1. p \in Pool /\ p.r \in [Sides -> Nat] /\ p.b \in [Sides -> Nat] /\ K(p.r) \in Nat /\ K(p.b) \in Nat
      /\ p.supply \in Nat /\ p.kLast \in Nat /\ \A s \in Sides : p.r[s] <= p.b[s]
  <2>1. p \in Pool
    BY DEF PoolOK
  <2> QED
    BY <2>1, LpNat, KNat, CoversAll
<1>2. /\ c \in Pool /\ c.r = p.b /\ c.b = p.b
      /\ c.supply = p.supply /\ c.lp = p.lp /\ c.kLast = p.kLast
      /\ c.cum = Accrued(p, t) /\ c.last = Stamp(t) /\ Stamp(t) >= p.last
      /\ Fits(c)
  BY <1>1, UpdateFacts
<1>3. K(p.r) <= K(p.b)
  BY <1>1, KMonotone
<1>4. Funded(p.r) => Funded(p.b)
  BY <1>1, <1>3, KNat
<1>5. p.kLast <= K(p.r) /\ p.kLast <= K(p.b)
  BY <1>1, <1>3 DEF PoolOK
<1>6. PoolOK(c)
  BY <1>2, <1>4, <1>5 DEF PoolOK, Fits
<1> QED
  BY <1>2, <1>3, <1>6 DEF Booked, Traded

(* A pool nothing was paid into, or after its first mint. *)
LEMMA AtFirstOK ==
  ASSUME NEW p \in Pool, AtFirst(p)
  PROVE  /\ PoolOK(p) /\ p.b = p.r /\ Fits(p)
         /\ p.last = 0 /\ p.cum = [s \in Sides |-> 0]
<1>1. /\ PoolOK(EmptyPool) /\ EmptyPool.b = EmptyPool.r /\ EmptyPool.last = 0
      /\ EmptyPool.cum = [s \in Sides |-> 0] /\ Fits(EmptyPool)
  <2>1. EmptyPool \in Pool
    BY DEF EmptyPool, Pool
  <2>2. /\ EmptyPool.supply = 0 /\ EmptyPool.kLast = 0 /\ EmptyPool.last = 0
        /\ EmptyPool.lp = [h \in Holders |-> 0]
        /\ EmptyPool.r = [s \in Sides |-> 0] /\ EmptyPool.b = [s \in Sides |-> 0]
        /\ EmptyPool.cum = [s \in Sides |-> 0]
    BY DEF EmptyPool
  <2>3. K(EmptyPool.r) \in Nat
    BY <2>1, LpNat, KNat
  <2> QED
    BY <2>1, <2>2, <2>3, PairAssumption DEF PoolOK, Fits, Holders
<1>2. CASE p = EmptyPool
  BY <1>1, <1>2
<1>3. ASSUME NEW x \in 1 .. MaxReserve, NEW y \in 1 .. MaxReserve, NEW on \in BOOLEAN,
             NEW q, q = PayIn(PayIn(EmptyPool, 0, x), 1, y),
             MintAllowed(q, on, 0), p = Minted(q, on, 0)
      PROVE  /\ PoolOK(p) /\ p.b = p.r /\ Fits(p)
             /\ p.last = 0 /\ p.cum = [s \in Sides |-> 0]
  <2> DEFINE m == PayIn(EmptyPool, 0, x)
  <2>1. PoolOK(m) /\ SameBooks(EmptyPool, m)
    BY <1>1, SidesFacts, PayInKeeps
  <2> HIDE DEF m
  <2>2. PoolOK(q) /\ SameBooks(m, q)
    BY <1>3, <2>1, SidesFacts, PayInKeeps DEF m
  <2>3. /\ PoolOK(p) /\ p.r = q.b /\ p.b = q.b /\ Fits(p)
        /\ Booked(q, p, 0)
    BY <1>3, <2>2, MintKeeps
  <2>4. q.last = 0 /\ q.cum = [s \in Sides |-> 0]
    BY <1>1, <2>1, <2>2 DEF SameBooks
  <2>5. Stamp(0) = 0
    BY PairAssumption DEF Stamp
  <2>6. Accrued(q, 0) = q.cum
    BY <2>4, <2>5 DEF Accrued
  <2> QED
    BY <2>3, <2>4, <2>5, <2>6 DEF Booked
<1> QED
  BY <1>2, <1>3 DEF AtFirst

-----------------------------------------------------------------------------
(***************************************************************************)
(* Worlds and paths.                                                       *)
(***************************************************************************)

(* ahead says what each pool has sent and was not yet paid for. *)
WorldOK(w, ahead) ==
    /\ w \in [Pools -> Pool]
    /\ \A p \in Pools : PoolOK(w[p]) /\ Covers(w[p], ahead[p])

Idle(ahead, p) == p \in Pools /\ ahead[p] = Nothing

(* From w to v by trades at t; the pools of X may hold more than they can  *)
(* note, and one that is waiting to be paid keeps its reserves.            *)
Trades(w, v, ahead, t, X) ==
    /\ WorldOK(v, ahead)
    /\ \A p \in Pools : Traded(w[p], v[p], t)
    /\ \A p \in Pools : p \in X \/ Fits(v[p])
    /\ \A p \in Pools : ahead[p] = Nothing \/ v[p].r = w[p].r

LEMMA CoversMore ==
  ASSUME NEW p, PoolOK(p), NEW c, PoolOK(c), c.r = p.r, \A s \in Sides : p.b[s] <= c.b[s],
         NEW ahead \in [Sides -> Nat], Covers(p, ahead)
  PROVE  Covers(c, ahead)
<1>1. \A s \in Sides : p.b[s] \in Nat /\ c.b[s] \in Nat /\ p.r[s] \in Nat /\ ahead[s] \in Nat
  BY LpNat DEF PoolOK
<1> QED
  BY <1>1 DEF Covers

LEMMA CoversItself ==
  ASSUME NEW c, PoolOK(c), c.b = c.r, NEW ahead \in [Sides -> Nat]
  PROVE  Covers(c, ahead)
<1>1. \A s \in Sides : c.r[s] \in Nat /\ ahead[s] \in Nat
  BY LpNat DEF PoolOK
<1> QED
  BY <1>1 DEF Covers

LEMMA NothingType == Nothing \in [Sides -> Nat]
BY DEF Nothing

(* One pool trades, the others wait. *)
LEMMA TradeOne ==
  ASSUME NEW ahead \in [Pools -> [Sides -> Nat]], NEW w, WorldOK(w, ahead),
         NEW t, NEW X, \A p \in Pools : p \in X \/ Fits(w[p]),
         NEW q \in Pools, NEW c, PoolOK(c), Covers(c, ahead[q]), Traded(w[q], c, t),
         ahead[q] = Nothing \/ c.r = w[q].r,
         NEW v, v = [w EXCEPT ![q] = c], NEW Y, X \subseteq Y \cup {q}, q \in Y \/ Fits(c)
  PROVE  Trades(w, v, ahead, t, Y)
<1>1. w \in [Pools -> Pool] /\ c \in Pool
  BY DEF WorldOK, PoolOK
<1>2. v \in [Pools -> Pool] /\ v[q] = c /\ \A p \in Pools : p # q => v[p] = w[p]
  BY <1>1
<1>3. WorldOK(v, ahead)
  BY <1>2 DEF WorldOK
<1>4. ASSUME NEW p \in Pools PROVE Traded(w[p], v[p], t)
  <2>1. CASE p = q
    BY <1>2, <2>1
  <2>2. CASE p # q
    BY <1>1, <1>2, <2>2, TradedSame DEF SameBooks
  <2> QED
    BY <2>1, <2>2
<1>5. \A p \in Pools : p \in Y \/ Fits(v[p])
  BY <1>2
<1> QED
  BY <1>3, <1>4, <1>5 DEF Trades

LEMMA TradesTwice ==
  ASSUME NEW ahead, NEW t \in Nat, NEW w \in [Pools -> Pool], NEW u, NEW v, NEW X, NEW Y,
         Trades(w, u, ahead, t, X), Trades(u, v, ahead, t, Y)
  PROVE  Trades(w, v, ahead, t, Y)
<1>1. u \in [Pools -> Pool] /\ v \in [Pools -> Pool]
  BY DEF Trades, WorldOK
<1>2. \A p \in Pools : Traded(w[p], v[p], t)
  <2> SUFFICES ASSUME NEW p \in Pools PROVE Traded(w[p], v[p], t)
    OBVIOUS
  <2>1. w[p] \in Pool /\ u[p] \in Pool /\ v[p] \in Pool
    BY <1>1
  <2> QED
    BY <2>1, TradedTwice DEF Trades
<1> QED
  BY <1>2 DEF Trades

(* A pool is paid. *)
LEMMA PayTrades ==
  ASSUME NEW ahead \in [Pools -> [Sides -> Nat]], NEW w, WorldOK(w, ahead),
         NEW t, NEW X, \A p \in Pools : p \in X \/ Fits(w[p]),
         NEW q \in Pools, NEW s \in Sides, NEW n \in Nat,
         NEW v, v = [w EXCEPT ![q] = PayIn(@, s, n)], NEW Y, X \cup {q} \subseteq Y
  PROVE  Trades(w, v, ahead, t, Y)
<1> DEFINE c == PayIn(w[q], s, n)
<1>1. PoolOK(w[q]) /\ Covers(w[q], ahead[q]) /\ w[q] \in Pool /\ ahead[q] \in [Sides -> Nat]
  BY DEF WorldOK
<1>2. PoolOK(c) /\ SameBooks(w[q], c) /\ \A x \in Sides : w[q].b[x] <= c.b[x]
  BY <1>1, PayInKeeps
<1> HIDE DEF c
<1>3. Covers(c, ahead[q]) /\ Traded(w[q], c, t)
  BY <1>1, <1>2, CoversMore, TradedSame DEF SameBooks
<1>4. v = [w EXCEPT ![q] = c] /\ c.r = w[q].r
  BY <1>2 DEF c, WorldOK, SameBooks
<1> QED
  BY <1>2, <1>3, <1>4, TradeOne

(* A pool swaps. *)
LEMMA SwapTrades ==
  ASSUME NEW ahead \in [Pools -> [Sides -> Nat]], NEW w, WorldOK(w, ahead),
         NEW t \in Nat, NEW X, \A p \in Pools : p \in X \/ Fits(w[p]),
         NEW q, Idle(ahead, q), NEW out \in [Sides -> Nat], SwapAllowed(w[q], out, t),
         NEW v, v = [w EXCEPT ![q] = Swapped(@, out, t)], NEW Y, X \subseteq Y \cup {q}
  PROVE  Trades(w, v, ahead, t, Y)
<1> DEFINE c == Swapped(w[q], out, t)
<1>1. /\ PoolOK(w[q]) /\ Covers(w[q], Nothing) /\ w[q] \in Pool /\ q \in Pools
      /\ ahead[q] \in [Sides -> Nat]
  BY DEF WorldOK, Idle
<1>2. PoolOK(c) /\ c.b = c.r /\ Fits(c) /\ Traded(w[q], c, t)
  BY <1>1, SwapKeeps
<1> HIDE DEF c
<1>3. Covers(c, ahead[q])
  BY <1>1, <1>2, CoversItself
<1>4. v = [w EXCEPT ![q] = c]
  BY DEF c, WorldOK
<1>5. ahead[q] = Nothing
  BY DEF Idle
<1> QED
  BY <1>1, <1>2, <1>3, <1>4, <1>5, TradeOne

-----------------------------------------------------------------------------
(* The pools of a path are there and none of them is in a callback. *)
Walkable(path, ahead) ==
    /\ Len(path) \in Nat
    /\ \A i \in Hops(path) : PoolOf(path, i) \in RouterPools /\ Idle(ahead, PoolOf(path, i))

NextPool(path, i) == IF i + 1 \in Hops(path) THEN {PoolOf(path, i + 1)} ELSE {}

LEMMA OutType ==
  ASSUME NEW s, NEW n \in Nat
  PROVE  Out(s, n) \in [Sides -> Nat]
BY DEF Out

LEMMA InSide ==
  ASSUME NEW path, NEW i
  PROVE  In(path, i) \in Sides /\ Other(In(path, i)) \in Sides
BY SidesFacts DEF In, SideOf, Sides

LEMMA HopTrades ==
  ASSUME NEW ahead \in [Pools -> [Sides -> Nat]], NEW w, WorldOK(w, ahead),
         NEW path, Walkable(path, ahead), NEW i \in Hops(path), NEW t \in Nat,
         \A p \in Pools : p \in {PoolOf(path, i)} \/ Fits(w[p]),
         NEW out \in Nat, HopAllowed(w, path, i, out, t),
         NEW v, v = Hop(w, path, i, out, t)
  PROVE  Trades(w, v, ahead, t, NextPool(path, i))
<1> DEFINE q == PoolOf(path, i)
           o == Out(Other(In(path, i)), out)
           u == [w EXCEPT ![q] = Swapped(@, o, t)]
<1>1. Idle(ahead, q) /\ o \in [Sides -> Nat] /\ SwapAllowed(w[q], o, t)
  BY OutType, InSide DEF Walkable, HopAllowed
<1>2. v = IF i + 1 \in Hops(path)
          THEN [u EXCEPT ![PoolOf(path, i + 1)] = PayIn(@, In(path, i + 1), out)] ELSE u
  BY DEF Hop
<1>3. Trades(w, u, ahead, t, {})
  <2> HIDE DEF q, o
  <2> QED BY <1>1, SwapTrades DEF q
<1> HIDE DEF u
<1>4. CASE i + 1 \notin Hops(path)
  BY <1>2, <1>3, <1>4 DEF NextPool
<1>5. CASE i + 1 \in Hops(path)
  <2> DEFINE r == PoolOf(path, i + 1)
  <2>1. r \in Pools /\ In(path, i + 1) \in Sides /\ v = [u EXCEPT ![r] = PayIn(@, In(path, i + 1), out)]
    BY <1>2, <1>5, InSide DEF Walkable, Idle
  <2>2. NextPool(path, i) = {r}
    BY <1>5 DEF NextPool
  <2> HIDE DEF r
  <2>3. Trades(u, v, ahead, t, {r})
    <3>1. WorldOK(u, ahead) /\ \A p \in Pools : p \in {} \/ Fits(u[p])
      BY <1>3 DEF Trades
    <3>2. {} \cup {r} \subseteq {r}
      OBVIOUS
    <3> QED
      BY <2>1, <3>1, <3>2, PayTrades
  <2> QED
    BY <1>3, <2>2, <2>3, TradesTwice DEF WorldOK
<1> QED
  BY <1>4, <1>5

(* The worlds of a quoted path follow one another.  (The functions are     *)
(* defined by recursion; that they exist is shown for ever longer parts of *)
(* the path.)                                                              *)
LEMMA SwapAlongDef ==
  ASSUME NEW w, NEW amounts, NEW path, Len(path) \in Nat, NEW t,
         NEW f, f = SwapAlong(w, amounts, path, t)
  PROVE  /\ f[0] = w
         /\ \A i \in Hops(path) : f[i] = Hop(f[i - 1], path, i, amounts[i + 1], t)
<1> DEFINE N == Len(path) - 1
           D(k) == {0} \cup (1 .. k)
           Chain(k, g) == g = [i \in D(k) |-> IF i = 0 THEN w
                                              ELSE Hop(g[i - 1], path, i, amounts[i + 1], t)]
           S == {k \in Nat : ~ \E g : Chain(k, g)}
<1>1. S = {}
  <2> SUFFICES ASSUME S # {} PROVE FALSE
    OBVIOUS
  <2>1. PICK m \in S : \A k \in S : m <= k
    BY LeastExists
  <2>2. CASE m = 0
    <3> DEFINE g == [i \in {0} |-> w]
    <3>1. Chain(0, g)
      OBVIOUS
    <3> QED
      BY <2>1, <2>2, <3>1
  <2>3. CASE m # 0
    <3>1. m - 1 \in Nat /\ m - 1 \notin S
      <4>1. m \in Nat
        OBVIOUS
      <4> HIDE DEF S
      <4> QED
        BY <2>1, <2>3, <4>1
    <3>2. PICK g : Chain(m - 1, g)
      BY <3>1
    <3> DEFINE h == [i \in D(m) |-> IF i = m THEN Hop(g[m - 1], path, m, amounts[m + 1], t) ELSE g[i]]
    <3>3. ASSUME NEW i \in D(m)
          PROVE  h[i] = IF i = 0 THEN w ELSE Hop(h[i - 1], path, i, amounts[i + 1], t)
      <4>1. CASE i = m
        <5>1. m - 1 \in D(m) /\ m - 1 # m
          BY <2>1, <2>3
        <5>2. h[m - 1] = g[m - 1]
          BY <5>1
        <5> QED
          BY <2>3, <4>1, <5>2
      <4>2. CASE i # m
        <5>1. i \in D(m - 1) /\ h[i] = g[i]
          BY <2>1, <4>2
        <5>2. g[i] = IF i = 0 THEN w ELSE Hop(g[i - 1], path, i, amounts[i + 1], t)
          BY <3>2, <5>1
        <5>3. i # 0 => i - 1 \in D(m) /\ i - 1 # m
          BY <2>1, <4>2
        <5>4. i # 0 => h[i - 1] = g[i - 1]
          BY <5>3
        <5> QED
          BY <5>1, <5>2, <5>4
      <4> QED
        BY <4>1, <4>2
    <3> HIDE DEF h
    <3>4. Chain(m, h)
      BY <3>3 DEF h
    <3> QED
      BY <2>1, <3>4
  <2> QED
    BY <2>2, <2>3
<1>2. \E g : g = [i \in {0} \cup Hops(path) |-> IF i = 0 THEN w
                                 ELSE Hop(g[i - 1], path, i, amounts[i + 1], t)]
  <2>1. CASE N \in Nat
    <3>1. N \notin S
      BY <1>1
    <3>2. D(N) = {0} \cup Hops(path)
      BY DEF Hops
    <3> QED
      BY <2>1, <3>1, <3>2
  <2>2. CASE N \notin Nat
    <3>1. 0 \notin S
      BY <1>1
    <3>2. D(0) = {0} \cup Hops(path)
      BY <2>2 DEF Hops
    <3> QED
      BY <3>1, <3>2
  <2> QED
    BY <2>1, <2>2
<1>3. f = [i \in {0} \cup Hops(path) |-> IF i = 0 THEN w
                     ELSE Hop(f[i - 1], path, i, amounts[i + 1], t)]
  BY <1>2 DEF SwapAlong
<1>4. \A i \in Hops(path) : i # 0
  BY DEF Hops
<1> QED
  BY <1>3, <1>4

LEMMA SwapSupportingDef ==
  ASSUME NEW w, NEW path, Len(path) \in Nat, NEW t,
         NEW f, f = SwapSupporting(w, path, t)
  PROVE  /\ f[0] = w
         /\ \A i \in Hops(path) : f[i] = Hop(f[i - 1], path, i, SupportingOut(f[i - 1], path, i), t)
<1> DEFINE N == Len(path) - 1
           D(k) == {0} \cup (1 .. k)
           Chain(k, g) == g = [i \in D(k) |-> IF i = 0 THEN w
                                              ELSE Hop(g[i - 1], path, i, SupportingOut(g[i - 1], path, i), t)]
           S == {k \in Nat : ~ \E g : Chain(k, g)}
<1>1. S = {}
  <2> SUFFICES ASSUME S # {} PROVE FALSE
    OBVIOUS
  <2>1. PICK m \in S : \A k \in S : m <= k
    BY LeastExists
  <2>2. CASE m = 0
    <3> DEFINE g == [i \in {0} |-> w]
    <3>1. Chain(0, g)
      OBVIOUS
    <3> QED
      BY <2>1, <2>2, <3>1
  <2>3. CASE m # 0
    <3>1. m - 1 \in Nat /\ m - 1 \notin S
      <4>1. m \in Nat
        OBVIOUS
      <4> HIDE DEF S
      <4> QED
        BY <2>1, <2>3, <4>1
    <3>2. PICK g : Chain(m - 1, g)
      BY <3>1
    <3> DEFINE h == [i \in D(m) |-> IF i = m THEN Hop(g[m - 1], path, m, SupportingOut(g[m - 1], path, m), t) ELSE g[i]]
    <3>3. ASSUME NEW i \in D(m)
          PROVE  h[i] = IF i = 0 THEN w ELSE Hop(h[i - 1], path, i, SupportingOut(h[i - 1], path, i), t)
      <4>1. CASE i = m
        <5>1. m - 1 \in D(m) /\ m - 1 # m
          BY <2>1, <2>3
        <5>2. h[m - 1] = g[m - 1]
          BY <5>1
        <5> QED
          BY <2>3, <4>1, <5>2
      <4>2. CASE i # m
        <5>1. i \in D(m - 1) /\ h[i] = g[i]
          BY <2>1, <4>2
        <5>2. g[i] = IF i = 0 THEN w ELSE Hop(g[i - 1], path, i, SupportingOut(g[i - 1], path, i), t)
          BY <3>2, <5>1
        <5>3. i # 0 => i - 1 \in D(m) /\ i - 1 # m
          BY <2>1, <4>2
        <5>4. i # 0 => h[i - 1] = g[i - 1]
          BY <5>3
        <5> QED
          BY <5>1, <5>2, <5>4
      <4> QED
        BY <4>1, <4>2
    <3> HIDE DEF h
    <3>4. Chain(m, h)
      BY <3>3 DEF h
    <3> QED
      BY <2>1, <3>4
  <2> QED
    BY <2>2, <2>3
<1>2. \E g : g = [i \in {0} \cup Hops(path) |-> IF i = 0 THEN w
                                 ELSE Hop(g[i - 1], path, i, SupportingOut(g[i - 1], path, i), t)]
  <2>1. CASE N \in Nat
    <3>1. N \notin S
      BY <1>1
    <3>2. D(N) = {0} \cup Hops(path)
      BY DEF Hops
    <3> QED
      BY <2>1, <3>1, <3>2
  <2>2. CASE N \notin Nat
    <3>1. 0 \notin S
      BY <1>1
    <3>2. D(0) = {0} \cup Hops(path)
      BY <2>2 DEF Hops
    <3> QED
      BY <3>1, <3>2
  <2> QED
    BY <2>1, <2>2
<1>3. f = [i \in {0} \cup Hops(path) |-> IF i = 0 THEN w
                     ELSE Hop(f[i - 1], path, i, SupportingOut(f[i - 1], path, i), t)]
  BY <1>2 DEF SwapSupporting
<1>4. \A i \in Hops(path) : i # 0
  BY DEF Hops
<1> QED
  BY <1>3, <1>4

(* The amounts at the tokens of a path follow from one another. *)
LEMMA AmountsOutDef ==
  ASSUME NEW w, NEW n, NEW path, Len(path) \in Nat, Len(path) > 0,
         NEW f, f = getAmountsOut(w, n, path)
  PROVE  /\ DOMAIN f = 1 .. Len(path) /\ f[1] = n
         /\ \A i \in Hops(path) :
                f[i + 1] = getAmountOut(f[i], ReserveIn(w, path, i), ReserveOut(w, path, i))
<1> DEFINE N == Len(path)
           Follow(x, i) == getAmountOut(x, ReserveIn(w, path, i), ReserveOut(w, path, i))
           Chain(k, g) == g = [i \in 1 .. k |-> IF i = 1 THEN n ELSE Follow(g[i - 1], i - 1)]
           S == {k \in Nat : ~ \E g : Chain(k, g)}
<1>1. S = {}
  <2> SUFFICES ASSUME S # {} PROVE FALSE
    OBVIOUS
  <2>1. PICK m \in S : \A k \in S : m <= k
    BY LeastExists
  <2>2. CASE m = 0
    <3> DEFINE g == [i \in 1 .. 0 |-> n]
    <3>1. Chain(0, g)
      OBVIOUS
    <3> QED
      BY <2>1, <2>2, <3>1
  <2>3. CASE m # 0
    <3>1. m - 1 \in Nat /\ m - 1 \notin S
      <4>1. m \in Nat
        OBVIOUS
      <4> HIDE DEF S
      <4> QED
        BY <2>1, <2>3, <4>1
    <3>2. PICK g : Chain(m - 1, g)
      BY <3>1
    <3> DEFINE h == [i \in 1 .. m |-> IF i = 1 THEN n
                                     ELSE IF i = m THEN Follow(g[m - 1], m - 1) ELSE g[i]]
    <3> HIDE DEF Follow
    <3>3. ASSUME NEW i \in 1 .. m
          PROVE  h[i] = IF i = 1 THEN n ELSE Follow(h[i - 1], i - 1)
      <4>1. CASE i = 1
        BY <4>1
      <4>2. ASSUME NEW j \in 1 .. m - 1 PROVE h[j] = g[j]
        <5>1. g[j] = IF j = 1 THEN n ELSE Follow(g[j - 1], j - 1)
          BY <3>2
        <5>2. j \in 1 .. m /\ j # m
          BY <2>1
        <5> QED
          BY <5>1, <5>2
      <4>3. CASE i # 1
        <5>1. i - 1 \in 1 .. m - 1
          BY <2>1, <4>3
        <5>2. h[i - 1] = g[i - 1]
          BY <4>2, <5>1
        <5>3. CASE i = m
          BY <4>3, <5>2, <5>3
        <5>4. CASE i # m
          <6>1. i \in 1 .. m - 1
            BY <2>1, <5>4
          <6> HIDE DEF h
          <6> QED
            BY <3>2, <4>2, <4>3, <5>2, <6>1
        <5> QED
          BY <5>3, <5>4
      <4> QED
        BY <4>1, <4>3
    <3>4. Chain(m, h)
      <4>1. h = [i \in 1 .. m |-> h[i]]
        OBVIOUS
      <4> HIDE DEF h
      <4> QED
        BY <3>3, <4>1
    <3> QED
      BY <2>1, <3>4
  <2> QED
    BY <2>2, <2>3
<1>2. \E g : Chain(N, g)
  BY <1>1
<1>3. Chain(N, f)
  BY <1>2 DEF getAmountsOut
<1>4. \A i \in Hops(path) : i + 1 \in 1 .. N /\ i + 1 # 1 /\ (i + 1) - 1 = i
  BY DEF Hops
<1> HIDE DEF Follow, Chain
<1>5. f = [i \in 1 .. N |-> IF i = 1 THEN n ELSE Follow(f[i - 1], i - 1)]
  BY <1>3 DEF Chain
<1>6. DOMAIN f = 1 .. Len(path) /\ f[1] = n
  BY <1>5
<1>7. \A i \in Hops(path) : f[i + 1] = Follow(f[i], i)
  BY <1>4, <1>5
<1> QED
  BY <1>6, <1>7 DEF Follow

LEMMA AmountsInDef ==
  ASSUME NEW w, NEW n, NEW path, Len(path) \in Nat, Len(path) > 0,
         NEW f, f = getAmountsIn(w, n, path)
  PROVE  /\ DOMAIN f = 1 .. Len(path) /\ f[Len(path)] = n
         /\ \A i \in Hops(path) :
                f[i] = IF f[i + 1] < ReserveOut(w, path, i)
                       THEN getAmountIn(f[i + 1], ReserveIn(w, path, i), ReserveOut(w, path, i))
                       ELSE 0
<1> DEFINE N == Len(path)
           Precede(x, i) == IF x < ReserveOut(w, path, i)
                            THEN getAmountIn(x, ReserveIn(w, path, i), ReserveOut(w, path, i))
                            ELSE 0
           D(k) == N - k .. N
           Chain(k, g) == g = [i \in D(k) |-> IF i = N THEN n ELSE Precede(g[i + 1], i)]
           S == {k \in Nat : ~ \E g : Chain(k, g)}
<1>1. S = {}
  <2> SUFFICES ASSUME S # {} PROVE FALSE
    OBVIOUS
  <2>1. PICK m \in S : \A k \in S : m <= k
    BY LeastExists
  <2>2. CASE m = 0
    <3> DEFINE g == [i \in D(0) |-> n]
    <3>1. \A i \in D(0) : i = N
      OBVIOUS
    <3>2. Chain(0, g)
      BY <3>1
    <3> QED
      BY <2>1, <2>2, <3>2
  <2>3. CASE m # 0
    <3>1. m - 1 \in Nat /\ m - 1 \notin S
      <4>1. m \in Nat
        OBVIOUS
      <4> HIDE DEF S
      <4> QED
        BY <2>1, <2>3, <4>1
    <3>2. PICK g : Chain(m - 1, g)
      BY <3>1
    <3> DEFINE h == [i \in D(m) |-> IF i = N - m THEN Precede(g[i + 1], i) ELSE g[i]]
    <3> HIDE DEF Precede
    <3>3. ASSUME NEW i \in D(m)
          PROVE  h[i] = IF i = N THEN n ELSE Precede(h[i + 1], i)
      <4>1. ASSUME NEW j \in D(m - 1)
            PROVE  j \in D(m) /\ h[j] = g[j] /\ g[j] = IF j = N THEN n ELSE Precede(g[j + 1], j)
        <5>1. j \in D(m) /\ j # N - m
          BY <2>1
        <5>2. g[j] = IF j = N THEN n ELSE Precede(g[j + 1], j)
          BY <3>2
        <5> QED
          BY <5>1, <5>2
      <4>2. i # N => i + 1 \in D(m - 1)
        BY <2>1
      <4>3. i # N => h[i + 1] = g[i + 1]
        BY <4>1, <4>2
      <4>4. CASE i = N - m
        <5>1. i # N
          BY <2>1, <2>3, <4>4
        <5> QED
          BY <4>3, <4>4, <5>1
      <4>5. CASE i # N - m
        <5>1. i \in D(m - 1)
          BY <2>1, <4>5
        <5> HIDE DEF h
        <5> QED
          BY <4>1, <4>3, <5>1
      <4> QED
        BY <4>4, <4>5
    <3>4. Chain(m, h)
      <4>1. h = [i \in D(m) |-> h[i]]
        OBVIOUS
      <4> HIDE DEF h
      <4> QED
        BY <3>3, <4>1
    <3> QED
      BY <2>1, <3>4
  <2> QED
    BY <2>2, <2>3
<1>2. \E g : Chain(N - 1, g)
  <2>1. N - 1 \in Nat /\ N - 1 \notin S
    BY <1>1
  <2> QED
    BY <2>1
<1>3. Chain(N - 1, f)
  <2>1. D(N - 1) = 1 .. Len(path)
    OBVIOUS
  <2> QED
    BY <1>2, <2>1 DEF getAmountsIn
<1>4. \A i \in Hops(path) : i \in 1 .. N /\ i # N
  BY DEF Hops
<1> HIDE DEF Precede
<1>5. f = [i \in 1 .. N |-> IF i = N THEN n ELSE Precede(f[i + 1], i)]
  <2>1. D(N - 1) = 1 .. N
    OBVIOUS
  <2> QED
    BY <1>3, <2>1
<1>6. DOMAIN f = 1 .. Len(path) /\ f[Len(path)] = n
  BY <1>5
<1>7. \A i \in Hops(path) : f[i] = Precede(f[i + 1], i)
  BY <1>4, <1>5
<1> QED
  BY <1>6, <1>7 DEF Precede

-----------------------------------------------------------------------------
(* The pricing of UniswapV2Library. *)
(* What the library's quotes promise: n in for x out leave the product,    *)
(* less the fee, no smaller.                                               *)
Enough(rI, rO, n, x) == x * (rI * 1000 + n * 997) <= n * 997 * rO

LEMMA AmountOutFacts ==
  ASSUME NEW n \in Nat, NEW rI \in Nat, NEW rO \in Nat, rI > 0 \/ n > 0,
         NEW out, out = getAmountOut(n, rI, rO)
  PROVE  /\ out \in Nat
         /\ rI > 0 /\ rO > 0 => out < rO
<1> DEFINE d == rI * 1000 + n * 997
           y == n * 997 * rO
<1>1. d \in Nat /\ d > 0 /\ y \in Nat
  OBVIOUS
<1>2. out = y \div d
  BY DEF getAmountOut
<1>3. out \in Nat /\ \A x \in Nat : x <= out <=> x * d <= y
  <2> HIDE DEF d, y
  <2> QED BY <1>1, <1>2, Floor
<1>4. ASSUME rI > 0, rO > 0 PROVE out < rO
  <2> SUFFICES ASSUME rO <= out PROVE FALSE
    BY <1>3
  <2>1. rO * d <= y
    BY <1>3
  <2>2. rO * d = rO * (rI * 1000) + y
    OBVIOUS
  <2>3. rO * (rI * 1000) >= 1
    <3>1. 1 * 1 <= rO * (rI * 1000)
      BY <1>4, TimesBoth
    <3> QED
      BY <3>1
  <2> HIDE DEF d, y
  <2> QED
    BY <1>1, <2>1, <2>2, <2>3
<1> QED
  BY <1>3, <1>4

LEMMA OutIsLess ==
  ASSUME NEW n \in Nat, NEW rI \in Nat, NEW rO \in Nat, rI > 0, rO > 0
  PROVE  getAmountOut(n, rI, rO) \in Nat /\ getAmountOut(n, rI, rO) < rO
BY AmountOutFacts

LEMMA MostIsOut ==
  ASSUME NEW n \in Nat, NEW rI \in Nat, NEW rO \in Nat, rI > 0, NEW x \in Nat
  PROVE  x <= getAmountOut(n, rI, rO) <=> Enough(rI, rO, n, x)
<1> DEFINE d == rI * 1000 + n * 997
           y == n * 997 * rO
<1>1. d \in Nat /\ d > 0 /\ y \in Nat
  OBVIOUS
<1>2. x <= y \div d <=> x * d <= y
  <2> HIDE DEF d, y
  <2> QED
    BY <1>1, Floor
<1> QED
  BY <1>2 DEF getAmountOut, Enough

LEMMA AmountInFacts ==
  ASSUME NEW n \in Nat, NEW rI \in Nat, NEW rO \in Nat, n < rO,
         NEW in, in = getAmountIn(n, rI, rO)
  PROVE  /\ in \in Nat /\ in > 0
         /\ rI * n * 1000 < in * ((rO - n) * 997)
         /\ (in - 1) * ((rO - n) * 997) <= rI * n * 1000
<1> DEFINE d == (rO - n) * 997
           y == rI * n * 1000
           q == y \div d
<1>1. d \in Nat /\ d > 0 /\ y \in Nat
  OBVIOUS
<1>2. in = q + 1
  BY DEF getAmountIn
<1> HIDE DEF d, y
<1>3. q \in Nat /\ q * d <= y /\ y < q * d + d
  BY <1>1, Floor
<1> HIDE DEF q
<1>4. (q + 1) * d = q * d + d /\ in - 1 = q
  BY <1>1, <1>2, <1>3
<1> QED
  BY <1>2, <1>3, <1>4 DEF d, y

LEMMA AmountsNat ==
  ASSUME NEW n \in Nat, NEW rI \in Nat, NEW rO \in Nat
  PROVE  /\ rI > 0 \/ n > 0 => getAmountOut(n, rI, rO) \in Nat
         /\ n < rO => getAmountIn(n, rI, rO) \in Nat /\ getAmountIn(n, rI, rO) > 0
BY AmountOutFacts, AmountInFacts

LEMMA ReservesOfPath ==
  ASSUME NEW w \in [Pools -> Pool], NEW path, NEW i, PoolOf(path, i) \in Pools
  PROVE  /\ ReserveIn(w, path, i) \in Nat /\ ReserveOut(w, path, i) \in Nat
         /\ Funded(w[PoolOf(path, i)].r) =>
                ReserveIn(w, path, i) > 0 /\ ReserveOut(w, path, i) > 0
<1>1. w[PoolOf(path, i)] \in Pool
  OBVIOUS
<1>2. w[PoolOf(path, i)].r \in [Sides -> Nat]
  BY <1>1, LpNat
<1> QED
  BY <1>2, InSide DEF ReserveIn, ReserveOut, Funded

(* The amounts of a path through funded pools are numbers. *)
LEMMA AmountsOutNat ==
  ASSUME NEW w \in [Pools -> Pool], NEW path, Len(path) \in Nat, Len(path) > 0,
         \A i \in Hops(path) : PoolOf(path, i) \in Pools,
         AllFunded(w, path), NEW n \in Nat, NEW f, f = getAmountsOut(w, n, path)
  PROVE  \A i \in 1 .. Len(path) : f[i] \in Nat
<1> DEFINE S == {i \in 1 .. Len(path) : f[i] \notin Nat}
<1>1. /\ f[1] = n
      /\ \A i \in Hops(path) :
            f[i + 1] = getAmountOut(f[i], ReserveIn(w, path, i), ReserveOut(w, path, i))
  BY AmountsOutDef
<1> SUFFICES ASSUME S # {} PROVE FALSE
  OBVIOUS
<1>2. PICK m \in S : \A i \in S : m <= i
  <2>1. S \in SUBSET Nat
    OBVIOUS
  <2> HIDE DEF S
  <2> QED
    BY <2>1, LeastExists
<1>3. m # 1
  BY <1>1
<1>4. m - 1 \in 1 .. Len(path) /\ m - 1 \in Hops(path) /\ (m - 1) + 1 = m /\ m - 1 < m
  BY <1>3 DEF Hops
<1>5. f[m - 1] \in Nat
  BY <1>2, <1>4
<1>6. ReserveIn(w, path, m - 1) \in Nat /\ ReserveIn(w, path, m - 1) > 0
      /\ ReserveOut(w, path, m - 1) \in Nat
  BY <1>4, ReservesOfPath DEF AllFunded
<1>8. getAmountOut(f[m - 1], ReserveIn(w, path, m - 1), ReserveOut(w, path, m - 1)) \in Nat
  BY <1>5, <1>6, AmountsNat
<1>9. f[m] \in Nat
  BY <1>1, <1>4, <1>8
<1> QED
  BY <1>9

LEMMA AmountsInNat ==
  ASSUME NEW w \in [Pools -> Pool], NEW path, Len(path) \in Nat, Len(path) > 0,
         \A i \in Hops(path) : PoolOf(path, i) \in Pools,
         NEW n \in Nat, NEW f, f = getAmountsIn(w, n, path)
  PROVE  \A i \in 1 .. Len(path) : f[i] \in Nat
<1> DEFINE N == Len(path)
           S == {k \in Nat : k < N /\ f[N - k] \notin Nat}
<1>1. /\ f[N] = n
      /\ \A i \in Hops(path) :
            f[i] = IF f[i + 1] < ReserveOut(w, path, i)
                   THEN getAmountIn(f[i + 1], ReserveIn(w, path, i), ReserveOut(w, path, i))
                   ELSE 0
  BY AmountsInDef
<1>2. S = {}
  <2> SUFFICES ASSUME S # {} PROVE FALSE
    OBVIOUS
  <2>1. PICK m \in S : \A i \in S : m <= i
    BY LeastExists
  <2>2. m # 0
    BY <1>1
  <2> DEFINE i == N - m
  <2>3. m - 1 \in Nat /\ m - 1 < N /\ m - 1 < m /\ i \in Hops(path) /\ i + 1 = N - (m - 1) /\ f[i] \notin Nat
    BY <2>2 DEF Hops
  <2>4. f[i + 1] \in Nat
    BY <2>1, <2>3
  <2>5. ReserveIn(w, path, i) \in Nat /\ ReserveOut(w, path, i) \in Nat
    BY <2>3, ReservesOfPath
  <2> HIDE DEF i
  <2>6. f[i + 1] < ReserveOut(w, path, i) =>
          getAmountIn(f[i + 1], ReserveIn(w, path, i), ReserveOut(w, path, i)) \in Nat
    BY <2>4, <2>5, AmountsNat
  <2> QED
    BY <1>1, <2>3, <2>6
<1> SUFFICES ASSUME NEW i \in 1 .. N PROVE f[i] \in Nat
  OBVIOUS
<1>3. N - i \in Nat /\ N - i < N /\ N - (N - i) = i
  OBVIOUS
<1> QED
  BY <1>2, <1>3

(* Hop by hop to the end of a path. *)
LEMMA PathTrades ==
  ASSUME NEW ahead \in [Pools -> [Sides -> Nat]], NEW w, WorldOK(w, ahead),
         NEW path, Walkable(path, ahead), Len(path) >= 2, NEW t \in Nat,
         \A p \in Pools : p \in {PoolOf(path, 1)} \/ Fits(w[p]),
         NEW f, f[0] = w,
         \A i \in Hops(path) : WorldOK(f[i - 1], ahead) =>
            \E out \in Nat : /\ f[i] = Hop(f[i - 1], path, i, out, t)
                             /\ HopAllowed(f[i - 1], path, i, out, t)
  PROVE  Trades(w, f[LastWorld(path)], ahead, t, {})
<1> DEFINE N == Len(path) - 1
           S == {k \in 1 .. N : ~ Trades(w, f[k], ahead, t, NextPool(path, k))}
<1>0. Len(path) \in Nat /\ N \in Nat /\ N >= 1 /\ Hops(path) = 1 .. N
  BY DEF Walkable, Hops
<1>1. S = {}
  <2> SUFFICES ASSUME S # {} PROVE FALSE
    OBVIOUS
  <2>1. PICK m \in S : \A k \in S : m <= k
    <3>1. S \in SUBSET Nat
      BY <1>0
    <3> HIDE DEF S
    <3> QED
      BY <3>1, LeastExists
  <2>2. m \in Hops(path) /\ m \in Nat
    BY <1>0
  <2>3. CASE m = 1
    <3>1. PICK out \in Nat : f[1] = Hop(w, path, 1, out, t) /\ HopAllowed(w, path, 1, out, t)
      BY <2>2, <2>3
    <3>2. Trades(w, f[1], ahead, t, NextPool(path, 1))
      BY <2>2, <2>3, <3>1, HopTrades
    <3> QED
      BY <2>3, <3>2
  <2>4. CASE m # 1
    <3>1. m - 1 \in 1 .. N /\ m - 1 < m /\ (m - 1) + 1 = m
      BY <1>0, <2>4
    <3>2. Trades(w, f[m - 1], ahead, t, NextPool(path, m - 1))
      <4> HIDE DEF N
      <4> QED
        BY <2>1, <2>2, <3>1
    <3>3. NextPool(path, m - 1) = {PoolOf(path, m)}
      BY <2>2, <3>1 DEF NextPool
    <3>4. /\ WorldOK(f[m - 1], ahead)
          /\ \A p \in Pools : p \in {PoolOf(path, m)} \/ Fits(f[m - 1][p])
      BY <3>2, <3>3 DEF Trades
    <3>5. PICK out \in Nat : /\ f[m] = Hop(f[m - 1], path, m, out, t)
                            /\ HopAllowed(f[m - 1], path, m, out, t)
      BY <2>2, <3>4
    <3>6. Trades(f[m - 1], f[m], ahead, t, NextPool(path, m))
      BY <2>2, <3>4, <3>5, HopTrades
    <3>7. Trades(w, f[m], ahead, t, NextPool(path, m))
      BY <3>2, <3>6, TradesTwice DEF WorldOK
    <3> QED
      BY <3>7
  <2> QED
    BY <2>3, <2>4
<1>2. NextPool(path, N) = {}
  BY <1>0 DEF NextPool
<1>3. N \in 1 .. N
  BY <1>0
<1> QED
  BY <1>1, <1>2, <1>3 DEF LastWorld

(* The trades of a path, quoted or not. *)
LEMMA AlongTrades ==
  ASSUME NEW ahead \in [Pools -> [Sides -> Nat]], NEW w, WorldOK(w, ahead),
         NEW path, Walkable(path, ahead), Len(path) >= 2, NEW t \in Nat,
         \A p \in Pools : Fits(w[p]),
         NEW amounts, \A i \in 1 .. Len(path) : amounts[i] \in Nat,
         NEW paid, paid = PayFirst(w, path, amounts[1]),
         SwapAlongAllowed(paid, amounts, path, t),
         NEW v, v = SwapAlong(paid, amounts, path, t)[LastWorld(path)]
  PROVE  Trades(w, v, ahead, t, {})
<1>1. Len(path) \in Nat /\ 1 \in Hops(path) /\ 1 \in 1 .. Len(path)
      /\ \A i \in Hops(path) : i + 1 \in 1 .. Len(path)
  BY DEF Walkable, Hops
<1>2. Trades(w, paid, ahead, t, {PoolOf(path, 1)})
  <2> DEFINE q == PoolOf(path, 1)
  <2>1. q \in Pools /\ In(path, 1) \in Sides /\ amounts[1] \in Nat
    BY <1>1, InSide DEF Walkable, Idle
  <2>2. paid = [w EXCEPT ![q] = PayIn(@, In(path, 1), amounts[1])]
    BY DEF PayFirst
  <2>3. {} \cup {q} \subseteq {q} /\ \A p \in Pools : p \in {} \/ Fits(w[p])
    OBVIOUS
  <2> HIDE DEF q
  <2>4. Trades(w, paid, ahead, t, {q})
    BY <2>1, <2>2, <2>3, PayTrades
  <2> QED
    BY <2>4 DEF q
<1>3. PICK f : f = SwapAlong(paid, amounts, path, t)
  OBVIOUS
<1>4. /\ f[0] = paid
      /\ \A i \in Hops(path) : f[i] = Hop(f[i - 1], path, i, amounts[i + 1], t)
  BY <1>1, <1>3, SwapAlongDef
<1>5. \A i \in Hops(path) : HopAllowed(f[i - 1], path, i, amounts[i + 1], t)
  BY <1>3 DEF SwapAlongAllowed
<1>6. Trades(paid, f[LastWorld(path)], ahead, t, {})
  BY <1>1, <1>2, <1>4, <1>5, PathTrades DEF Trades
<1> QED
  BY <1>2, <1>3, <1>6, TradesTwice DEF WorldOK

LEMMA SupportingTrades ==
  ASSUME NEW ahead \in [Pools -> [Sides -> Nat]], NEW w, WorldOK(w, ahead),
         NEW path, Walkable(path, ahead), Len(path) >= 2, NEW t \in Nat,
         \A p \in Pools : Fits(w[p]),
         NEW n \in Nat, NEW paid, paid = PayFirst(w, path, n),
         SwapSupportingAllowed(paid, path, t),
         NEW v, v = SwapSupporting(paid, path, t)[LastWorld(path)]
  PROVE  Trades(w, v, ahead, t, {})
<1>1. Len(path) \in Nat /\ 1 \in Hops(path)
  BY DEF Walkable, Hops
<1>2. Trades(w, paid, ahead, t, {PoolOf(path, 1)})
  <2> DEFINE q == PoolOf(path, 1)
  <2>1. q \in Pools /\ In(path, 1) \in Sides
    BY <1>1, InSide DEF Walkable, Idle
  <2>2. paid = [w EXCEPT ![q] = PayIn(@, In(path, 1), n)]
    BY DEF PayFirst
  <2>3. {} \cup {q} \subseteq {q} /\ \A p \in Pools : p \in {} \/ Fits(w[p])
    OBVIOUS
  <2> HIDE DEF q
  <2>4. Trades(w, paid, ahead, t, {q})
    BY <2>1, <2>2, <2>3, PayTrades
  <2> QED
    BY <2>4 DEF q
<1>3. PICK f : f = SwapSupporting(paid, path, t)
  OBVIOUS
<1>4. /\ f[0] = paid
      /\ \A i \in Hops(path) :
            f[i] = Hop(f[i - 1], path, i, SupportingOut(f[i - 1], path, i), t)
  BY <1>1, <1>3, SwapSupportingDef
<1>5. \A i \in Hops(path) :
        /\ Surplus(f[i - 1], path, i) > 0
        /\ HopAllowed(f[i - 1], path, i, SupportingOut(f[i - 1], path, i), t)
  BY <1>3 DEF SwapSupportingAllowed
<1>6. ASSUME NEW i \in Hops(path), WorldOK(f[i - 1], ahead)
      PROVE  SupportingOut(f[i - 1], path, i) \in Nat
  <2> DEFINE u == f[i - 1]
  <2>1. u \in [Pools -> Pool] /\ PoolOf(path, i) \in Pools
    BY <1>6 DEF WorldOK, Walkable, Idle
  <2>2. ReserveIn(u, path, i) \in Nat /\ ReserveOut(u, path, i) \in Nat
    BY <2>1, ReservesOfPath
  <2>3. Surplus(u, path, i) \in Nat /\ Surplus(u, path, i) > 0
    <3>1. u[PoolOf(path, i)] \in Pool
      BY <2>1
    <3>2. u[PoolOf(path, i)].b[In(path, i)] \in Nat /\ u[PoolOf(path, i)].r[In(path, i)] \in Nat
      BY <3>1, LpNat, InSide
    <3> QED
      BY <1>5, <3>2 DEF Surplus
  <2> QED
    BY <2>2, <2>3, AmountsNat DEF SupportingOut
<1>7. Trades(paid, f[LastWorld(path)], ahead, t, {})
  BY <1>1, <1>2, <1>4, <1>5, <1>6, PathTrades DEF Trades
<1> QED
  BY <1>2, <1>3, <1>7, TradesTwice DEF WorldOK

(* The contract FlashSwap: pool B sells what pool A lent and pool A is     *)
(* paid back.                                                              *)
LEMMA ExecuteTrades ==
  ASSUME NEW ahead \in [Pools -> [Sides -> Nat]], NEW w, WorldOK(w, ahead),
         Idle(ahead, PoolA), Idle(ahead, PoolB), NEW t \in Nat,
         \A p \in Pools : Fits(w[p]),
         NEW s \in Sides, NEW n \in Nat, NEW h, ExecuteAllowed(w, h, s, n, t),
         NEW v, v = Executed(w, s, n, t)
  PROVE  Trades(w, v, ahead, t, {})
<1> DEFINE o == Other(s)
           sold == AmountSold(w, s, n)
           back == AmountBack(w, s, RepayAmount(n))
           u1 == [w EXCEPT ![PoolB] = PayIn(@, s, n)]
           u2 == [u1 EXCEPT ![PoolB] = Swapped(@, Out(o, sold), t)]
           a == PayIn(SentOut(w[PoolA], Out(s, n)), o, back)
           c == Update(a, t)
           u3 == [u2 EXCEPT ![PoolA] = c]
<1>1. /\ w \in [Pools -> Pool] /\ PoolA \in Pools /\ PoolB \in Pools /\ PoolA # PoolB /\ o \in Sides
      /\ PoolOK(w[PoolA]) /\ Covers(w[PoolA], Nothing)
      /\ ahead[PoolA] = Nothing /\ ahead[PoolB] = Nothing
  BY FlashSwapAssumption, SidesFacts DEF WorldOK, Idle
<1>2. sold \in Nat /\ back \in Nat
  <2>1. /\ w[PoolA].r[s] \in Nat /\ w[PoolA].r[o] \in Nat
        /\ w[PoolB].r[s] \in Nat /\ w[PoolB].r[o] \in Nat /\ w[PoolB].r[s] > 0
    <3>1. w[PoolA] \in Pool /\ w[PoolB] \in Pool
      BY <1>1
    <3> QED
      BY <1>1, <3>1, LpNat DEF ExecuteAllowed, Funded
  <2>2. RepayAmount(n) \in Nat /\ RepayAmount(n) < w[PoolA].r[s]
    BY DEF RepayAmount, ExecuteAllowed
  <2> QED
    BY <2>1, <2>2, AmountsNat DEF AmountSold, AmountBack
<1>3. v = u3
  <2>1. v = [w EXCEPT ![PoolA] = c,
                      ![PoolB] = Swapped(PayIn(@, s, n), Out(o, sold), t)]
    BY <1>1 DEF Executed, Repaid, Sold
  <2>2. u3 = [w EXCEPT ![PoolA] = c,
                       ![PoolB] = Swapped(PayIn(@, s, n), Out(o, sold), t)]
    BY <1>1
  <2> QED
    BY <2>1, <2>2
<1>4. SwapAllowed(u1[PoolB], Out(o, sold), t)
  BY <1>1 DEF ExecuteAllowed
<1>5. /\ SwapBegins(w[PoolA], Out(s, n))
      /\ SwapEnds(a, Out(s, n), t)
  BY <1>1 DEF ExecuteAllowed, Repaid, Sold
<1>6. Out(s, n) \in [Sides -> Nat] /\ Out(o, sold) \in [Sides -> Nat]
  BY <1>2, OutType
<1>7. u2[PoolA] = w[PoolA]
  BY <1>1
<1>8. Trades(w, u1, ahead, t, {PoolB})
  BY <1>1, PayTrades
<1> HIDE DEF u1, sold, back
<1>9. Trades(u1, u2, ahead, t, {})
  <2> DEFINE out == Out(o, sold)
  <2> HIDE DEF out
  <2>1. WorldOK(u1, ahead) /\ \A p \in Pools : p \in {PoolB} \/ Fits(u1[p])
    BY <1>8 DEF Trades
  <2>2. {PoolB} \subseteq {} \cup {PoolB}
    OBVIOUS
  <2>3. out \in [Sides -> Nat] /\ SwapAllowed(u1[PoolB], out, t)
    BY <1>4, <1>6 DEF out
  <2>4. u2 = [u1 EXCEPT ![PoolB] = Swapped(@, out, t)]
    BY DEF out
  <2> HIDE DEF u2
  <2> QED
    BY <1>1, <2>1, <2>2, <2>3, <2>4, SwapTrades
<1>10. Trades(w, u2, ahead, t, {})
  BY <1>1, <1>8, <1>9, TradesTwice
<1> HIDE DEF u2
<1>11. /\ PoolOK(c) /\ c.r = c.b /\ Fits(c) /\ Traded(w[PoolA], c, t)
  <2> DEFINE q == SentOut(w[PoolA], Out(s, n))
  <2>1. /\ PoolOK(q) /\ SameBooks(w[PoolA], q)
        /\ \A x \in Sides : Out(s, n)[x] < w[PoolA].r[x]
        /\ Covers(q, Out(s, n))
    BY <1>1, <1>5, <1>6, SentOutKeeps
  <2> HIDE DEF q
  <2>2. PoolOK(a) /\ SameBooks(q, a) /\ \A x \in Sides : q.b[x] <= a.b[x]
    BY <1>1, <1>2, <2>1, PayInKeeps DEF q
  <2> HIDE DEF a
  <2>3. Covers(a, Out(s, n)) /\ SameBooks(w[PoolA], a)
    BY <1>6, <2>1, <2>2, CoversMore DEF SameBooks
  <2>4. \A x \in Sides : Out(s, n)[x] < a.r[x]
    BY <2>1, <2>3 DEF SameBooks
  <2>5. /\ PoolOK(c) /\ c.r = a.b /\ c.b = a.b /\ Fits(c)
        /\ c.supply = a.supply /\ c.lp = a.lp /\ c.kLast = a.kLast
        /\ Booked(a, c, t) /\ K(a.r) <= K(c.r)
    BY <1>5, <1>6, <2>2, <2>3, <2>4, SwapEndsKeeps
  <2>6. Booked(w[PoolA], c, t)
    BY <2>3, <2>5, AccruedSame DEF SameBooks, Booked
  <2> QED
    BY <2>3, <2>5, <2>6 DEF SameBooks, Traded
<1> HIDE DEF c
<1>12. Covers(c, ahead[PoolA])
  BY <1>1, <1>11, CoversItself, NothingType
<1>13. WorldOK(u2, ahead) /\ \A p \in Pools : p \in {} \/ Fits(u2[p])
  BY <1>10 DEF Trades
<1>14. Trades(u2, u3, ahead, t, {})
  <2>1. Traded(u2[PoolA], c, t)
    BY <1>7, <1>11
  <2>2. {} \subseteq {} \cup {PoolA}
    OBVIOUS
  <2> QED
    BY <1>1, <1>11, <1>12, <1>13, <2>1, <2>2, TradeOne
<1> QED
  BY <1>1, <1>3, <1>10, <1>14, TradesTwice

-----------------------------------------------------------------------------
(* One step of the pools: books kept, and no share of them worth less. *)
Moves(w, v, ahead, t) ==
    /\ WorldOK(v, ahead)
    /\ \A p \in Pools :
        /\ Fits(v[p]) /\ Booked(w[p], v[p], t) /\ Worth(w[p], v[p])
        /\ ahead[p] = Nothing \/ v[p].r = w[p].r

LEMMA TradedWorth ==
  ASSUME NEW p \in Pool, NEW c \in Pool, c.supply = p.supply, c.lp = p.lp, K(p.r) <= K(c.r)
  PROVE  Worth(p, c)
<1>1. K(p.r) \in Nat /\ K(c.r) \in Nat /\ p.supply \in Nat
  BY LpNat, KNat
<1>2. WorthBase(p, c) = K(p.r)
  BY DEF WorthBase
<1>3. K(p.r) * p.supply * p.supply <= K(c.r) * p.supply * p.supply
  <2>1. p.supply * p.supply \in Nat
    BY <1>1
  <2>2. K(p.r) * (p.supply * p.supply) <= K(c.r) * (p.supply * p.supply)
    BY <1>1, <2>1, TimesMonotone
  <2> QED
    BY <1>1, <2>2
<1>4. K(p.r) * p.supply * p.supply \in Nat /\ K(c.r) * p.supply * p.supply \in Nat
  BY <1>1
<1> QED
  BY <1>2, <1>3, <1>4 DEF Worth

LEMMA TradesMove ==
  ASSUME NEW w \in [Pools -> Pool], NEW v, NEW ahead, NEW t, Trades(w, v, ahead, t, {})
  PROVE  Moves(w, v, ahead, t)
<1>1. v \in [Pools -> Pool]
  BY DEF Trades, WorldOK
<1>2. \A p \in Pools : Worth(w[p], v[p])
  <2> SUFFICES ASSUME NEW p \in Pools PROVE Worth(w[p], v[p])
    OBVIOUS
  <2>1. w[p] \in Pool /\ v[p] \in Pool /\ Traded(w[p], v[p], t)
    BY <1>1 DEF Trades
  <2> QED
    BY <2>1, TradedWorth DEF Traded
<1> QED
  BY <1>2 DEF Trades, Traded, Moves

LEMMA MovesNot ==
  ASSUME NEW w, NEW ahead, NEW t, WorldOK(w, ahead), \A p \in Pools : Fits(w[p])
  PROVE  Moves(w, w, ahead, t)
<1>1. \A p \in Pools : Worth(w[p], w[p])
  <2> SUFFICES ASSUME NEW p \in Pools PROVE Worth(w[p], w[p])
    OBVIOUS
  <2>1. w[p] \in Pool
    BY DEF WorldOK
  <2>2. K(w[p].r) \in Nat
    BY <2>1, LpNat, KNat
  <2> QED
    BY <2>1, <2>2, TradedWorth
<1> QED
  BY <1>1 DEF Moves, Booked

(* One pool changes, the others do not. *)
LEMMA MoveOne ==
  ASSUME NEW w, NEW ahead, NEW t, WorldOK(w, ahead), \A p \in Pools : Fits(w[p]),
         NEW q \in Pools, NEW c, PoolOK(c), Covers(c, ahead[q]), Fits(c),
         Booked(w[q], c, t), Worth(w[q], c), ahead[q] = Nothing \/ c.r = w[q].r,
         NEW v, v = [w EXCEPT ![q] = c]
  PROVE  Moves(w, v, ahead, t)
<1>1. w \in [Pools -> Pool] /\ c \in Pool
  BY DEF WorldOK, PoolOK
<1>2. v \in [Pools -> Pool] /\ v[q] = c /\ \A p \in Pools : p # q => v[p] = w[p]
  BY <1>1
<1>3. WorldOK(v, ahead)
  BY <1>2 DEF WorldOK
<1>4. Moves(w, w, ahead, t)
  BY MovesNot
<1>5. ASSUME NEW p \in Pools
      PROVE  /\ Fits(v[p]) /\ Booked(w[p], v[p], t) /\ Worth(w[p], v[p])
             /\ ahead[p] = Nothing \/ v[p].r = w[p].r
  <2>1. CASE p = q
    BY <1>2, <2>1
  <2>2. CASE p # q
    BY <1>2, <1>4, <2>2 DEF Moves
  <2> QED
    BY <2>1, <2>2
<1> QED
  BY <1>3, <1>5 DEF Moves

(***************************************************************************)
(* What holds between two transactions, and in a callback.  The pool whose *)
(* swap is open has sent its tokens ahead; every other one holds its       *)
(* reserves.  The world a revert would restore was a resting one.          *)
(***************************************************************************)

Quiet == [p \in Pools |-> Nothing]

Ahead == [p \in Pools |-> IF flash.open /\ flash.pool = p THEN flash.out ELSE Nothing]

Rested(b) ==
    /\ WorldOK(b.pools, Quiet) /\ \A p \in Pools : Fits(b.pools[p])
    /\ b.created \subseteq Pools /\ b.feeOn \in BOOLEAN
    /\ b.router = 0 /\ b.held \in [Sides -> Nat]

InFlight ==
    /\ flash = [open |-> TRUE, pool |-> flash.pool, out |-> flash.out,
                calls |-> flash.calls, before |-> flash.before]
    /\ flash.pool \in created
    /\ flash.out \in [Sides -> Nat]
    /\ \E s \in Sides : flash.out[s] > 0
    /\ \A s \in Sides : flash.out[s] < pools[flash.pool].r[s]
    /\ Rested(flash.before)

AmmInv ==
    /\ now \in 0 .. MaxTime
    /\ created \subseteq Pools /\ feeOn \in BOOLEAN
    /\ router = 0 /\ held \in [Sides -> Nat]
    /\ WorldOK(pools, Ahead) /\ \A p \in Pools : Fits(pools[p])
    /\ flash = NoFlash \/ InFlight

(* What a call does, whoever makes it. *)
CallShape ==
    /\ Moves(pools, pools', Ahead, now)
    /\ created \subseteq created' /\ created' \subseteq Pools
    /\ feeOn' \in BOOLEAN /\ router' = 0 /\ held' \in [Sides -> Nat]
    /\ now' = now /\ prices' = prices
    /\ Count

LEMMA AheadFacts ==
  ASSUME AmmInv
  PROVE  /\ Ahead \in [Pools -> [Sides -> Nat]]
         /\ flash = NoFlash => Ahead = Quiet
         /\ \A p : Unlocked(p) => Idle(Ahead, p)
         /\ \A p \in Pools \ created : Idle(Ahead, p)
         /\ pools \in [Pools -> Pool]
         /\ now \in Nat
<1>1. CASE flash = NoFlash
  <2>1. ~flash.open
    BY <1>1 DEF NoFlash
  <2> QED
    BY <2>1, NothingType, TimeAssumption DEF AmmInv, Ahead, Quiet, Unlocked, Idle, WorldOK
<1>2. CASE InFlight
  <2>1. flash.open = TRUE /\ flash.pool \in created /\ flash.out \in [Sides -> Nat]
    BY <1>2 DEF InFlight
  <2>2. flash # NoFlash
    BY <2>1 DEF NoFlash
  <2> QED
    BY <2>1, <2>2, NothingType, TimeAssumption DEF AmmInv, Ahead, Unlocked, Idle, WorldOK
<1> QED
  BY <1>1, <1>2 DEF AmmInv

LEMMA OpenWalkable ==
  ASSUME AmmInv, NEW path \in Paths, UnlockedPath(path)
  PROVE  Walkable(path, Ahead) /\ Len(path) >= 2
<1>1. path \in Seq(Tokens) /\ Len(path) \in Nat /\ Len(path) >= 2
  BY AmmAssumption
<1>2. ASSUME NEW i \in Hops(path)
      PROVE  PoolOf(path, i) \in RouterPools /\ Idle(Ahead, PoolOf(path, i))
  <2>1. \E p \in RouterPools : Connects(p, path[i], path[i + 1])
    BY DEF UnlockedPath
  <2>2. PoolOf(path, i) \in RouterPools
    BY <2>1 DEF PoolOf, PoolFor
  <2>3. Unlocked(PoolOf(path, i))
    BY DEF UnlockedPath
  <2> QED
    BY <2>2, <2>3, AheadFacts
<1> QED
  BY <1>1, <1>2 DEF Walkable

LEMMA InitIsGood ==
  ASSUME Init
  PROVE  AmmInv
<1>1. flash = NoFlash /\ ~flash.open
  BY DEF Init, NoFlash
<1>2. Ahead = Quiet
  BY <1>1 DEF Ahead, Quiet
<1>3. /\ pools \in [Pools -> Pool]
      /\ \A p \in Pools : AtFirst(pools[p])
  BY AmmAssumption DEF Init
<1>4. ASSUME NEW p \in Pools
      PROVE  PoolOK(pools[p]) /\ Covers(pools[p], Nothing) /\ Fits(pools[p])
  <2>1. pools[p] \in Pool /\ AtFirst(pools[p])
    BY <1>3
  <2>2. PoolOK(pools[p]) /\ pools[p].b = pools[p].r /\ Fits(pools[p])
    BY <2>1, AtFirstOK
  <2> QED
    BY <2>2, CoversItself, NothingType
<1>5. WorldOK(pools, Quiet)
  BY <1>3, <1>4 DEF WorldOK, Quiet
<1>6. held \in [Sides -> Nat] /\ created \subseteq Pools /\ feeOn \in BOOLEAN /\ router = 0
      /\ now \in 0 .. MaxTime
  BY TimeAssumption DEF Init
<1> QED
  BY <1>1, <1>2, <1>4, <1>5, <1>6 DEF AmmInv

(***************************************************************************)
(* Every call keeps the shape.                                             *)
(***************************************************************************)

(* A call that leaves the pools alone. *)
LEMMA StillShape ==
  ASSUME AmmInv, UNCHANGED pools, created \subseteq created', created' \subseteq Pools,
         feeOn' \in BOOLEAN, router' = 0, held' \in [Sides -> Nat],
         UNCHANGED <<now, prices>>, Count
  PROVE  CallShape
<1>1. Moves(pools, pools, Ahead, now)
  BY MovesNot DEF AmmInv
<1> QED
  BY <1>1 DEF CallShape

(* A call that changes one pool and nothing else but what pairs exist. *)
LEMMA OneShape ==
  ASSUME AmmInv, NEW p \in Pools, NEW c, pools' = [pools EXCEPT ![p] = c],
         PoolOK(c), Covers(c, Ahead[p]), Fits(c), Booked(pools[p], c, now), Worth(pools[p], c),
         Ahead[p] = Nothing \/ c.r = pools[p].r,
         created \subseteq created', created' \subseteq Pools,
         router' = 0, UNCHANGED <<feeOn, now, held, prices>>, Count
  PROVE  CallShape
<1>1. Moves(pools, pools', Ahead, now)
  BY MoveOne DEF AmmInv
<1> QED
  BY <1>1 DEF CallShape, AmmInv

(* A call that trades over pools that are not locked. *)
LEMMA TradeShape ==
  ASSUME AmmInv, Trades(pools, pools', Ahead, now, {}),
         router' = 0, held' \in [Sides -> Nat], UNCHANGED <<created, feeOn, now, prices>>, Count
  PROVE  CallShape
<1>1. Moves(pools, pools', Ahead, now)
  BY TradesMove, AheadFacts
<1> QED
  BY <1>1 DEF CallShape, AmmInv

LEMMA FactoryShape ==
  ASSUME AmmInv, (\E p \in Pools : createPair(p)) \/ setFeeTo
  PROVE  CallShape
<1>1. ASSUME NEW p \in Pools, createPair(p) PROVE CallShape
  BY <1>1, StillShape DEF createPair, AmmInv
<1>2. CASE setFeeTo
  BY <1>2, StillShape DEF setFeeTo, AmmInv
<1> QED
  BY <1>1, <1>2

LEMMA PayShape ==
  ASSUME AmmInv, NEW p \in Pools, NEW s \in Sides, NEW n \in Amounts, Pay(p, s, n)
  PROVE  CallShape
<1> DEFINE c == PayIn(pools[p], s, n)
<1>1. /\ PoolOK(pools[p]) /\ Covers(pools[p], Ahead[p]) /\ pools[p] \in Pool
      /\ Ahead[p] \in [Sides -> Nat] /\ n \in Nat /\ Fits(pools[p])
      /\ pools[p].b[s] + n <= MaxReserve
  BY AheadFacts, AmmAssumption DEF AmmInv, WorldOK, Pay
<1>2. PoolOK(c) /\ SameBooks(pools[p], c) /\ \A x \in Sides : pools[p].b[x] <= c.b[x]
  BY <1>1, PayInKeeps
<1>3. c.b[s] = pools[p].b[s] + n /\ c.b[Other(s)] = pools[p].b[Other(s)]
  BY <1>1, PayInFacts
<1>4. Fits(c)
  BY <1>1, <1>3 DEF Fits, Sides, Other
<1>5. pools' = [pools EXCEPT ![p] = c] /\ Count /\ UNCHANGED others
  BY DEF Pay
<1> HIDE DEF c
<1>6. Covers(c, Ahead[p])
  BY <1>1, <1>2, CoversMore DEF SameBooks
<1>7. Worth(pools[p], c)
  <2>1. c \in Pool /\ K(pools[p].r) \in Nat /\ c.r = pools[p].r
    BY <1>1, <1>2, LpNat, KNat DEF PoolOK, SameBooks
  <2> QED
    BY <1>1, <1>2, <2>1, TradedWorth DEF SameBooks
<1>8. Booked(pools[p], c, now)
  BY <1>2 DEF Booked, SameBooks
<1>9. c.r = pools[p].r
  BY <1>2 DEF SameBooks
<1>10. /\ created' = created /\ created \subseteq Pools /\ router' = 0
       /\ UNCHANGED <<feeOn, now, held, prices>>
  BY <1>5 DEF others, AmmInv
<1> QED
  BY <1>2, <1>4, <1>5, <1>6, <1>7, <1>8, <1>9, <1>10, OneShape

LEMMA PaySharesShape ==
  ASSUME AmmInv, NEW p \in Pools, NEW n \in Amounts, PayShares(p, n)
  PROVE  CallShape
<1> DEFINE c == MoveShares(pools[p], "user", "pair", n)
<1>1. /\ PoolOK(pools[p]) /\ Covers(pools[p], Ahead[p]) /\ pools[p] \in Pool
      /\ Fits(pools[p]) /\ n \in Nat /\ n <= pools[p].lp["user"]
  BY AmmAssumption DEF AmmInv, WorldOK, PayShares
<1>2. /\ PoolOK(c) /\ c.b = pools[p].b /\ c.r = pools[p].r
      /\ c.cum = pools[p].cum /\ c.last = pools[p].last
      /\ c.supply = pools[p].supply /\ c.kLast = pools[p].kLast
      /\ c.lp["feeTo"] = pools[p].lp["feeTo"]
  BY <1>1, MoveSharesKeeps
<1>3. pools' = [pools EXCEPT ![p] = c] /\ Count /\ UNCHANGED others
  BY DEF PayShares
<1> HIDE DEF c
<1>4. Worth(pools[p], c)
  <2>1. WorthBase(pools[p], c) = K(pools[p].r)
    BY <1>2 DEF WorthBase
  <2>2. K(pools[p].r) * pools[p].supply * pools[p].supply \in Nat
    BY <1>1, LpNat, KNat
  <2> QED
    BY <1>2, <2>1, <2>2 DEF Worth
<1>5. Booked(pools[p], c, now) /\ Covers(c, Ahead[p]) /\ Fits(c)
  BY <1>1, <1>2 DEF Booked, Covers, Fits
<1>6. /\ created' = created /\ created \subseteq Pools /\ router' = 0
      /\ UNCHANGED <<feeOn, now, held, prices>>
  BY <1>3 DEF others, AmmInv
<1> QED
  BY <1>2, <1>3, <1>4, <1>5, <1>6, OneShape

LEMMA MintShape ==
  ASSUME AmmInv, NEW p \in Pools, mint(p)
  PROVE  CallShape
<1> DEFINE c == Minted(pools[p], feeOn, now)
<1>1. PoolOK(pools[p]) /\ Ahead[p] = Nothing /\ now \in Nat /\ feeOn \in BOOLEAN
  BY AheadFacts DEF AmmInv, WorldOK, mint, Idle
<1>2. PoolOK(c) /\ c.r = c.b /\ Fits(c) /\ Booked(pools[p], c, now) /\ Worth(pools[p], c)
  BY <1>1, MintKeeps DEF mint
<1>3. pools' = [pools EXCEPT ![p] = c] /\ Count /\ UNCHANGED others
  BY DEF mint
<1> HIDE DEF c
<1>4. Covers(c, Ahead[p])
  BY <1>1, <1>2, CoversItself, NothingType
<1>5. /\ created' = created /\ created \subseteq Pools /\ router' = 0
      /\ UNCHANGED <<feeOn, now, held, prices>>
  BY <1>3 DEF others, AmmInv
<1> QED
  BY <1>1, <1>2, <1>3, <1>4, <1>5, OneShape

LEMMA BurnShape ==
  ASSUME AmmInv, NEW p \in Pools, burn(p)
  PROVE  CallShape
<1> DEFINE c == Burned(pools[p], feeOn, now)
<1>1. /\ PoolOK(pools[p]) /\ Ahead[p] = Nothing /\ now \in Nat /\ feeOn \in BOOLEAN
      /\ Covers(pools[p], Nothing)
  BY AheadFacts DEF AmmInv, WorldOK, burn, Idle
<1>2. PoolOK(c) /\ c.r = c.b /\ Fits(c) /\ Booked(pools[p], c, now) /\ Worth(pools[p], c)
  BY <1>1, BurnKeeps DEF burn
<1>3. pools' = [pools EXCEPT ![p] = c] /\ Count /\ UNCHANGED others
  BY DEF burn
<1> HIDE DEF c
<1>4. Covers(c, Ahead[p])
  BY <1>1, <1>2, CoversItself, NothingType
<1>5. /\ created' = created /\ created \subseteq Pools /\ router' = 0
      /\ UNCHANGED <<feeOn, now, held, prices>>
  BY <1>3 DEF others, AmmInv
<1> QED
  BY <1>1, <1>2, <1>3, <1>4, <1>5, OneShape

LEMMA SwapShape ==
  ASSUME AmmInv, NEW p \in Pools, NEW out \in Outs, swap(p, out)
  PROVE  CallShape
<1>1. out \in [Sides -> Nat]
  BY OutType, AmmAssumption DEF Outs
<1>2. /\ Idle(Ahead, p) /\ now \in Nat /\ Ahead \in [Pools -> [Sides -> Nat]]
      /\ WorldOK(pools, Ahead) /\ \A q \in Pools : Fits(pools[q])
  BY AheadFacts DEF AmmInv, swap
<1>3. /\ SwapAllowed(pools[p], out, now) /\ Count /\ UNCHANGED others
      /\ pools' = [pools EXCEPT ![p] = Swapped(@, out, now)]
  BY DEF swap
<1>4. Trades(pools, pools', Ahead, now, {})
  <2>1. \A q \in Pools : q \in {} \/ Fits(pools[q])
    BY <1>2
  <2>2. {} \subseteq {} \cup {p}
    OBVIOUS
  <2> QED
    BY <1>1, <1>2, <1>3, <2>1, <2>2, SwapTrades
<1> QED
  BY <1>3, <1>4, TradeShape DEF others, AmmInv

LEMMA SkimShape ==
  ASSUME AmmInv, NEW p \in Pools, skim(p)
  PROVE  CallShape
<1> DEFINE c == [pools[p] EXCEPT !.b = pools[p].r]
<1>1. PoolOK(pools[p]) /\ Ahead[p] = Nothing /\ pools[p] \in Pool
  BY AheadFacts DEF AmmInv, WorldOK, skim, Idle
<1>2. PoolOK(c) /\ c.r = c.b /\ Fits(c) /\ SameBooks(pools[p], c)
  BY <1>1, SkimKeeps
<1>3. pools' = [pools EXCEPT ![p] = c] /\ Count /\ UNCHANGED others
  <2>1. pools' = [pools EXCEPT ![p].b = pools[p].r]
    BY DEF skim
  <2>2. pools \in [Pools -> Pool]
    BY DEF AmmInv, WorldOK
  <2> QED
    BY <2>1, <2>2 DEF skim
<1> HIDE DEF c
<1>4. Covers(c, Ahead[p])
  BY <1>1, <1>2, CoversItself, NothingType
<1>5. Worth(pools[p], c) /\ Booked(pools[p], c, now)
  <2>1. c \in Pool /\ K(pools[p].r) \in Nat /\ c.r = pools[p].r
    BY <1>1, <1>2, LpNat, KNat DEF PoolOK, SameBooks
  <2> QED
    BY <1>1, <1>2, <2>1, TradedWorth DEF SameBooks, Booked
<1>6. /\ created' = created /\ created \subseteq Pools /\ router' = 0
      /\ UNCHANGED <<feeOn, now, held, prices>>
  BY <1>3 DEF others, AmmInv
<1> QED
  BY <1>1, <1>2, <1>3, <1>4, <1>5, <1>6, OneShape

LEMMA SyncShape ==
  ASSUME AmmInv, NEW p \in Pools, sync(p)
  PROVE  CallShape
<1> DEFINE c == Update(pools[p], now)
<1>1. /\ PoolOK(pools[p]) /\ Ahead[p] = Nothing /\ now \in Nat /\ pools[p] \in Pool
      /\ Covers(pools[p], Nothing) /\ UpdateAllowed(pools[p], now)
  BY AheadFacts DEF AmmInv, WorldOK, sync, Idle
<1>2. PoolOK(c) /\ c.r = c.b /\ Fits(c) /\ Traded(pools[p], c, now)
  BY <1>1, SyncKeeps
<1>3. pools' = [pools EXCEPT ![p] = c] /\ Count /\ UNCHANGED others
  BY DEF sync
<1> HIDE DEF c
<1>4. Covers(c, Ahead[p])
  BY <1>1, <1>2, CoversItself, NothingType
<1>5. Worth(pools[p], c) /\ Booked(pools[p], c, now)
  <2>1. c \in Pool
    BY <1>2 DEF PoolOK
  <2> QED
    BY <1>1, <1>2, <2>1, TradedWorth DEF Traded
<1>6. /\ created' = created /\ created \subseteq Pools /\ router' = 0
      /\ UNCHANGED <<feeOn, now, held, prices>>
  BY <1>3 DEF others, AmmInv
<1> QED
  BY <1>1, <1>2, <1>3, <1>4, <1>5, <1>6, OneShape

(***************************************************************************)
(* The router.                                                             *)
(***************************************************************************)

(* What _addLiquidity takes of what is offered. *)
LEMMA OptimalFacts ==
  ASSUME NEW r \in [Sides -> Nat], NEW d \in [Sides -> Nat], NEW s \in Sides,
         Funded(r) \/ \A x \in Sides : r[x] = 0,
         NEW a, a = OptimalAmounts(r, d, s)
  PROVE  a \in [Sides -> Nat] /\ \A x \in Sides : a[x] <= d[x]
<1> DEFINE o == Other(s)
           best == quote(d[s], r[s], r[o])
           bestA == quote(d[o], r[o], r[s])
<1>0. o \in Sides /\ o # s /\ Sides = {s, o}
  BY DEF Sides, Other
<1>1. CASE r[0] = 0 /\ r[1] = 0
  BY <1>1 DEF OptimalAmounts
<1>2. CASE ~(r[0] = 0 /\ r[1] = 0)
  <2>1. /\ r[s] \in Nat /\ r[o] \in Nat /\ r[s] > 0 /\ r[o] > 0
        /\ d[s] \in Nat /\ d[o] \in Nat
    BY <1>0, <1>2 DEF Funded, Sides
  <2>2. d[s] * r[o] \in Nat /\ d[o] * r[s] \in Nat
    BY <2>1
  <2>3. /\ best \in Nat /\ bestA \in Nat
        /\ \A q \in Nat : q <= best <=> q * r[s] <= d[s] * r[o]
        /\ bestA * r[o] <= d[o] * r[s]
    <3> HIDE DEF o
    <3>1. best = (d[s] * r[o]) \div r[s] /\ bestA = (d[o] * r[s]) \div r[o]
      BY DEF quote
    <3> QED
      BY <2>1, <2>2, <3>1, Floor
  <2>4. a = IF best <= d[o] THEN [d EXCEPT ![o] = best] ELSE [d EXCEPT ![s] = bestA]
    BY <1>2 DEF OptimalAmounts, OptimalA
  <2> HIDE DEF best, bestA, o
  <2>5. CASE best <= d[o]
    BY <1>0, <2>3, <2>4, <2>5
  <2>6. CASE d[o] < best
    <3>1. d[o] * r[s] <= d[s] * r[o]
      BY <2>1, <2>3, <2>6
    <3>2. bestA * r[o] <= d[s] * r[o]
      <4>1. bestA * r[o] \in Nat
        BY <2>1, <2>3
      <4> QED
        BY <2>2, <2>3, <3>1, <4>1
    <3>3. bestA <= d[s]
      BY <2>1, <2>3, <3>2, TimesCancel
    <3>4. a = [d EXCEPT ![s] = bestA]
      BY <2>1, <2>3, <2>4, <2>6
    <3> QED
      BY <1>0, <2>3, <3>3, <3>4
  <2> QED
    BY <2>1, <2>3, <2>5, <2>6
<1> QED
  BY <1>1, <1>2

LEMMA AddShape ==
  ASSUME AmmInv, NEW p \in Pools, NEW s \in Sides, NEW d \in [Sides -> Nat],
         Add(p, s, d), router' = 0
  PROVE  CallShape
<1> DEFINE a == OptimalAmounts(pools[p].r, d, s)
           half == PayIn(pools[p], 0, a[0])
           paid == PayIn(half, 1, a[1])
           c == Minted(paid, feeOn, now)
<1>1. /\ PoolOK(pools[p]) /\ Ahead[p] = Nothing /\ now \in Nat /\ feeOn \in BOOLEAN
      /\ pools[p] \in Pool /\ pools[p].r \in [Sides -> Nat]
  <2>1. Idle(Ahead, p)
    BY AheadFacts DEF Add
  <2> QED
    BY <2>1, AheadFacts, LpNat DEF AmmInv, WorldOK, Idle
<1>2. a[0] \in Nat /\ a[1] \in Nat
  <2>1. Funded(pools[p].r) \/ \A x \in Sides : pools[p].r[x] = 0
    BY DEF Add
  <2>2. a \in [Sides -> Nat]
    BY <1>1, <2>1, OptimalFacts
  <2> QED
    BY <2>2, SidesFacts
<1>3. /\ MintAllowed(paid, feeOn, now) /\ Count
      /\ pools' = [pools EXCEPT ![p] = c] /\ created' = created \cup {p}
      /\ UNCHANGED <<feeOn, now, held, prices>>
  BY DEF Add
<1> HIDE DEF a
<1>4. PoolOK(half) /\ SameBooks(pools[p], half)
  BY <1>1, <1>2, SidesFacts, PayInKeeps
<1> HIDE DEF half
<1>5. PoolOK(paid) /\ SameBooks(half, paid)
  BY <1>2, <1>4, SidesFacts, PayInKeeps
<1> HIDE DEF paid
<1>6. PoolOK(c) /\ c.r = c.b /\ Fits(c) /\ Booked(paid, c, now) /\ Worth(paid, c)
  BY <1>1, <1>3, <1>5, MintKeeps
<1> HIDE DEF c
<1>7. SameBooks(pools[p], paid)
  BY <1>4, <1>5 DEF SameBooks
<1>8. Worth(pools[p], c)
  BY <1>6, <1>7 DEF Worth, WorthBase, SameBooks
<1>9. Booked(pools[p], c, now)
  BY <1>6, <1>7, AccruedSame DEF Booked, SameBooks
<1>10. Covers(c, Ahead[p])
  BY <1>1, <1>6, CoversItself, NothingType
<1>11. created \subseteq created' /\ created' \subseteq Pools
  BY <1>3 DEF AmmInv
<1> QED
  BY <1>1, <1>3, <1>6, <1>8, <1>9, <1>10, <1>11, OneShape

LEMMA AmountsPositive == \A n \in Amounts : n \in Nat /\ n > 0
BY AmmAssumption

LEMMA AddEtherShape ==
  ASSUME AmmInv, NEW p \in Pools, NEW token \in Amounts, NEW value \in Amounts,
         addLiquidityETH(p, token, value)
  PROVE  CallShape
<1> DEFINE s == SideOf(p, Weth)
           d == [x \in Sides |-> IF x = s THEN value ELSE token]
           spent == OptimalAmounts(pools[p].r, d, Other(s))[s]
<1>1. s \in Sides /\ Other(s) \in Sides
  BY SidesFacts DEF SideOf, Sides
<1>2. d \in [Sides -> Nat] /\ value \in Nat
  BY AmountsPositive
<1>3. /\ Add(p, Other(s), d)
      /\ router' = router + value - spent - Refund(value, spent)
  BY DEF addLiquidityETH
<1> HIDE DEF d, s
<1>4. Funded(pools[p].r) \/ \A x \in Sides : pools[p].r[x] = 0
  BY <1>3 DEF Add
<1>5. pools[p].r \in [Sides -> Nat]
  BY AheadFacts, LpNat
<1>6. OptimalAmounts(pools[p].r, d, Other(s)) \in [Sides -> Nat]
  BY <1>1, <1>2, <1>4, <1>5, OptimalFacts
<1>7. spent \in Nat
  BY <1>1, <1>6
<1> HIDE DEF spent
<1>8. router' = 0
  BY <1>2, <1>3, <1>7 DEF Refund, AmmInv
<1> QED
  BY <1>1, <1>2, <1>3, <1>8, AddShape

LEMMA RemoveShape ==
  ASSUME AmmInv, NEW p \in Pools, NEW n \in Amounts, removeLiquidity(p, n)
  PROVE  CallShape
<1> DEFINE sent == MoveShares(pools[p], "user", "pair", n)
           c == Burned(sent, feeOn, now)
<1>1. /\ PoolOK(pools[p]) /\ Ahead[p] = Nothing /\ now \in Nat /\ feeOn \in BOOLEAN
      /\ Covers(pools[p], Nothing) /\ n \in Nat /\ n <= pools[p].lp["user"]
  BY AheadFacts, AmountsPositive DEF AmmInv, WorldOK, removeLiquidity, Idle
<1>2. /\ BurnAllowed(sent, feeOn, now) /\ Count /\ UNCHANGED others
      /\ pools' = [pools EXCEPT ![p] = c]
  BY DEF removeLiquidity
<1>3. /\ PoolOK(sent) /\ sent.b = pools[p].b /\ sent.r = pools[p].r
      /\ sent.cum = pools[p].cum /\ sent.last = pools[p].last
      /\ sent.supply = pools[p].supply /\ sent.kLast = pools[p].kLast
      /\ sent.lp["feeTo"] = pools[p].lp["feeTo"]
  BY <1>1, MoveSharesKeeps
<1> HIDE DEF sent
<1>4. Covers(sent, Nothing)
  BY <1>1, <1>3 DEF Covers
<1>5. PoolOK(c) /\ c.r = c.b /\ Fits(c) /\ Booked(sent, c, now) /\ Worth(sent, c)
  BY <1>1, <1>2, <1>3, <1>4, BurnKeeps
<1> HIDE DEF c
<1>6. Worth(pools[p], c)
  BY <1>3, <1>5 DEF Worth, WorthBase
<1>7. Booked(pools[p], c, now)
  BY <1>3, <1>5, AccruedSame DEF Booked
<1>8. Covers(c, Ahead[p])
  BY <1>1, <1>5, CoversItself, NothingType
<1>9. /\ created' = created /\ created \subseteq Pools /\ router' = 0
      /\ UNCHANGED <<feeOn, now, held, prices>>
  BY <1>2 DEF others, AmmInv
<1> QED
  BY <1>1, <1>2, <1>5, <1>6, <1>7, <1>8, <1>9, OneShape

(* The pools of a path are in the world. *)
LEMMA PathInWorld ==
  ASSUME NEW path, NEW ahead, Walkable(path, ahead)
  PROVE  /\ Len(path) \in Nat
         /\ \A i \in Hops(path) : PoolOf(path, i) \in Pools
BY RouterAssumption DEF Walkable

LEMMA AlongShape ==
  ASSUME AmmInv, NEW path \in Paths, Open(path),
         NEW amounts, \A i \in 1 .. Len(path) : amounts[i] \in Nat,
         Along(amounts, path), router' = 0
  PROVE  CallShape
<1> DEFINE paid == PayFirst(pools, path, amounts[1])
<1>1. Walkable(path, Ahead) /\ Len(path) >= 2
  BY OpenWalkable DEF Open
<1>2. /\ Ahead \in [Pools -> [Sides -> Nat]] /\ WorldOK(pools, Ahead) /\ now \in Nat
      /\ \A q \in Pools : Fits(pools[q]) /\ held \in [Sides -> Nat]
  BY AheadFacts DEF AmmInv
<1>3. /\ SwapAlongAllowed(paid, amounts, path, now) /\ Count
      /\ pools' = SwapAlong(paid, amounts, path, now)[LastWorld(path)]
      /\ UNCHANGED <<created, feeOn, now, held, oracle, prices>>
  BY DEF Along
<1> HIDE DEF paid
<1>4. paid = PayFirst(pools, path, amounts[1])
  BY DEF paid
<1>5. Trades(pools, pools', Ahead, now, {})
  BY <1>1, <1>2, <1>3, <1>4, AlongTrades
<1>6. held' \in [Sides -> Nat] /\ UNCHANGED <<created, feeOn, now, prices>>
  <2>1. held \in [Sides -> Nat]
    BY DEF AmmInv
  <2> QED
    BY <1>3, <2>1
<1> QED
  BY <1>3, <1>5, <1>6, TradeShape

LEMMA QuotesAreNatural ==
  ASSUME AmmInv, NEW path \in Paths, Open(path), NEW n \in Amounts
  PROVE  \A i \in 1 .. Len(path) :
            getAmountsOut(pools, n, path)[i] \in Nat /\ getAmountsIn(pools, n, path)[i] \in Nat
<1>1. /\ Len(path) \in Nat /\ Len(path) > 0
      /\ \A i \in Hops(path) : PoolOf(path, i) \in Pools
  <2>1. Walkable(path, Ahead) /\ Len(path) >= 2
    BY OpenWalkable DEF Open
  <2> QED
    BY <2>1, PathInWorld
<1>2. pools \in [Pools -> Pool] /\ AllFunded(pools, path) /\ n \in Nat
  BY AheadFacts, AmountsPositive DEF Open
<1>3. ASSUME NEW f, f = getAmountsOut(pools, n, path) PROVE \A i \in 1 .. Len(path) : f[i] \in Nat
  BY <1>1, <1>2, <1>3, AmountsOutNat
<1>4. ASSUME NEW f, f = getAmountsIn(pools, n, path) PROVE \A i \in 1 .. Len(path) : f[i] \in Nat
  BY <1>1, <1>2, <1>4, AmountsInNat
<1> QED
  BY <1>3, <1>4

LEMMA SwapsShape ==
  ASSUME AmmInv, NEW path \in Paths, NEW n \in Amounts,
         \/ swapExactTokensForTokens(n, path) \/ swapTokensForExactTokens(n, path)
         \/ \E value \in Amounts : swapETHForExactTokens(n, value, path)
  PROVE  CallShape
<1> DEFINE outs == getAmountsOut(pools, n, path)
           ins == getAmountsIn(pools, n, path)
<1>1. Open(path)
  BY DEF swapExactTokensForTokens, swapTokensForExactTokens, swapETHForExactTokens
<1>2. \A i \in 1 .. Len(path) : outs[i] \in Nat /\ ins[i] \in Nat
  BY <1>1, QuotesAreNatural
<1>3. Len(path) \in Nat /\ Len(path) >= 2
  BY AmmAssumption
<1>4. router = 0
  BY DEF AmmInv
<1>5. CASE swapExactTokensForTokens(n, path)
  <2>1. Along(outs, path) /\ router' = 0
    BY <1>4, <1>5 DEF swapExactTokensForTokens
  <2> HIDE DEF outs
  <2> QED
    BY <1>1, <1>2, <2>1, AlongShape
<1>6. CASE swapTokensForExactTokens(n, path)
  <2>1. Along(ins, path) /\ router' = 0
    BY <1>4, <1>6 DEF swapTokensForExactTokens
  <2> HIDE DEF ins
  <2> QED
    BY <1>1, <1>2, <2>1, AlongShape
<1>7. ASSUME NEW value \in Amounts, swapETHForExactTokens(n, value, path) PROVE CallShape
  <2>1. /\ Along(ins, path)
        /\ router' = router + value - ins[1] - Refund(value, ins[1])
    BY <1>7 DEF swapETHForExactTokens
  <2> HIDE DEF ins
  <2>2. ins[1] \in Nat /\ value \in Nat
    BY <1>2, <1>3, AmountsPositive
  <2>3. router' = 0
    BY <1>4, <2>1, <2>2 DEF Refund
  <2> QED
    BY <1>1, <1>2, <2>1, <2>3, AlongShape
<1> QED
  BY <1>5, <1>6, <1>7

LEMMA SupportingShape ==
  ASSUME AmmInv, NEW path \in Paths, NEW n \in Amounts, swapExactTokensSupportingFee(n, path)
  PROVE  CallShape
<1> DEFINE paid == PayFirst(pools, path, n)
<1>1. Walkable(path, Ahead) /\ Len(path) >= 2
  BY OpenWalkable DEF swapExactTokensSupportingFee, Open
<1>2. /\ Ahead \in [Pools -> [Sides -> Nat]] /\ WorldOK(pools, Ahead) /\ now \in Nat
      /\ \A q \in Pools : Fits(pools[q])
  BY AheadFacts DEF AmmInv
<1>3. /\ SwapSupportingAllowed(paid, path, now) /\ Count /\ UNCHANGED others
      /\ pools' = SwapSupporting(paid, path, now)[LastWorld(path)]
  BY DEF swapExactTokensSupportingFee
<1> HIDE DEF paid
<1>4. paid = PayFirst(pools, path, n) /\ n \in Nat
  BY AmountsPositive DEF paid
<1>5. Trades(pools, pools', Ahead, now, {})
  BY <1>1, <1>2, <1>3, <1>4, SupportingTrades
<1> QED
  BY <1>3, <1>5, TradeShape DEF others, AmmInv

LEMMA RouterShape ==
  ASSUME AmmInv, RouterCall
  PROVE  CallShape
<1>1. RouterPools \subseteq Pools
  BY RouterAssumption
<1>2. ASSUME NEW p \in RouterPools, NEW s \in Sides, NEW d \in [Sides -> Amounts],
             addLiquidity(p, s, d)
      PROVE  CallShape
  <2>1. d \in [Sides -> Nat]
    BY AmountsPositive
  <2> QED
    BY <1>1, <1>2, <2>1, AddShape DEF addLiquidity, AmmInv
<1>3. ASSUME NEW p \in RouterPools, NEW n \in Amounts,
             removeLiquidity(p, n) \/ removeLiquidityETH(p, n)
      PROVE  CallShape
  BY <1>1, <1>3, RemoveShape DEF removeLiquidityETH
<1>4. ASSUME NEW p \in RouterPools, NEW token \in Amounts, NEW value \in Amounts,
             addLiquidityETH(p, token, value)
      PROVE  CallShape
  BY <1>1, <1>4, AddEtherShape
<1>5. ASSUME NEW path \in Paths, NEW n \in Amounts,
             \/ swapExactTokensForTokens(n, path) \/ swapTokensForExactTokens(n, path)
             \/ swapExactETHForTokens(n, path) \/ swapExactTokensForETH(n, path)
             \/ swapTokensForExactETH(n, path)
             \/ \E value \in Amounts : swapETHForExactTokens(n, value, path)
      PROVE  CallShape
  BY <1>5, SwapsShape DEF swapExactETHForTokens, swapExactTokensForETH, swapTokensForExactETH
<1>6. ASSUME NEW path \in Paths, NEW n \in Amounts,
             \/ swapExactTokensSupportingFee(n, path)
             \/ swapExactETHSupportingFee(n, path) \/ swapToETHSupportingFee(n, path)
      PROVE  CallShape
  BY <1>6, SupportingShape DEF swapExactETHSupportingFee, swapToETHSupportingFee
<1> QED
  BY <1>2, <1>3, <1>4, <1>5, <1>6 DEF RouterCall

(***************************************************************************)
(* The contract FlashSwap and the oracle.                                  *)
(***************************************************************************)

LEMMA ExecuteShape ==
  ASSUME AmmInv, NEW s \in Sides, NEW n \in Amounts, executeFlashSwap(s, n)
  PROVE  CallShape
<1>1. /\ ExecuteAllowed(pools, held, s, n, now) /\ Count
      /\ pools' = Executed(pools, s, n, now)
      /\ held' = [x \in Sides |-> 0]
      /\ UNCHANGED <<created, feeOn, now, router, oracle, prices>>
  BY DEF executeFlashSwap
<1>2. Ahead \in [Pools -> [Sides -> Nat]]
  BY AheadFacts
<1>3. WorldOK(pools, Ahead)
  BY DEF AmmInv
<1>4. Idle(Ahead, PoolA) /\ Idle(Ahead, PoolB)
  BY AheadFacts DEF executeFlashSwap
<1>5. now \in Nat /\ n \in Nat
  BY AheadFacts, AmountsPositive
<1>6. \A p \in Pools : Fits(pools[p])
  BY DEF AmmInv
<1>7. Trades(pools, pools', Ahead, now, {})
  BY <1>1, <1>2, <1>3, <1>4, <1>5, <1>6, ExecuteTrades
<1>8. held' \in [Sides -> Nat] /\ router' = 0 /\ UNCHANGED <<created, feeOn, now, prices>>
  BY <1>1 DEF AmmInv
<1> QED
  BY <1>1, <1>7, <1>8, TradeShape

LEMMA ClientShape ==
  ASSUME AmmInv, ClientCall
  PROVE  CallShape
<1>1. ASSUME NEW s \in Sides, NEW n \in Amounts, executeFlashSwap(s, n) PROVE CallShape
  BY <1>1, ExecuteShape
<1>2. ASSUME NEW s \in Sides, NEW n \in Amounts, SendToFlashSwap(s, n) PROVE CallShape
  <2>1. held' \in [Sides -> Nat]
    BY <1>2, AmountsPositive DEF SendToFlashSwap, AmmInv
  <2> QED
    BY <1>2, <2>1, StillShape DEF SendToFlashSwap, AmmInv
<1>3. ASSUME NEW s \in Sides, emergencyWithdraw(s) PROVE CallShape
  <2>1. held' \in [Sides -> Nat]
    BY <1>3 DEF emergencyWithdraw, AmmInv
  <2> QED
    BY <1>3, <2>1, StillShape DEF emergencyWithdraw, AmmInv
<1>4. CASE DeployOracle
  BY <1>4, StillShape DEF DeployOracle, AmmInv
<1>5. CASE updateOracle
  BY <1>5, StillShape DEF updateOracle, AmmInv
<1>6. ASSUME NEW avg \in Averages, setPrice(avg) PROVE CallShape
  BY <1>6, StillShape DEF setPrice, AmmInv
<1> QED
  BY <1>1, <1>2, <1>3, <1>4, <1>5, <1>6 DEF ClientCall

(* A step is a call, one of the ends of a swap with a callback, or a tick. *)
LEMMA NextSplits ==
  ASSUME Next
  PROVE  \/ MayCall /\ ((\E p \in Pools : createPair(p)) \/ setFeeTo)
         \/ MayCall /\ \E p \in Pools : mint(p) \/ burn(p) \/ skim(p) \/ sync(p)
         \/ MayCall /\ \E p \in Pools, s \in Sides, n \in Amounts : Pay(p, s, n)
         \/ MayCall /\ \E p \in Pools, n \in Amounts : PayShares(p, n)
         \/ MayCall /\ \E p \in Pools, out \in Outs : swap(p, out)
         \/ MayCall /\ RouterCall
         \/ MayCall /\ ClientCall
         \/ \E p \in Pools, out \in Outs : FlashOpen(p, out)
         \/ FlashClose \/ FlashRevert \/ Tick
BY DEF Next, PoolCall

LEMMA StepShape ==
  ASSUME AmmInv, Next
  PROVE  \/ CallShape
         \/ \E p \in Pools, out \in Outs : FlashOpen(p, out)
         \/ FlashClose \/ FlashRevert \/ Tick
BY NextSplits, FactoryShape, MintShape, BurnShape, SkimShape, SyncShape, PayShape,
   PaySharesShape, SwapShape, RouterShape, ClientShape

(***************************************************************************)
(* Every step keeps the invariant, and no share loses but by a revert.     *)
(***************************************************************************)

Kept == \A p \in Pools : Worth(pools[p], pools'[p])

LEMMA CallKeeps ==
  ASSUME AmmInv, CallShape
  PROVE  AmmInv' /\ Kept /\ Ahead' = Ahead
<1>1. /\ Moves(pools, pools', Ahead, now) /\ Count
      /\ created \subseteq created' /\ created' \subseteq Pools
      /\ feeOn' \in BOOLEAN /\ router' = 0 /\ held' \in [Sides -> Nat] /\ now' = now
  BY DEF CallShape
<1>2. CASE flash = NoFlash
  <2>1. ~flash.open
    BY <1>2 DEF NoFlash
  <2>2. flash' = flash
    BY <1>1, <2>1 DEF Count
  <2>3. Ahead' = Ahead
    BY <2>2 DEF Ahead
  <2> QED
    BY <1>1, <1>2, <2>2, <2>3 DEF AmmInv, Moves, Kept, NoFlash
<1>3. CASE InFlight
  <2> DEFINE q == flash.pool
  <2>1. /\ flash = [open |-> TRUE, pool |-> flash.pool, out |-> flash.out,
                    calls |-> flash.calls, before |-> flash.before]
        /\ flash.open = TRUE /\ q \in created /\ q \in Pools /\ flash.out \in [Sides -> Nat]
    BY <1>3 DEF InFlight, AmmInv
  <2>2. flash' = [flash EXCEPT !.calls = @ + 1]
    BY <1>1, <2>1 DEF Count
  <2>3. flash' = [open |-> TRUE, pool |-> flash.pool, out |-> flash.out,
                  calls |-> flash.calls + 1, before |-> flash.before]
    BY <2>1, <2>2
  <2>4. /\ flash'.open = TRUE /\ flash'.pool = flash.pool /\ flash'.out = flash.out
        /\ flash'.before = flash.before
    BY <2>3
  <2>5. Ahead' = Ahead
    BY <2>1, <2>4 DEF Ahead
  <2>6. Ahead[q] = flash.out /\ flash.out # Nothing
    <3>1. \E s \in Sides : flash.out[s] > 0
      BY <1>3 DEF InFlight
    <3> QED
      BY <2>1, <3>1 DEF Ahead, Nothing
  <2>7. pools'[q].r = pools[q].r
    BY <1>1, <2>1, <2>6 DEF Moves
  <2>8. InFlight'
    <3>1. flash' = [open |-> TRUE, pool |-> flash'.pool, out |-> flash'.out,
                    calls |-> flash'.calls, before |-> flash'.before]
      BY <2>3
    <3> QED
      BY <1>1, <1>3, <2>1, <2>4, <2>7, <3>1 DEF InFlight
  <2> QED
    BY <1>1, <2>5, <2>8 DEF AmmInv, Moves, Kept
<1> QED
  BY <1>2, <1>3 DEF AmmInv

(* The tokens go out, and the pool is locked. *)
LEMMA OpenKeeps ==
  ASSUME AmmInv, NEW p \in Pools, NEW out \in Outs, FlashOpen(p, out)
  PROVE  AmmInv' /\ Kept
<1> DEFINE c == SentOut(pools[p], out)
<1>1. /\ ~flash.open /\ Unlocked(p) /\ SwapBegins(pools[p], out)
      /\ flash' = [open |-> TRUE, pool |-> p, out |-> out, calls |-> 0, before |-> world]
      /\ pools' = [pools EXCEPT ![p] = c]
      /\ UNCHANGED <<created, feeOn, now, router, held, oracle, prices>>
  BY DEF FlashOpen, others
<1>2. out \in [Sides -> Nat]
  BY OutType, AmmAssumption DEF Outs
<1>3. flash = NoFlash /\ Ahead = Quiet
  <2>1. ~InFlight
    <3> SUFFICES ASSUME InFlight PROVE FALSE
      OBVIOUS
    <3>1. flash.open = TRUE
      BY DEF InFlight
    <3> QED
      BY <1>1, <3>1
  <2> QED
    BY <2>1, AheadFacts DEF AmmInv
<1>4. /\ PoolOK(pools[p]) /\ Covers(pools[p], Nothing) /\ pools[p] \in Pool /\ Fits(pools[p])
      /\ pools \in [Pools -> Pool]
  BY <1>3, AheadFacts DEF AmmInv, WorldOK, Quiet
<1>5. /\ PoolOK(c) /\ SameBooks(pools[p], c)
      /\ \A s \in Sides : c.b[s] = pools[p].b[s] - out[s] /\ out[s] < pools[p].r[s]
      /\ Covers(c, out)
  BY <1>1, <1>2, <1>4, SentOutKeeps
<1> HIDE DEF c
<1>6. Fits(c)
  <2>1. \A s \in Sides : pools[p].b[s] \in Nat /\ c.b[s] \in Nat /\ out[s] \in Nat
    BY <1>2, <1>4, <1>5, LpNat DEF PoolOK
  <2> QED
    BY <1>4, <1>5, <2>1, PairAssumption DEF Fits
<1>7. Worth(pools[p], c)
  <2>1. c \in Pool /\ K(pools[p].r) \in Nat /\ c.r = pools[p].r
    BY <1>4, <1>5, LpNat, KNat DEF PoolOK, SameBooks
  <2> QED
    BY <1>4, <1>5, <2>1, TradedWorth DEF SameBooks
<1>8. pools'[p] = c /\ \A q \in Pools : q # p => pools'[q] = pools[q]
  BY <1>1, <1>4
<1>9. Kept
  <2>1. Moves(pools, pools, Ahead, now)
    BY MovesNot DEF AmmInv
  <2> QED
    BY <1>7, <1>8, <2>1 DEF Kept, Moves
<1>10. /\ flash'.open = TRUE /\ flash'.pool = p /\ flash'.out = out /\ flash'.before = world
       /\ flash'.calls = 0
  BY <1>1
<1>11. /\ Ahead'[p] = out /\ \A q \in Pools : q # p => Ahead'[q] = Nothing
  BY <1>10 DEF Ahead
<1>12. WorldOK(pools', Ahead') /\ \A q \in Pools : Fits(pools'[q])
  <2>1. pools' \in [Pools -> Pool]
    BY <1>1, <1>4, <1>5 DEF PoolOK
  <2>2. ASSUME NEW q \in Pools, q # p
        PROVE  PoolOK(pools'[q]) /\ Covers(pools'[q], Ahead'[q]) /\ Fits(pools'[q])
    BY <1>3, <1>8, <1>11, <2>2 DEF AmmInv, WorldOK, Quiet
  <2> QED
    BY <1>5, <1>6, <1>8, <1>11, <2>1, <2>2 DEF WorldOK
<1>13. Rested(world)
  BY <1>3 DEF AmmInv, Rested, world
<1>14. InFlight'
  <2>1. flash' = [open |-> TRUE, pool |-> flash'.pool, out |-> flash'.out,
                  calls |-> flash'.calls, before |-> flash'.before]
    BY <1>1, <1>10
  <2>2. p \in created' /\ \E s \in Sides : out[s] > 0
    BY <1>1 DEF Unlocked, SwapBegins
  <2>3. \A s \in Sides : out[s] < pools'[p].r[s]
    BY <1>5, <1>8 DEF SameBooks
  <2> QED
    BY <1>2, <1>10, <1>13, <2>1, <2>2, <2>3 DEF InFlight
<1> QED
  BY <1>1, <1>9, <1>12, <1>14 DEF AmmInv

(* The pool looks at what came in. *)
LEMMA CloseKeeps ==
  ASSUME AmmInv, FlashClose
  PROVE  AmmInv' /\ Kept
<1> DEFINE p == flash.pool
           a == pools[p]
           c == Update(a, now)
<1>1. /\ flash.open /\ SwapEnds(a, flash.out, now)
      /\ flash' = NoFlash /\ pools' = [pools EXCEPT ![p] = c]
      /\ UNCHANGED <<created, feeOn, now, router, held, oracle, prices>>
  BY DEF FlashClose, others
<1>2. InFlight
  BY <1>1 DEF AmmInv, NoFlash
<1>3. /\ p \in Pools /\ flash.out \in [Sides -> Nat] /\ Ahead[p] = flash.out
      /\ \A s \in Sides : flash.out[s] < a.r[s]
      /\ \A q \in Pools : q # p => Ahead[q] = Nothing
  BY <1>1, <1>2 DEF InFlight, AmmInv, Ahead
<1>4. PoolOK(a) /\ Covers(a, flash.out) /\ a \in Pool /\ pools \in [Pools -> Pool] /\ now \in Nat
  BY <1>3, AheadFacts DEF AmmInv, WorldOK
<1>5. /\ PoolOK(c) /\ c.r = a.b /\ c.b = a.b /\ Fits(c)
      /\ c.supply = a.supply /\ c.lp = a.lp /\ c.kLast = a.kLast
      /\ Booked(a, c, now) /\ K(a.r) <= K(c.r)
  BY <1>1, <1>3, <1>4, SwapEndsKeeps
<1> HIDE DEF c
<1>6. Covers(c, Nothing) /\ Worth(a, c)
  <2>1. c.b = c.r /\ c \in Pool
    BY <1>5 DEF PoolOK
  <2> QED
    BY <1>4, <1>5, <2>1, CoversItself, NothingType, TradedWorth
<1>7. pools'[p] = c /\ \A q \in Pools : q # p => pools'[q] = pools[q]
  BY <1>1, <1>3, <1>4
<1>8. Kept
  <2>1. Moves(pools, pools, Ahead, now)
    BY MovesNot DEF AmmInv
  <2> QED
    BY <1>6, <1>7, <2>1 DEF Kept, Moves
<1>9. Ahead' = Quiet
  BY <1>1 DEF Ahead, Quiet, NoFlash
<1>10. WorldOK(pools', Quiet) /\ \A q \in Pools : Fits(pools'[q])
  <2>1. pools' \in [Pools -> Pool]
    BY <1>1, <1>4, <1>5 DEF PoolOK
  <2>2. ASSUME NEW q \in Pools, q # p
        PROVE  PoolOK(pools'[q]) /\ Covers(pools'[q], Nothing) /\ Fits(pools'[q])
    BY <1>3, <1>7, <2>2 DEF AmmInv, WorldOK
  <2> QED
    BY <1>5, <1>6, <1>7, <2>1, <2>2 DEF WorldOK, Quiet
<1> QED
  BY <1>1, <1>8, <1>9, <1>10 DEF AmmInv

(* All of it is undone. *)
LEMMA RevertKeeps ==
  ASSUME AmmInv, FlashRevert
  PROVE  AmmInv' /\ Undone
<1>1. /\ flash.open /\ flash' = NoFlash
      /\ pools' = flash.before.pools /\ created' = flash.before.created
      /\ feeOn' = flash.before.feeOn /\ router' = flash.before.router
      /\ held' = flash.before.held /\ now' = now
  BY DEF FlashRevert
<1>2. Rested(flash.before)
  BY <1>1 DEF AmmInv, NoFlash, InFlight
<1>3. Ahead' = Quiet /\ ~flash'.open
  BY <1>1 DEF Ahead, Quiet, NoFlash
<1>4. Undone
  BY <1>1, <1>3 DEF Undone
<1>5. WorldOK(pools', Ahead') /\ \A p \in Pools : Fits(pools'[p])
  BY <1>1, <1>2, <1>3 DEF Rested
<1>6. /\ created' \subseteq Pools /\ feeOn' \in BOOLEAN /\ router' = 0
      /\ held' \in [Sides -> Nat] /\ now' \in 0 .. MaxTime
  BY <1>1, <1>2 DEF Rested, AmmInv
<1> QED
  BY <1>1, <1>4, <1>5, <1>6 DEF AmmInv

LEMMA StandsStill ==
  ASSUME AmmInv, UNCHANGED <<pools, created, feeOn, flash, router, held>>, now' \in 0 .. MaxTime
  PROVE  AmmInv' /\ Kept
<1>1. Moves(pools, pools, Ahead, now)
  BY MovesNot DEF AmmInv
<1>2. Kept
  BY <1>1 DEF Kept, Moves
<1>3. Ahead' = Ahead
  BY DEF Ahead
<1>4. InFlight' <=> InFlight
  BY DEF InFlight
<1> QED
  BY <1>2, <1>3, <1>4 DEF AmmInv

LEMMA StepKeeps ==
  ASSUME AmmInv, [Next]_vars
  PROVE  AmmInv' /\ (Undone \/ Kept)
<1>1. CASE Next
  <2>1. CASE Tick
    <3>1. now' \in 0 .. MaxTime
      BY <2>1, TimeAssumption DEF Tick, AmmInv
    <3> QED
      BY <2>1, <3>1, StandsStill DEF Tick
  <2> QED
    BY <1>1, <2>1, StepShape, CallKeeps, OpenKeeps, CloseKeeps, RevertKeeps
<1>2. CASE UNCHANGED vars
  <2>1. UNCHANGED <<pools, created, feeOn, flash, router, held>> /\ now' \in 0 .. MaxTime
    BY <1>2 DEF vars, AmmInv
  <2> QED
    BY <2>1, StandsStill
<1> QED
  BY <1>1, <1>2

(* The books of all the pools add up, whatever is called, called back or   *)
(* reverted, and the pools hold what they state.                           *)
THEOREM WorldStaysSound == Spec => []AmmInv
<1>1. Init => AmmInv
  BY InitIsGood
<1>2. AmmInv /\ [Next]_vars => AmmInv'
  BY StepKeeps
<1> QED
  BY <1>1, <1>2, PTL DEF Spec

(* No share of a pool is worth less after any call, of the pool, of the    *)
(* router, of FlashSwap or of a callee: see SharesKeepTheirWorth in Amm.   *)
THEOREM NoShareLoses == Spec => SharesKeepTheirWorth
<1>1. AmmInv /\ [Next]_vars =>
        [Undone \/ \A p \in Pools :
            LET a == pools[p]
                c == pools'[p]
            IN  a.supply > 0 =>
                    K(c.r) * a.supply * a.supply >= WorthBase(a, c) * c.supply * c.supply]_vars
  BY StepKeeps DEF Kept, Worth
<1> QED
  BY <1>1, WorldStaysSound, PTL DEF Spec, SharesKeepTheirWorth

(* The pools hold the reserves they state, up to what an open swap has     *)
(* sent ahead, and the router holds nothing.                               *)
THEOREM ReservesAreHeld == Spec => []ReservesCovered
<1>1. AmmInv => ReservesCovered
  <2> SUFFICES ASSUME AmmInv, NEW p \in Pools, NEW s \in Sides
               PROVE  pools[p].b[s] >= pools[p].r[s]
                        - (IF flash.open /\ flash.pool = p THEN flash.out[s] ELSE 0)
    BY DEF ReservesCovered, AmmInv
  <2>1. pools[p].b[s] >= pools[p].r[s] - Ahead[p][s]
    BY DEF AmmInv, WorldOK, Covers
  <2>2. Ahead[p][s] = IF flash.open /\ flash.pool = p THEN flash.out[s] ELSE 0
    BY DEF Ahead, Nothing
  <2> QED
    BY <2>1, <2>2
<1> QED
  BY <1>1, WorldStaysSound, PTL

(***************************************************************************)
(* Quotes and what the product check of a pool makes of them.              *)
(***************************************************************************)

(* The two sides of a pool in either order. *)
LEMMA KOfSides ==
  ASSUME NEW f \in [Sides -> Int], NEW s \in Sides, NEW o, o = Other(s)
  PROVE  K(f) = f[s] * f[o] /\ f[s] \in Int /\ f[o] \in Int
BY DEF K, Sides, Other

(* What a pool asks for: A and B are its balances less the fee, in         *)
(* thousandths.                                                            *)
KeptProduct(rI, rO, A, B) == A * B >= rI * rO * 1000 * 1000

(* n paid in and x paid out keep the product less the fee. *)
LEMMA ProductKept ==
  ASSUME NEW rI \in Nat, NEW rO \in Nat, NEW n \in Nat, NEW x \in Nat, x < rO,
         NEW A \in Nat, A >= rI * 1000 + n * 997,
         NEW B \in Nat, B >= (rO - x) * 1000
  PROVE  Enough(rI, rO, n, x) => KeptProduct(rI, rO, A, B)
<1> SUFFICES ASSUME x * (rI * 1000 + n * 997) <= n * 997 * rO
             PROVE  A * B >= rI * rO * 1000 * 1000
  BY DEF Enough, KeptProduct
<1> DEFINE a == rI * 1000 + n * 997
           d == rO - x
<1>1. a \in Nat /\ d \in Nat /\ a * d \in Nat /\ rO = d + x
  OBVIOUS
<1>2. a * (d * 1000) <= A * B
  BY <1>1, TimesBoth
<1>3. a * rO = a * d + a * x
  BY <1>1
<1>4. a * rO = rI * rO * 1000 + n * 997 * rO
  OBVIOUS
<1>5. a * x = x * a /\ a * x <= n * 997 * rO
  OBVIOUS
<1>6. rI * rO * 1000 <= a * d
  <2>1. rI * rO * 1000 \in Nat /\ n * 997 * rO \in Nat /\ a * x \in Nat
    BY <1>1
  <2> HIDE DEF a, d
  <2> QED
    BY <1>1, <1>3, <1>4, <1>5, <2>1
<1>7. a * (d * 1000) = (a * d) * 1000
  BY <1>1
<1> QED
  BY <1>1, <1>2, <1>6, <1>7

(* The other way, when nothing came in but n. *)
LEMMA ProductTight ==
  ASSUME NEW rI \in Nat, NEW rO \in Nat, NEW n \in Nat, NEW x \in Nat, x < rO,
         KeptProduct(rI, rO, rI * 1000 + n * 997, (rO - x) * 1000)
  PROVE  Enough(rI, rO, n, x)
<1>0. (rI * 1000 + n * 997) * ((rO - x) * 1000) >= rI * rO * 1000 * 1000
  BY DEF KeptProduct
<1> DEFINE a == rI * 1000 + n * 997
           d == rO - x
<1>1. a \in Nat /\ d \in Nat /\ a * d \in Nat /\ rO = d + x /\ a * x \in Nat
  OBVIOUS
<1>2. a * rO = a * d + a * x
  BY <1>1
<1>3. a * rO = rI * rO * 1000 + n * 997 * rO
  OBVIOUS
<1>4. a * (d * 1000) = (a * d) * 1000
  BY <1>1
<1>5. rI * rO * 1000 \in Nat /\ n * 997 * rO \in Nat
  OBVIOUS
<1>6. rI * rO * 1000 <= a * d
  BY <1>0, <1>1, <1>4, <1>5
<1>7. a * x = x * a
  BY <1>1
<1> HIDE DEF a, d
<1>8. x * a <= n * 997 * rO
  BY <1>1, <1>2, <1>3, <1>5, <1>6, <1>7
<1> QED
  BY <1>8 DEF a, Enough

(* A pool is content with n in for x out, whatever came in besides. *)
LEMMA EndsWell ==
  ASSUME NEW q \in Pool, NEW s \in Sides, NEW o, o = Other(s),
         NEW n \in Nat, n > 0, NEW x \in Nat, x < q.r[o],
         q.b[s] >= q.r[s] + n, q.b[o] + x >= q.r[o], Fits(q),
         Enough(q.r[s], q.r[o], n, x),
         NEW t \in Nat, Stamp(t) >= q.last
  PROVE  SwapEnds(q, Out(o, x), t)
<1> DEFINE in == CameIn(q, Out(o, x))
           f == [y \in Sides |-> q.b[y] * 1000 - in[y] * 3]
<1>1. /\ o \in Sides /\ o # s
      /\ q.r[s] \in Nat /\ q.r[o] \in Nat /\ q.b[s] \in Nat /\ q.b[o] \in Nat
      /\ q.r \in [Sides -> Nat] /\ q.b \in [Sides -> Nat]
  BY SidesFacts, LpNat
<1>2. Out(o, x)[o] = x /\ Out(o, x)[s] = 0
  BY <1>1 DEF Out
<1>3. /\ in[s] = IF q.b[s] > q.r[s] - 0 THEN q.b[s] - (q.r[s] - 0) ELSE 0
      /\ in[o] = IF q.b[o] > q.r[o] - x THEN q.b[o] - (q.r[o] - x) ELSE 0
  BY <1>1, <1>2 DEF CameIn
<1>4. /\ in[s] \in Nat /\ in[s] >= n /\ q.b[s] = q.r[s] + in[s]
      /\ in[o] \in Nat /\ q.b[o] + x = q.r[o] + in[o]
  BY <1>1, <1>3
<1>5. f[s] = q.b[s] * 1000 - in[s] * 3 /\ f[o] = q.b[o] * 1000 - in[o] * 3
  BY <1>1
<1> HIDE DEF f
<1>6. /\ f[s] \in Nat /\ f[s] >= q.r[s] * 1000 + n * 997
      /\ f[o] \in Nat /\ f[o] >= (q.r[o] - x) * 1000
  <2> HIDE DEF in
  <2> QED
    BY <1>1, <1>4, <1>5
<1>7. KeptProduct(q.r[s], q.r[o], f[s], f[o])
  BY <1>1, <1>6, ProductKept
<1>8. K(f) = f[s] * f[o]
  <2>1. f \in [Sides -> Int]
    <3>1. \A y \in Sides : y = s \/ y = o
      BY DEF Sides, Other
    <3>2. \A y \in Sides : f[y] \in Int
      BY <1>6, <3>1
    <3> QED
      BY <3>2 DEF f
  <2> QED
    BY <2>1, KOfSides
<1>9. K(q.r) = q.r[s] * q.r[o]
  BY <1>1, KOfSides
<1>10. KeepsK(q, in)
  BY <1>7, <1>8, <1>9 DEF KeepsK, KeptProduct, f
<1>11. UpdateAllowed(q, t)
  BY DEF UpdateAllowed, Fits
<1>12. in[s] > 0
  <2> HIDE DEF in
  <2> QED
    BY <1>4
<1> QED
  BY <1>10, <1>11, <1>12 DEF SwapEnds

(* What a pool is paid and asked for in one go. *)
LEMMA QuoteAccepted ==
  ASSUME NEW p \in Pool, NEW s \in Sides, NEW o, o = Other(s),
         NEW n \in Nat, n > 0, NEW x \in Nat, x > 0, x < p.r[o], Funded(p.r),
         p.b[s] >= p.r[s], p.b[o] >= p.r[o], p.b[s] + n <= MaxReserve, p.b[o] <= MaxReserve,
         Enough(p.r[s], p.r[o], n, x),
         NEW t \in Nat, Stamp(t) >= p.last
  PROVE  SwapAllowed(PayIn(p, s, n), Out(o, x), t)
<1> DEFINE m == PayIn(p, s, n)
           q == SentOut(m, Out(o, x))
<1>1. /\ o \in Sides /\ o # s /\ \A y \in Sides : y = s \/ y = o
      /\ p.r[s] \in Nat /\ p.r[o] \in Nat /\ p.b[s] \in Nat /\ p.b[o] \in Nat
      /\ p.r[s] > 0
  <2>1. \A y \in Sides : y = s \/ y = o
    BY DEF Sides, Other
  <2> QED
    BY <2>1, SidesFacts, LpNat DEF Funded
<1>2. /\ m \in Pool /\ SameBooks(p, m)
      /\ m.b[s] = p.b[s] + n /\ m.b[o] = p.b[o]
  <2>1. m = PayIn(p, s, n)
    OBVIOUS
  <2> HIDE DEF m
  <2>2. m.b[Other(s)] = p.b[Other(s)] /\ m.b[s] = p.b[s] + n /\ m \in Pool /\ SameBooks(p, m)
    BY <2>1, PayInFacts
  <2> QED
    BY <2>2
<1>3. Out(o, x)[o] = x /\ Out(o, x)[s] = 0
  BY <1>1 DEF Out
<1>4. SwapBegins(m, Out(o, x))
  BY <1>1, <1>2, <1>3 DEF SwapBegins, SameBooks
<1>5. q.b = [y \in Sides |-> m.b[y] - Out(o, x)[y]]
  BY <1>2 DEF SentOut, Pool
<1>6. q.b[s] = p.b[s] + n /\ q.b[o] = p.b[o] - x
  BY <1>1, <1>2, <1>3, <1>5
<1>7. q \in Pool /\ SameBooks(m, q)
  <2>1. q.b \in [Sides -> Nat]
    BY <1>1, <1>5, <1>6
  <2>2. q = [m EXCEPT !.b = q.b]
    BY <1>2, <1>5 DEF SentOut
  <2> HIDE DEF q
  <2> QED
    BY <1>2, <2>1, <2>2, BalancesFacts
<1> HIDE DEF q, m
<1>8. q.r = p.r /\ q.last = p.last
  BY <1>2, <1>7 DEF SameBooks
<1>9. Fits(q)
  BY <1>1, <1>6, PairAssumption DEF Fits
<1>10. SwapEnds(q, Out(o, x), t)
  BY <1>1, <1>6, <1>7, <1>8, <1>9, EndsWell
<1> QED
  BY <1>4, <1>10 DEF SwapAllowed, q, m

(* What the library asks to be paid for n. *)
LEMMA EnoughIn ==
  ASSUME NEW rI \in Nat, NEW rO \in Nat, NEW n \in Nat, n < rO, NEW in \in Nat
  PROVE  Enough(rI, rO, in, n) <=> rI * n * 1000 <= in * ((rO - n) * 997)
<1> DEFINE d == rO - n
<1>1. d \in Nat /\ rO = d + n
  OBVIOUS
<1>2. in * 997 * rO = in * (d * 997) + in * 997 * n
  <2> HIDE DEF d
  <2> QED
    BY <1>1
<1>3. n * (rI * 1000 + in * 997) = rI * n * 1000 + in * 997 * n
  OBVIOUS
<1>4. /\ rI * n * 1000 \in Nat /\ in * 997 * n \in Nat /\ in * (d * 997) \in Nat
  BY <1>1
<1> HIDE DEF d
<1>5. n * (rI * 1000 + in * 997) <= in * 997 * rO <=> rI * n * 1000 <= in * (d * 997)
  BY <1>2, <1>3, <1>4
<1> QED
  BY <1>5 DEF Enough, d

(* getAmountIn asks for enough, and by less than two too much. *)
LEMMA InIsLeast ==
  ASSUME NEW rI \in Nat, NEW rO \in Nat, NEW n \in Nat, n < rO,
         NEW in, in = getAmountIn(n, rI, rO)
  PROVE  /\ in \in Nat /\ in > 0 /\ Enough(rI, rO, in, n)
         /\ in > 2 => ~Enough(rI, rO, in - 2, n)
<1> DEFINE a == rI * n * 1000
           d == (rO - n) * 997
<1>1. in \in Nat /\ in > 0 /\ a < in * d /\ (in - 1) * d <= a
  BY AmountInFacts
<1>2. a \in Nat /\ d \in Nat /\ d > 0
  OBVIOUS
<1>3. \A k \in Nat : Enough(rI, rO, k, n) <=> a <= k * d
  BY EnoughIn
<1> HIDE DEF a, d
<1>4. Enough(rI, rO, in, n)
  <2>1. in * d \in Nat
    BY <1>1, <1>2
  <2> QED
    BY <1>1, <1>2, <1>3, <2>1
<1>5. ASSUME in > 2, Enough(rI, rO, in - 2, n) PROVE FALSE
  <2>1. in - 2 \in Nat
    BY <1>1, <1>5
  <2>2. a <= (in - 2) * d
    BY <1>3, <1>5, <2>1
  <2>3. (in - 1) * d = (in - 2) * d + d
    BY <1>1, <1>2
  <2>4. (in - 2) * d \in Nat
    BY <1>2, <2>1
  <2> QED
    BY <1>1, <1>2, <2>2, <2>3, <2>4
<1> QED
  BY <1>1, <1>4, <1>5

(* A pool that holds just its reserves takes no less than enough. *)
LEMMA QuoteTight ==
  ASSUME NEW p \in Pool, p.b = p.r, NEW s \in Sides, NEW o, o = Other(s),
         NEW n \in Nat, NEW x \in Nat, NEW t,
         SwapAllowed(PayIn(p, s, n), Out(o, x), t)
  PROVE  Enough(p.r[s], p.r[o], n, x)
<1> DEFINE m == PayIn(p, s, n)
           q == SentOut(m, Out(o, x))
           in == CameIn(q, Out(o, x))
           f == [y \in Sides |-> q.b[y] * 1000 - in[y] * 3]
<1>1. /\ o \in Sides /\ o # s /\ \A y \in Sides : y = s \/ y = o
      /\ p.r[s] \in Nat /\ p.r[o] \in Nat /\ p.r \in [Sides -> Nat]
  <2>1. \A y \in Sides : y = s \/ y = o
    BY DEF Sides, Other
  <2> QED
    BY <2>1, SidesFacts, LpNat
<1>2. /\ m \in Pool /\ SameBooks(p, m)
      /\ m.b[s] = p.r[s] + n /\ m.b[o] = p.r[o]
  <2>1. m = PayIn(p, s, n)
    OBVIOUS
  <2> HIDE DEF m
  <2>2. m.b[Other(s)] = p.b[Other(s)] /\ m.b[s] = p.b[s] + n /\ m \in Pool /\ SameBooks(p, m)
    BY <2>1, PayInFacts
  <2> QED
    BY <2>2
<1>3. Out(o, x)[o] = x /\ Out(o, x)[s] = 0
  BY <1>1 DEF Out
<1>4. SwapBegins(m, Out(o, x)) /\ SwapEnds(q, Out(o, x), t)
  BY DEF SwapAllowed
<1>5. x < p.r[o]
  BY <1>1, <1>2, <1>3, <1>4 DEF SwapBegins, SameBooks
<1>6. q.b = [y \in Sides |-> m.b[y] - Out(o, x)[y]] /\ q.r = m.r
  BY <1>2 DEF SentOut, Pool
<1>7. q.b[s] = p.r[s] + n /\ q.b[o] = p.r[o] - x /\ q.r = p.r
  BY <1>1, <1>2, <1>3, <1>6 DEF SameBooks
<1> HIDE DEF q, m
<1>8. in[s] = n /\ in[o] = 0
  <2>1. /\ in[s] = IF q.b[s] > q.r[s] - 0 THEN q.b[s] - (q.r[s] - 0) ELSE 0
        /\ in[o] = IF q.b[o] > q.r[o] - x THEN q.b[o] - (q.r[o] - x) ELSE 0
    BY <1>1, <1>3 DEF CameIn
  <2> QED
    BY <1>1, <1>5, <1>7, <2>1
<1>9. KeepsK(q, in)
  BY <1>4 DEF SwapEnds
<1> HIDE DEF in
<1>10. f[s] = p.r[s] * 1000 + n * 997 /\ f[o] = (p.r[o] - x) * 1000
  <2>1. f[s] = q.b[s] * 1000 - in[s] * 3 /\ f[o] = q.b[o] * 1000 - in[o] * 3
    BY <1>1
  <2> HIDE DEF f
  <2> QED
    BY <1>1, <1>5, <1>7, <1>8, <2>1
<1>11. f \in [Sides -> Int]
  <2>1. f[s] \in Int /\ f[o] \in Int
    BY <1>1, <1>5, <1>10
  <2>2. \A y \in Sides : f[y] \in Int
    BY <1>1, <2>1
  <2> QED
    BY <2>2
<1>12. K(f) >= K(q.r) * 1000 * 1000
  BY <1>9 DEF KeepsK
<1> HIDE DEF f
<1>13. K(f) = f[s] * f[o]
  BY <1>11, KOfSides
<1>14. K(q.r) = p.r[s] * p.r[o]
  <2>1. q.r \in [Sides -> Int]
    BY <1>1, <1>7
  <2> QED
    BY <1>7, <2>1, KOfSides
<1>15. KeptProduct(p.r[s], p.r[o], p.r[s] * 1000 + n * 997, (p.r[o] - x) * 1000)
  BY <1>10, <1>12, <1>13, <1>14 DEF KeptProduct
<1> QED
  BY <1>1, <1>5, <1>15, ProductTight

(* The pool that Accepts asks. *)
LEMMA AskedPool ==
  ASSUME NEW r \in [Sides -> Nat], NEW p, p = [EmptyPool EXCEPT !.r = r, !.b = r]
  PROVE  p \in Pool /\ p.r = r /\ p.b = r /\ p.last = 0
<1>1. EmptyPool \in Pool
  BY DEF EmptyPool, Pool
<1> QED
  BY <1>1 DEF Pool, EmptyPool

(* The library's quotes are those of the pool's product check; see         *)
(* QuotesAreTight in Amm.                                                  *)
THEOREM QuotesMatchTheCheck == Spec => []QuotesAreTight
<1>1. ASSUME AmmInv, NEW p \in Pools, NEW s \in Sides, NEW n \in Amounts, Funded(pools[p].r),
             NEW r, r = pools[p].r, NEW o, o = Other(s),
             NEW out, out = getAmountOut(n, r[s], r[o]),
             NEW in, in = getAmountIn(n, r[s], r[o])
      PROVE  /\ (out > 0 /\ r[s] + n <= MaxReserve) =>
                    Accepts(r, s, n, out) /\ ~Accepts(r, s, n, out + 1)
             /\ (n < r[o] /\ r[s] + in <= MaxReserve) =>
                    Accepts(r, s, in, n) /\ (in > 2 => ~Accepts(r, s, in - 2, n))
  <2> DEFINE m == [EmptyPool EXCEPT !.r = r, !.b = r]
  <2>1. pools[p] \in Pool /\ PoolOK(pools[p]) /\ now \in Nat
    BY <1>1, AheadFacts DEF AmmInv, WorldOK
  <2>2. /\ r \in [Sides -> Nat] /\ o \in Sides /\ n \in Nat /\ n > 0
        /\ r[s] \in Nat /\ r[o] \in Nat /\ r[s] > 0 /\ r[o] > 0 /\ r[o] <= MaxReserve
    BY <1>1, <2>1, LpNat, SidesFacts, AmountsPositive DEF PoolOK, Funded
  <2>3. m \in Pool /\ m.r = r /\ m.b = r /\ m.last = 0
    <3>1. m = [EmptyPool EXCEPT !.r = r, !.b = r]
      OBVIOUS
    <3> HIDE DEF m
    <3> QED
      BY <2>2, <3>1, AskedPool
  <2>4. \A k, x : Accepts(r, s, k, x) <=> SwapAllowed(PayIn(m, s, k), Out(o, x), now)
    BY <1>1 DEF Accepts
  <2> HIDE DEF m
  <2>5. Stamp(now) \in Nat /\ Stamp(now) >= m.last
    BY <2>1, <2>3, PairAssumption DEF Stamp
  <2>6. Funded(m.r)
    BY <1>1, <2>3
  <2>7. ASSUME NEW k \in Nat, k > 0, NEW x \in Nat, x > 0, x < r[o], r[s] + k <= MaxReserve,
               Enough(r[s], r[o], k, x)
        PROVE  Accepts(r, s, k, x)
    <3>1. m.r[s] = r[s] /\ m.r[o] = r[o] /\ m.b[s] = r[s] /\ m.b[o] = r[o]
      BY <2>3
    <3>2. m.b[s] >= m.r[s] /\ m.b[o] >= m.r[o]
      BY <2>2, <3>1
    <3>3. SwapAllowed(PayIn(m, s, k), Out(o, x), now)
      BY <1>1, <2>1, <2>2, <2>3, <2>5, <2>6, <2>7, <3>1, <3>2, QuoteAccepted
    <3> QED
      BY <2>4, <3>3
  <2>8. ASSUME NEW k \in Nat, NEW x \in Nat, Accepts(r, s, k, x)
        PROVE  Enough(r[s], r[o], k, x)
    BY <1>1, <2>3, <2>4, <2>8, QuoteTight
  <2>9. ASSUME out > 0, r[s] + n <= MaxReserve
        PROVE  Accepts(r, s, n, out) /\ ~Accepts(r, s, n, out + 1)
    <3>1. out \in Nat /\ out < r[o] /\ \A x \in Nat : x <= out <=> Enough(r[s], r[o], n, x)
      <4>1. n \in Nat /\ r[s] \in Nat /\ r[o] \in Nat
        BY <2>2
      <4>2. r[s] > 0 /\ r[o] > 0
        BY <2>2
      <4>3. out = getAmountOut(n, r[s], r[o])
        BY <1>1
      <4>4. out \in Nat /\ out < r[o]
        BY <4>1, <4>2, <4>3, OutIsLess
      <4>5. ASSUME NEW x \in Nat PROVE x <= out <=> Enough(r[s], r[o], n, x)
        BY <4>1, <4>2, <4>3, MostIsOut
      <4> QED
        BY <4>4, <4>5
    <3>2. Accepts(r, s, n, out)
      BY <2>2, <2>7, <2>9, <3>1
    <3>3. ~Accepts(r, s, n, out + 1)
      BY <2>2, <2>8, <3>1
    <3> QED
      BY <3>2, <3>3
  <2>10. ASSUME n < r[o], r[s] + in <= MaxReserve
         PROVE  Accepts(r, s, in, n) /\ (in > 2 => ~Accepts(r, s, in - 2, n))
    <3>1. /\ in \in Nat /\ in > 0 /\ Enough(r[s], r[o], in, n)
          /\ in > 2 => ~Enough(r[s], r[o], in - 2, n)
      BY <1>1, <2>2, <2>10, InIsLeast
    <3>2. Accepts(r, s, in, n)
      BY <2>2, <2>7, <2>10, <3>1
    <3>3. in > 2 => ~Accepts(r, s, in - 2, n)
      BY <2>2, <2>8, <3>1
    <3> QED
      BY <3>2, <3>3
  <2> QED
    BY <2>9, <2>10
<1>2. AmmInv => QuotesAreTight
  BY <1>1 DEF QuotesAreTight
<1> QED
  BY <1>2, WorldStaysSound, PTL

(***************************************************************************)
(* No pool was updated later than now, nor was one that a revert would     *)
(* restore: a timestamp taken never exceeds one taken later, up to where   *)
(* the 32 bits wrap (TimeAssumption).                                      *)
(***************************************************************************)

Timely ==
    /\ \A p \in Pools : pools[p].last <= now
    /\ flash.open => \A p \in Pools : flash.before.pools[p].last <= now

LEMMA StampIsNow ==
  ASSUME NEW t \in 0 .. MaxTime
  PROVE  Stamp(t) = t /\ t \in Nat
BY TimeAssumption, PairAssumption DEF Stamp

LEMMA TimelyStep ==
  ASSUME AmmInv, Timely, [Next]_vars
  PROVE  Timely'
<1>1. Stamp(now) = now /\ now \in Nat /\ pools \in [Pools -> Pool]
  BY StampIsNow, AheadFacts DEF AmmInv
<1>2. CASE CallShape
  <2>1. \A p \in Pools : pools'[p].last <= now
    BY <1>1, <1>2 DEF CallShape, Moves, Booked, Timely
  <2>2. flash'.open => flash.open /\ flash'.before = flash.before
    <3>1. CASE ~flash.open
      BY <1>2, <3>1 DEF CallShape, Count
    <3>2. CASE flash.open
      BY <1>2, <3>2 DEF CallShape, Count, AmmInv, InFlight, NoFlash
    <3> QED
      BY <3>1, <3>2
  <2> QED
    BY <1>2, <2>1, <2>2 DEF Timely, CallShape
<1>3. ASSUME NEW p \in Pools, NEW out \in Outs, FlashOpen(p, out) PROVE Timely'
  <2>1. /\ pools' = [pools EXCEPT ![p] = SentOut(pools[p], out)]
        /\ now' = now
        /\ flash' = [open |-> TRUE, pool |-> p, out |-> out, calls |-> 0, before |-> world]
    BY <1>3 DEF FlashOpen, others
  <2>2. SentOut(pools[p], out).last = pools[p].last
    BY <1>1 DEF SentOut, Pool
  <2>3. flash'.before.pools = pools
    BY <2>1 DEF world
  <2> QED
    BY <1>1, <2>1, <2>2, <2>3 DEF Timely
<1>4. CASE FlashClose
  <2>1. /\ pools' = [pools EXCEPT ![flash.pool] = Update(pools[flash.pool], now)]
        /\ now' = now /\ flash' = NoFlash
    BY <1>4 DEF FlashClose, others
  <2>2. flash.pool \in Pools => Update(pools[flash.pool], now).last = now
    BY <1>1 DEF Update, Pool
  <2> QED
    BY <1>1, <2>1, <2>2 DEF Timely, NoFlash
<1>5. CASE FlashRevert
  BY <1>5 DEF FlashRevert, Timely, NoFlash
<1>6. CASE Tick
  <2>1. /\ ~flash.open /\ flash' = flash /\ now' = now + 1 /\ pools' = pools
    BY <1>6 DEF Tick
  <2>2. \A p \in Pools : pools[p].last \in Nat
    BY <1>1, LpNat
  <2> QED
    BY <1>1, <2>1, <2>2 DEF Timely
<1>7. CASE UNCHANGED vars
  BY <1>7 DEF vars, Timely
<1> QED
  BY <1>2, <1>3, <1>4, <1>5, <1>6, <1>7, StepShape

LEMMA TimelyFirst ==
  ASSUME Init
  PROVE  Timely
<1>1. flash = NoFlash /\ now = 0
  BY DEF Init
<1>2. \A p \in Pools : pools[p].last = 0
  BY AmmAssumption, AtFirstOK DEF Init
<1> QED
  BY <1>1, <1>2 DEF Timely, NoFlash

(* No pool is ever ahead of the clock, nor one that a revert would bring   *)
(* back: the checked subtractions of timestamps do not fail for that.      *)
THEOREM TimeRunsOn == Spec => []Timely
<1>1. Init => Timely
  BY TimelyFirst
<1>2. AmmInv /\ Timely /\ [Next]_vars => Timely'
  BY TimelyStep
<1> QED
  BY <1>1, <1>2, WorldStaysSound, PTL DEF Spec

(***************************************************************************)
(* The profit that checkFlashSwapConditions announces.                     *)
(***************************************************************************)

(* What is enough for more is enough for less. *)
LEMMA EnoughForLess ==
  ASSUME NEW rI \in Nat, NEW rO \in Nat, NEW in \in Nat, NEW m \in Nat, NEW n \in Nat,
         n <= m, m < rO, Enough(rI, rO, in, m)
  PROVE  Enough(rI, rO, in, n)
<1>1. n * (rI * 1000 + in * 997) <= m * (rI * 1000 + in * 997)
  BY TimesMonotone
<1>2. /\ n * (rI * 1000 + in * 997) \in Nat /\ m * (rI * 1000 + in * 997) \in Nat
      /\ in * 997 * rO \in Nat
  OBVIOUS
<1> QED
  BY <1>1, <1>2 DEF Enough

(* The repayment is for more than was borrowed. *)
LEMMA RepaidMore ==
  ASSUME NEW n \in Nat
  PROVE  RepayAmount(n) \in Nat /\ RepayAmount(n) > n
BY DEF RepayAmount

LEMMA CheckedTrade ==
  ASSUME AmmInv, Timely, NEW s \in Sides, NEW n \in Amounts, NEW o, o = Other(s),
         Unlocked(PoolA), Unlocked(PoolB), CheckedProfit(pools, s, n) > 0,
         NEW sold, sold = AmountSold(pools, s, n),
         NEW back, back = AmountBack(pools, s, RepayAmount(n)),
         pools[PoolB].b[s] + n <= MaxReserve,
         pools[PoolA].b[o] + sold <= MaxReserve
  PROVE  /\ ExecuteAllowed(pools, held, s, n, now)
         /\ sold \in Nat /\ back \in Nat /\ CheckedProfit(pools, s, n) = sold - back
<1> DEFINE a == pools[PoolA]
           b == pools[PoolB]
<1>1. /\ o \in Sides /\ o # s /\ \A y \in Sides : y = s \/ y = o
      /\ n \in Nat /\ n > 0 /\ now \in Nat
  <2>1. \A y \in Sides : y = s \/ y = o
    BY DEF Sides, Other
  <2> QED
    BY <2>1, SidesFacts, AmountsPositive, AheadFacts
<1>2. PoolA \in Pools /\ PoolB \in Pools /\ PoolA # PoolB
  BY FlashSwapAssumption
<1>3. ASSUME NEW p \in {PoolA, PoolB}
      PROVE  /\ pools[p] \in Pool /\ Fits(pools[p])
             /\ \A y \in Sides : /\ pools[p].r[y] \in Nat /\ pools[p].b[y] \in Nat
                                 /\ pools[p].b[y] >= pools[p].r[y]
             /\ Stamp(now) >= pools[p].last /\ pools[p].last \in Nat
  <2>1. pools[p] \in Pool /\ Covers(pools[p], Nothing) /\ Fits(pools[p])
    BY <1>2, AheadFacts DEF AmmInv, WorldOK, Idle
  <2>2. Stamp(now) >= pools[p].last
    BY <1>2, StampIsNow DEF Timely, AmmInv
  <2> QED
    BY <2>1, <2>2, CoversAll, LpNat
<1>4. /\ n <= a.r[s] /\ Funded(a.r) /\ Funded(b.r)
      /\ RepayAmount(n) < a.r[s] /\ sold > back
      /\ CheckedProfit(pools, s, n) = sold - back
  BY <1>1 DEF CheckedProfit, RepayAmount
<1>5. /\ a.r[s] > 0 /\ a.r[o] > 0 /\ b.r[s] > 0 /\ b.r[o] > 0
  BY <1>1, <1>4 DEF Funded
<1>6. RepayAmount(n) \in Nat /\ RepayAmount(n) > n
  BY <1>1, RepaidMore
<1>7. /\ sold = getAmountOut(n, b.r[s], b.r[o])
      /\ back = getAmountIn(RepayAmount(n), a.r[o], a.r[s])
  BY DEF AmountSold, AmountBack
<1>8. sold \in Nat /\ sold < b.r[o] /\ Enough(b.r[s], b.r[o], n, sold)
  <2>1. b.r[s] \in Nat /\ b.r[o] \in Nat
    BY <1>1, <1>3
  <2> HIDE DEF b
  <2>2. sold \in Nat /\ sold < b.r[o]
    <3>1. n \in Nat
      BY <1>1
    <3>2. b.r[s] > 0 /\ b.r[o] > 0
      BY <1>5
    <3>3. sold = getAmountOut(n, b.r[s], b.r[o])
      BY <1>7
    <3> QED
      BY <2>1, <3>1, <3>2, <3>3, OutIsLess
  <2>3. Enough(b.r[s], b.r[o], n, sold)
    BY <1>1, <1>5, <1>7, <2>1, <2>2, MostIsOut
  <2> QED
    BY <2>2, <2>3
<1>9. back \in Nat /\ back > 0 /\ Enough(a.r[o], a.r[s], back, n)
  <2>1. a.r[s] \in Nat /\ a.r[o] \in Nat
    BY <1>1, <1>3
  <2> HIDE DEF a
  <2>2. back \in Nat /\ back > 0 /\ Enough(a.r[o], a.r[s], back, RepayAmount(n))
    BY <1>4, <1>6, <1>7, <2>1, InIsLeast
  <2>3. n <= RepayAmount(n)
    BY <1>1, <1>6
  <2> QED
    BY <1>1, <1>4, <1>6, <2>1, <2>2, <2>3, EnoughForLess
<1> HIDE DEF a, b
<1>10. SwapAllowed(PayIn(b, s, n), Out(o, sold), now)
  <2>1. /\ b \in Pool /\ b.b[s] >= b.r[s] /\ b.b[o] >= b.r[o] /\ b.b[s] + n <= MaxReserve
        /\ b.b[o] <= MaxReserve /\ Stamp(now) >= b.last
    BY <1>1, <1>3 DEF b, Fits
  <2>2. sold > 0
    BY <1>4, <1>8, <1>9
  <2> QED
    BY <1>1, <1>4, <1>8, <2>1, <2>2, QuoteAccepted
<1>11. SwapBegins(a, Out(s, n))
  <2>1. n < a.r[s]
    BY <1>1, <1>3, <1>4, <1>6 DEF a
  <2>2. Out(s, n)[s] = n /\ Out(s, n)[o] = 0
    BY <1>1 DEF Out
  <2> QED
    BY <1>1, <1>5, <2>1, <2>2 DEF SwapBegins
<1>12. SwapEnds(PayIn(SentOut(a, Out(s, n)), o, back), Out(s, n), now)
  <2> DEFINE m == SentOut(a, Out(s, n))
             q == PayIn(m, o, back)
  <2>1. /\ a \in Pool /\ Fits(a) /\ Stamp(now) >= a.last
        /\ a.r[s] \in Nat /\ a.r[o] \in Nat /\ a.b[s] \in Nat /\ a.b[o] \in Nat
        /\ a.b[s] >= a.r[s] /\ a.b[o] >= a.r[o]
    BY <1>1, <1>3 DEF a
  <2>2. n < a.r[s]
    BY <1>1, <1>4, <1>6, <2>1
  <2>3. Out(s, n)[s] = n /\ Out(s, n)[o] = 0
    BY <1>1 DEF Out
  <2>4. m.b = [y \in Sides |-> a.b[y] - Out(s, n)[y]]
    BY <2>1 DEF SentOut, Pool
  <2>5. m.b[s] = a.b[s] - n /\ m.b[o] = a.b[o]
    BY <1>1, <2>1, <2>3, <2>4
  <2>6. m \in Pool /\ SameBooks(a, m)
    <3>1. m.b \in [Sides -> Nat]
      BY <1>1, <2>1, <2>2, <2>4, <2>5
    <3>2. m = [a EXCEPT !.b = m.b]
      BY <2>1, <2>4 DEF SentOut
    <3> HIDE DEF m
    <3> QED
      BY <2>1, <3>1, <3>2, BalancesFacts
  <2>7. q = PayIn(m, o, back)
    OBVIOUS
  <2> HIDE DEF m, q
  <2>8. q \in Pool /\ SameBooks(m, q) /\ q.b[o] = m.b[o] + back /\ q.b[Other(o)] = m.b[Other(o)]
    <3>1. o \in Sides /\ back \in Nat /\ m \in Pool
      BY <1>1, <1>9, <2>6
    <3> QED
      BY <2>7, <3>1, PayInFacts
  <2>9. Other(o) = s
    BY SidesFacts
  <2>10. q.b[o] = a.b[o] + back /\ q.b[s] = a.b[s] - n
    BY <2>5, <2>8, <2>9
  <2>11. q.r = a.r /\ q.last = a.last
    BY <2>6, <2>8 DEF SameBooks
  <2>12. Fits(q)
    <3>1. a.b[s] <= MaxReserve /\ a.b[o] + sold <= MaxReserve /\ MaxReserve \in Nat
      BY <2>1, PairAssumption DEF Fits, a
    <3>2. q.b[s] <= MaxReserve /\ q.b[o] <= MaxReserve
      BY <1>1, <1>4, <1>8, <1>9, <2>1, <2>10, <3>1
    <3> QED
      BY <1>1, <3>2 DEF Fits
  <2>13. q.b[o] >= q.r[o] + back /\ q.b[s] + n >= q.r[s]
    BY <1>1, <1>9, <2>1, <2>10, <2>11
  <2>14. SwapEnds(q, Out(s, n), now)
    <3>1. n < q.r[s] /\ Enough(q.r[o], q.r[s], back, n) /\ Stamp(now) >= q.last
      BY <1>9, <2>1, <2>2, <2>11
    <3>2. s = Other(o)
      BY <2>9
    <3> QED
      BY <1>1, <1>9, <2>8, <2>12, <2>13, <3>1, <3>2, EndsWell
  <2> QED
    BY <2>14 DEF q, m
<1>13. Repaid(pools, s, n, now)[PoolA] = PayIn(SentOut(a, Out(s, n)), o, back)
  <2>1. pools \in [Pools -> Pool]
    BY AheadFacts
  <2> QED
    BY <1>2, <2>1 DEF Repaid, Sold, a
<1>14. back <= held[o] + sold
  <2>1. held[o] \in Nat
    BY <1>1 DEF AmmInv
  <2> QED
    BY <1>4, <1>8, <1>9, <2>1
<1>15. ExecuteAllowed(pools, held, s, n, now)
  <2>1. pools[PoolA] = a /\ pools[PoolB] = b
    BY DEF a, b
  <2> QED
    BY <1>1, <1>4, <1>10, <1>11, <1>12, <1>13, <1>14, <2>1 DEF ExecuteAllowed
<1> QED
  BY <1>4, <1>8, <1>9, <1>15

(* A trade that the check announced goes through and brings just that; see *)
(* ProfitAsChecked in Amm.                                                 *)
THEOREM CheckIsHonest == Spec => []ProfitAsChecked
<1>1. ASSUME AmmInv, Timely, NEW s \in Sides, NEW n \in Amounts,
             Unlocked(PoolA), Unlocked(PoolB), CheckedProfit(pools, s, n) > 0,
             pools[PoolB].b[s] + n <= MaxReserve,
             pools[PoolA].b[Other(s)] + AmountSold(pools, s, n) <= MaxReserve
      PROVE  /\ ExecuteAllowed(pools, held, s, n, now)
             /\ OwnerGets(pools, held, s, n) =
                    [held EXCEPT ![Other(s)] = @ + CheckedProfit(pools, s, n)]
  <2> DEFINE sold == AmountSold(pools, s, n)
             back == AmountBack(pools, s, RepayAmount(n))
  <2>1. /\ ExecuteAllowed(pools, held, s, n, now)
        /\ sold \in Nat /\ back \in Nat /\ CheckedProfit(pools, s, n) = sold - back
    BY <1>1, CheckedTrade
  <2>2. OwnerGets(pools, held, s, n) = [held EXCEPT ![Other(s)] = @ + sold - back]
    BY DEF OwnerGets
  <2> HIDE DEF sold, back
  <2>3. held[Other(s)] \in Nat
    BY <1>1, SidesFacts DEF AmmInv
  <2>4. held[Other(s)] + sold - back = held[Other(s)] + (sold - back)
    BY <2>1, <2>3
  <2> QED
    BY <2>1, <2>2, <2>4
<1>2. AmmInv /\ Timely => ProfitAsChecked
  BY <1>1 DEF ProfitAsChecked
<1> QED
  BY <1>2, WorldStaysSound, TimeRunsOn, PTL

(***************************************************************************)
(* A quoted path.  When hop i is next, its pool has been paid the amount   *)
(* quoted and the pools behind it are as they were when it was quoted.     *)
(***************************************************************************)

Waiting(u, w, path, amounts, i) ==
    /\ u = [p \in Pools |-> u[p]]
    /\ u[PoolOf(path, i)] = PayIn(w[PoolOf(path, i)], In(path, i), amounts[i])
    /\ \A j \in Hops(path) : j > i => u[PoolOf(path, j)] = w[PoolOf(path, j)]

LEMMA HopsApart ==
  ASSUME NEW path, Once(path), NEW i \in Hops(path), NEW j \in Hops(path), i # j
  PROVE  PoolOf(path, i) # PoolOf(path, j)
BY DEF Once

LEMMA FirstWaits ==
  ASSUME NEW w \in [Pools -> Pool], NEW path, Len(path) \in Nat, 1 \in Hops(path), Once(path),
         \A i \in Hops(path) : PoolOf(path, i) \in Pools,
         NEW amounts, NEW u, u = PayFirst(w, path, amounts[1])
  PROVE  Waiting(u, w, path, amounts, 1)
<1> DEFINE q == PoolOf(path, 1)
           c == PayIn(w[q], In(path, 1), amounts[1])
<1>1. u = [w EXCEPT ![q] = c] /\ q \in Pools
  BY DEF PayFirst
<1> HIDE DEF c
<1>2. u = [p \in Pools |-> u[p]] /\ u[q] = c /\ \A p \in Pools : p # q => u[p] = w[p]
  BY <1>1
<1>3. ASSUME NEW j \in Hops(path), j > 1 PROVE u[PoolOf(path, j)] = w[PoolOf(path, j)]
  <2>1. PoolOf(path, j) # q
    BY <1>3, HopsApart
  <2> QED
    BY <1>2, <2>1
<1> QED
  BY <1>2, <1>3 DEF Waiting, c

LEMMA NextWaits ==
  ASSUME NEW w, NEW path, Len(path) \in Nat, Once(path),
         \A i \in Hops(path) : PoolOf(path, i) \in Pools,
         NEW i \in Hops(path), i + 1 \in Hops(path), NEW amounts, NEW t,
         NEW u, Waiting(u, w, path, amounts, i),
         NEW v, v = Hop(u, path, i, amounts[i + 1], t)
  PROVE  Waiting(v, w, path, amounts, i + 1)
<1> DEFINE q == PoolOf(path, i)
           n == PoolOf(path, i + 1)
           c == Swapped(u[q], Out(Other(In(path, i)), amounts[i + 1]), t)
           m == [u EXCEPT ![q] = c]
           d == PayIn(m[n], In(path, i + 1), amounts[i + 1])
<1>1. v = [m EXCEPT ![n] = d]
  BY DEF Hop
<1>2. q \in Pools /\ n \in Pools /\ q # n /\ i \in Nat
  <2>1. i \in Nat /\ i # i + 1
    BY DEF Hops
  <2> QED
    BY <2>1, HopsApart
<1>3. u = [p \in Pools |-> u[p]] /\ u[n] = w[n]
  <2>1. u = [p \in Pools |-> u[p]] /\ \A j \in Hops(path) : j > i => u[PoolOf(path, j)] = w[PoolOf(path, j)]
    BY Zenon DEF Waiting
  <2>2. i + 1 > i
    BY <1>2
  <2> QED
    BY <2>1, <2>2
<1> HIDE DEF c
<1>4. m = [p \in Pools |-> m[p]] /\ \A p \in Pools : p # q => m[p] = u[p]
  BY <1>2, <1>3
<1> HIDE DEF m
<1>5. d = PayIn(w[n], In(path, i + 1), amounts[i + 1])
  BY <1>2, <1>3, <1>4
<1> HIDE DEF d
<1>6. v = [p \in Pools |-> v[p]] /\ v[n] = d /\ \A p \in Pools : p # n => v[p] = m[p]
  BY <1>1, <1>2, <1>4
<1>7. ASSUME NEW j \in Hops(path), j > i + 1 PROVE v[PoolOf(path, j)] = w[PoolOf(path, j)]
  <2>1. j \in Nat /\ j # i /\ j # i + 1 /\ j > i
    BY <1>2, <1>7 DEF Hops
  <2>2. PoolOf(path, j) # q /\ PoolOf(path, j) # n /\ PoolOf(path, j) \in Pools
    BY <2>1, HopsApart
  <2>3. u[PoolOf(path, j)] = w[PoolOf(path, j)]
    BY <2>1 DEF Waiting
  <2> QED
    BY <1>4, <1>6, <2>2, <2>3
<1> QED
  BY <1>5, <1>6, <1>7 DEF Waiting

LEMMA EachWaits ==
  ASSUME NEW w \in [Pools -> Pool], NEW path, Len(path) \in Nat, Once(path),
         \A i \in Hops(path) : PoolOf(path, i) \in Pools, NEW amounts, NEW t,
         NEW f, f[0] = PayFirst(w, path, amounts[1]),
         \A i \in Hops(path) : f[i] = Hop(f[i - 1], path, i, amounts[i + 1], t)
  PROVE  \A i \in Hops(path) : Waiting(f[i - 1], w, path, amounts, i)
<1> DEFINE S == {i \in Hops(path) : ~ Waiting(f[i - 1], w, path, amounts, i)}
<1> SUFFICES ASSUME S # {} PROVE FALSE
  OBVIOUS
<1>1. PICK m \in S : \A i \in S : m <= i
  <2>1. S \in SUBSET Nat
    BY DEF Hops
  <2> HIDE DEF S
  <2> QED
    BY <2>1, LeastExists
<1>2. m \in Hops(path) /\ m \in Nat /\ m >= 1 /\ ~ Waiting(f[m - 1], w, path, amounts, m)
  BY <1>1 DEF Hops
<1>3. CASE m = 1
  BY <1>2, <1>3, FirstWaits
<1>4. CASE m # 1
  <2> DEFINE k == m - 1
  <2>1. k \in Hops(path) /\ k + 1 = m /\ k < m /\ k \in Nat
    BY <1>2, <1>4 DEF Hops
  <2> HIDE DEF k
  <2>2. Waiting(f[k - 1], w, path, amounts, k)
    <3>1. k \notin S
      <4> HIDE DEF S
      <4> QED
        BY <1>1, <1>2, <2>1
    <3> QED
      BY <2>1, <3>1
  <2>3. f[k] = Hop(f[k - 1], path, k, amounts[k + 1], t) /\ k + 1 \in Hops(path)
    BY <1>2, <2>1
  <2>4. Waiting(f[k], w, path, amounts, k + 1)
    BY <2>1, <2>2, <2>3, NextWaits
  <2>5. k = m - 1
    BY DEF k
  <2> QED
    BY <1>2, <2>1, <2>4, <2>5
<1> QED
  BY <1>3, <1>4

(* Each amount is enough for the next one, by the reserves at the start. *)
LEMMA QuotesAreEnough ==
  ASSUME AmmInv, NEW path \in Paths, Open(path), NEW n \in Amounts,
         NEW amounts, amounts \in {getAmountsOut(pools, n, path), getAmountsIn(pools, n, path)},
         Quoted(amounts), NEW i \in Hops(path)
  PROVE  /\ amounts[i] \in Nat /\ amounts[i + 1] \in Nat
         /\ amounts[i] > 0 /\ amounts[i + 1] > 0
         /\ amounts[i + 1] < ReserveOut(pools, path, i)
         /\ Enough(ReserveIn(pools, path, i), ReserveOut(pools, path, i), amounts[i], amounts[i + 1])
<1> DEFINE rI == ReserveIn(pools, path, i)
           rO == ReserveOut(pools, path, i)
<1>1. /\ Len(path) \in Nat /\ Len(path) > 0 /\ i \in 1 .. Len(path) /\ i + 1 \in 1 .. Len(path)
  BY AmmAssumption DEF Hops
<1>2. rI \in Nat /\ rO \in Nat /\ rI > 0 /\ rO > 0
  <2>1. PoolOf(path, i) \in Pools /\ pools \in [Pools -> Pool]
    BY OpenWalkable, PathInWorld, AheadFacts DEF Open
  <2>2. Funded(pools[PoolOf(path, i)].r)
    BY DEF Open, AllFunded
  <2> QED
    BY <2>1, <2>2, ReservesOfPath
<1>3. amounts[i] \in Nat /\ amounts[i + 1] \in Nat
  BY <1>1, QuotesAreNatural
<1> HIDE DEF rI, rO
<1>4. CASE amounts = getAmountsOut(pools, n, path)
  <2>1. DOMAIN amounts = 1 .. Len(path) /\ amounts[i + 1] = getAmountOut(amounts[i], rI, rO)
    BY <1>1, <1>4, AmountsOutDef DEF rI, rO
  <2>2. amounts[i] > 0 /\ amounts[i + 1] > 0
    BY <1>1, <2>1 DEF Quoted
  <2>3. amounts[i + 1] < rO
    BY <1>2, <1>3, <2>1, OutIsLess
  <2>4. Enough(rI, rO, amounts[i], amounts[i + 1])
    <3>1. amounts[i + 1] <= getAmountOut(amounts[i], rI, rO)
      BY <1>3, <2>1
    <3> QED
      BY <1>2, <1>3, <3>1, MostIsOut
  <2> QED
    BY <1>3, <2>2, <2>3, <2>4 DEF rI, rO
<1>5. CASE amounts = getAmountsIn(pools, n, path)
  <2>1. /\ DOMAIN amounts = 1 .. Len(path)
        /\ amounts[i] = IF amounts[i + 1] < rO THEN getAmountIn(amounts[i + 1], rI, rO) ELSE 0
    BY <1>1, <1>5, AmountsInDef DEF rI, rO
  <2>2. amounts[i] > 0 /\ amounts[i + 1] > 0
    BY <1>1, <2>1 DEF Quoted
  <2>3. amounts[i + 1] < rO /\ amounts[i] = getAmountIn(amounts[i + 1], rI, rO)
    BY <2>1, <2>2
  <2>4. Enough(rI, rO, amounts[i], amounts[i + 1])
    BY <1>2, <1>3, <2>3, InIsLeast
  <2> QED
    BY <1>3, <2>2, <2>3, <2>4 DEF rI, rO
<1> QED
  BY <1>4, <1>5

LEMMA QuotedPathGoes ==
  ASSUME AmmInv, Timely, NEW path \in Paths, Open(path), Once(path), NEW n \in Amounts,
         NEW amounts, amounts \in {getAmountsOut(pools, n, path), getAmountsIn(pools, n, path)},
         Quoted(amounts), Roomy(pools, amounts, path)
  PROVE  SwapAlongAllowed(PayFirst(pools, path, amounts[1]), amounts, path, now)
<1> DEFINE paid == PayFirst(pools, path, amounts[1])
           f == SwapAlong(paid, amounts, path, now)
<1>1. /\ Walkable(path, Ahead) /\ Len(path) >= 2
      /\ Len(path) \in Nat /\ \A i \in Hops(path) : PoolOf(path, i) \in Pools
  BY OpenWalkable, PathInWorld DEF Open
<1>2. f[0] = paid /\ \A i \in Hops(path) : f[i] = Hop(f[i - 1], path, i, amounts[i + 1], now)
  <2>1. f = SwapAlong(paid, amounts, path, now)
    OBVIOUS
  <2> HIDE DEF f, paid
  <2> QED
    BY <1>1, <2>1, SwapAlongDef
<1>3. pools \in [Pools -> Pool] /\ now \in Nat
  BY AheadFacts
<1> HIDE DEF f
<1>4. \A i \in Hops(path) : Waiting(f[i - 1], pools, path, amounts, i)
  BY <1>1, <1>2, <1>3, EachWaits
<1>5. ASSUME NEW i \in Hops(path)
      PROVE  HopAllowed(f[i - 1], path, i, amounts[i + 1], now)
  <2> DEFINE q == PoolOf(path, i)
             p == pools[q]
             s == In(path, i)
             o == Other(s)
  <2>1. /\ q \in Pools /\ p \in Pool /\ Covers(p, Nothing) /\ Fits(p) /\ Funded(p.r)
        /\ Stamp(now) >= p.last
    <3>1. Idle(Ahead, q)
      BY <1>1 DEF Walkable
    <3>2. Funded(p.r)
      BY DEF Open, AllFunded
    <3>3. now = Stamp(now)
      BY StampIsNow DEF AmmInv
    <3> QED
      BY <1>3, <3>1, <3>2, <3>3 DEF AmmInv, WorldOK, Idle, Timely
  <2>2. s \in Sides /\ o \in Sides
    BY InSide
  <2>3. /\ amounts[i] \in Nat /\ amounts[i + 1] \in Nat
        /\ amounts[i] > 0 /\ amounts[i + 1] > 0
        /\ amounts[i + 1] < p.r[o] /\ Enough(p.r[s], p.r[o], amounts[i], amounts[i + 1])
    BY QuotesAreEnough DEF ReserveIn, ReserveOut
  <2>4. p.b[s] + amounts[i] <= MaxReserve
    BY DEF Roomy
  <2>5. f[i - 1][q] = PayIn(p, s, amounts[i])
    BY <1>4 DEF Waiting
  <2> HIDE DEF p, s, q
  <2>6. p.b[s] >= p.r[s] /\ p.b[o] >= p.r[o] /\ p.b[o] <= MaxReserve
    BY <2>1, <2>2, CoversAll DEF Fits
  <2>7. SwapAllowed(PayIn(p, s, amounts[i]), Out(o, amounts[i + 1]), now)
    <3> HIDE DEF o
    <3>1. o = Other(s)
      BY DEF o
    <3> QED
      BY <1>3, <2>1, <2>2, <2>3, <2>4, <2>6, <3>1, QuoteAccepted
  <2> QED
    BY <2>5, <2>7 DEF HopAllowed, q, s, o
<1> QED
  BY <1>5 DEF SwapAlongAllowed, f

(* A quoted path goes through, and liquidity takes no more than is         *)
(* offered; see RouterQuotesHold in Amm.                                   *)
THEOREM RouterKeepsItsWord == Spec => []RouterQuotesHold
<1>1. ASSUME AmmInv, NEW p \in RouterPools, NEW s \in Sides, NEW d \in [Sides -> Amounts],
             Funded(pools[p].r), NEW a, a = OptimalAmounts(pools[p].r, d, s)
      PROVE  a[0] <= d[0] /\ a[1] <= d[1]
  <2>1. pools[p].r \in [Sides -> Nat] /\ d \in [Sides -> Nat]
    <3>1. pools[p] \in Pool
      BY <1>1, RouterAssumption, AheadFacts
    <3> QED
      BY <3>1, LpNat, AmountsPositive
  <2>2. \A x \in Sides : a[x] <= d[x]
    BY <1>1, <2>1, OptimalFacts
  <2> QED
    BY <2>2, SidesFacts
<1>2. AmmInv /\ Timely => RouterQuotesHold
  BY <1>1, QuotedPathGoes DEF RouterQuotesHold
<1> QED
  BY <1>2, WorldStaysSound, TimeRunsOn, PTL

(***************************************************************************)
(* The oracle.  T sums the prices of the seconds past; ps are the prices   *)
(* of the first n seconds.  The accumulators of a pool, brought to any     *)
(* second since its last update, are those sums, and the oracle keeps one  *)
(* of them.                                                                *)
(***************************************************************************)

PriceOf(r, s) == IF Funded(r) THEN PriceAt(r, s) ELSE 0

SumsUp(T, ps, n) ==
    /\ T \in [0 .. n -> [Sides -> Nat]]
    /\ \A t \in 0 .. n - 1, s \in Sides : T[t + 1][s] = T[t][s] + ps[t + 1][s]

Accounts(T, p, n) ==
    /\ p.last \in 0 .. n
    /\ \A t \in p.last .. n, s \in Sides :
        T[t][s] = p.cum[s] + PriceOf(p.r, s) * (t - p.last)

Between(o, ps) ==
    \A s \in Sides : \E t, u \in o.window :
        ps[t + 1][s] <= o.state.avg[s] /\ o.state.avg[s] <= ps[u + 1][s]

Measured(T, o, ps, n) ==
    \/ o = NoOracle
    \/ /\ o = [deployed |-> TRUE, window |-> o.window, own |-> o.own,
               state |-> [cum |-> o.state.cum, last |-> o.state.last, avg |-> o.state.avg]]
       /\ o.own \in BOOLEAN
       /\ o.state.last \in 0 .. n
       /\ \A s \in Sides : o.state.cum[s] = T[o.state.last][s]
       /\ o.own => o.window \subseteq 0 .. n - 1 /\ Between(o, ps)

Recorded(T) ==
    /\ SumsUp(T, prices, now)
    /\ Accounts(T, pools[OraclePool], now) /\ Measured(T, oracle, prices, now)
    /\ flash.open => /\ Accounts(T, flash.before.pools[OraclePool], now)
                     /\ Measured(T, flash.before.oracle, prices, now)

OracleInv ==
    /\ prices \in Seq([Sides -> Nat]) /\ Len(prices) = now
    /\ \E T : Recorded(T)

LEMMA PriceOfNat ==
  ASSUME NEW r \in [Sides -> Nat], NEW s \in Sides
  PROVE  PriceOf(r, s) \in Nat
BY PriceNat DEF PriceOf

(* The accumulators, brought to now, are the sum. *)
LEMMA AccruedIsSum ==
  ASSUME NEW p \in Pool, NEW n \in Nat, Stamp(n) = n, NEW T, Accounts(T, p, n), NEW s \in Sides
  PROVE  Accrued(p, n)[s] = T[n][s]
<1> DEFINE k == n - p.last
<1>1. p.last \in 0 .. n /\ T[n][s] = p.cum[s] + PriceOf(p.r, s) * k /\ k \in Nat
  <2>1. p.last \in 0 .. n /\ n \in p.last .. n
    BY DEF Accounts
  <2>2. T[n][s] = p.cum[s] + PriceOf(p.r, s) * k
    BY <2>1 DEF Accounts
  <2> QED
    BY <2>1, <2>2
<1>2. Accrued(p, n)[s] = IF k > 0 /\ Funded(p.r) THEN p.cum[s] + PriceAt(p.r, s) * k ELSE p.cum[s]
  BY DEF Accrued
<1>3. p.cum[s] \in Nat /\ PriceOf(p.r, s) \in Nat
  BY LpNat, PriceOfNat
<1> HIDE DEF k
<1>4. CASE k = 0 \/ ~Funded(p.r)
  <2>1. PriceOf(p.r, s) * k = 0
    BY <1>1, <1>3, <1>4 DEF PriceOf
  <2> QED
    BY <1>1, <1>2, <1>3, <1>4, <2>1
<1>5. CASE k # 0 /\ Funded(p.r)
  <2>1. PriceOf(p.r, s) = PriceAt(p.r, s) /\ k > 0
    BY <1>1, <1>5 DEF PriceOf
  <2> QED
    BY <1>1, <1>2, <1>5, <2>1
<1> QED
  BY <1>4, <1>5

(* A pool that books what it does stays on the account. *)
LEMMA AccountsBooked ==
  ASSUME NEW a \in Pool, NEW c \in Pool, NEW n \in Nat, Stamp(n) = n, Booked(a, c, n),
         NEW T, Accounts(T, a, n)
  PROVE  Accounts(T, c, n)
<1>1. CASE c.r = a.r /\ c.cum = a.cum /\ c.last = a.last
  BY <1>1 DEF Accounts
<1>2. CASE c.cum = Accrued(a, n) /\ c.last = n
  <2>1. ASSUME NEW t \in c.last .. n, NEW s \in Sides
        PROVE  T[t][s] = c.cum[s] + PriceOf(c.r, s) * (t - c.last)
    <3>1. t = n /\ t - c.last = 0
      BY <1>2
    <3>2. c.cum[s] = T[n][s]
      BY <1>2, AccruedIsSum
    <3>3. PriceOf(c.r, s) \in Nat /\ c.cum[s] \in Nat
      BY LpNat, PriceOfNat
    <3>4. PriceOf(c.r, s) * (t - c.last) = 0
      BY <3>1, <3>3
    <3> QED
      BY <3>1, <3>2, <3>3, <3>4
  <2> QED
    BY <1>2, <2>1 DEF Accounts
<1> QED
  BY <1>1, <1>2 DEF Booked

(* A second passes at the price of the pool. *)
LEMMA AccountsTick ==
  ASSUME NEW p \in Pool, NEW n \in Nat, NEW T, Accounts(T, p, n),
         NEW U, \A t \in 0 .. n : U[t] = T[t],
         \A s \in Sides : U[n + 1][s] = T[n][s] + PriceOf(p.r, s)
  PROVE  Accounts(U, p, n + 1)
<1>1. p.last \in 0 .. n /\ p.last \in Nat
  BY DEF Accounts
<1>2. ASSUME NEW t \in p.last .. n + 1, NEW s \in Sides
      PROVE  U[t][s] = p.cum[s] + PriceOf(p.r, s) * (t - p.last)
  <2>1. p.cum[s] \in Nat /\ PriceOf(p.r, s) \in Nat
    BY LpNat, PriceOfNat
  <2>2. CASE t \in p.last .. n
    BY <1>1, <2>2 DEF Accounts
  <2>3. CASE t = n + 1
    <3> DEFINE k == n - p.last
    <3>1. k \in Nat /\ t - p.last = k + 1
      BY <1>1, <2>3
    <3>2. T[n][s] = p.cum[s] + PriceOf(p.r, s) * k
      <4>1. n \in p.last .. n
        BY <1>1
      <4> QED
        BY <4>1 DEF Accounts
    <3> HIDE DEF k
    <3>3. PriceOf(p.r, s) * (k + 1) = PriceOf(p.r, s) * k + PriceOf(p.r, s)
      BY <2>1, <3>1
    <3>4. PriceOf(p.r, s) * k \in Nat
      BY <2>1, <3>1
    <3>5. U[t][s] = p.cum[s] + PriceOf(p.r, s) * k + PriceOf(p.r, s)
      BY <2>3, <3>2
    <3> QED
      BY <2>1, <3>1, <3>3, <3>4, <3>5
  <2> QED
    BY <1>1, <2>2, <2>3
<1> QED
  BY <1>1, <1>2 DEF Accounts

(* Prices at or above v add up to v a second, and so do prices below. *)
LEMMA SumAtLeast ==
  ASSUME NEW n \in Nat, NEW T, NEW ps, SumsUp(T, ps, n), NEW l \in 0 .. n, NEW s \in Sides,
         NEW v \in Nat, \A t \in l .. n - 1 : ps[t + 1][s] \in Nat /\ v <= ps[t + 1][s]
  PROVE  T[n][s] >= T[l][s] + v * (n - l)
<1> DEFINE B(k) == T[k][s] >= T[l][s] + v * (k - l)
           S == {k \in l .. n : ~B(k)}
<1>1. \A k \in 0 .. n : T[k][s] \in Nat
  BY DEF SumsUp
<1>2. S = {}
  <2> SUFFICES ASSUME S # {} PROVE FALSE
    OBVIOUS
  <2>1. PICK m \in S : \A k \in S : m <= k
    <3>1. S \in SUBSET Nat
      OBVIOUS
    <3> HIDE DEF S
    <3> QED
      BY <3>1, LeastExists
  <2>2. m \in l .. n /\ m \in Nat /\ ~B(m)
    OBVIOUS
  <2>3. m # l
    <3>1. ASSUME m = l PROVE B(m)
      <4>1. v * (m - l) = 0 /\ T[l][s] \in Nat
        BY <1>1, <2>2, <3>1
      <4> QED
        BY <3>1, <4>1
    <3> QED
      BY <2>2, <3>1
  <2> DEFINE k == m - 1
  <2>4. k \in l .. n /\ k \in l .. n - 1 /\ k \in 0 .. n - 1 /\ k < m /\ m = k + 1
    BY <2>2, <2>3
  <2>5. B(k)
    <3>1. k \notin S
      <4> HIDE DEF S, k
      <4>1. k \in Nat
        BY <2>4
      <4> QED
        BY <2>1, <2>2, <2>4, <4>1
    <3> QED
      BY <2>4, <3>1
  <2>6. T[m][s] = T[k][s] + ps[k + 1][s] /\ v <= ps[k + 1][s] /\ ps[k + 1][s] \in Nat
    BY <2>4 DEF SumsUp
  <2>7. v * (m - l) = v * (k - l) + v
    BY <2>4
  <2>8. T[k][s] \in Nat /\ T[l][s] \in Nat /\ v * (k - l) \in Nat
    BY <1>1, <2>4
  <2>9. T[k][s] >= T[l][s] + v * (k - l)
    BY <2>5
  <2> HIDE DEF k, S, B
  <2>10. T[m][s] >= T[l][s] + v * (m - l)
    BY <2>6, <2>7, <2>8, <2>9
  <2> QED
    BY <2>2, <2>10 DEF B
<1>3. n \in l .. n
  OBVIOUS
<1> QED
  BY <1>2, <1>3

LEMMA SumAtMost ==
  ASSUME NEW n \in Nat, NEW T, NEW ps, SumsUp(T, ps, n), NEW l \in 0 .. n, NEW s \in Sides,
         NEW v \in Nat, \A t \in l .. n - 1 : ps[t + 1][s] \in Nat /\ ps[t + 1][s] <= v
  PROVE  T[n][s] <= T[l][s] + v * (n - l)
<1> DEFINE B(k) == T[k][s] <= T[l][s] + v * (k - l)
           S == {k \in l .. n : ~B(k)}
<1>1. \A k \in 0 .. n : T[k][s] \in Nat
  BY DEF SumsUp
<1>2. S = {}
  <2> SUFFICES ASSUME S # {} PROVE FALSE
    OBVIOUS
  <2>1. PICK m \in S : \A k \in S : m <= k
    <3>1. S \in SUBSET Nat
      OBVIOUS
    <3> HIDE DEF S
    <3> QED
      BY <3>1, LeastExists
  <2>2. m \in l .. n /\ m \in Nat /\ ~B(m)
    OBVIOUS
  <2>3. m # l
    <3>1. ASSUME m = l PROVE B(m)
      <4>1. v * (m - l) = 0 /\ T[l][s] \in Nat
        BY <1>1, <2>2, <3>1
      <4> QED
        BY <3>1, <4>1
    <3> QED
      BY <2>2, <3>1
  <2> DEFINE k == m - 1
  <2>4. k \in l .. n /\ k \in l .. n - 1 /\ k \in 0 .. n - 1 /\ k < m /\ m = k + 1
    BY <2>2, <2>3
  <2>5. B(k)
    <3>1. k \notin S
      <4> HIDE DEF S, k
      <4>1. k \in Nat
        BY <2>4
      <4> QED
        BY <2>1, <2>2, <2>4, <4>1
    <3> QED
      BY <2>4, <3>1
  <2>6. T[m][s] = T[k][s] + ps[k + 1][s] /\ ps[k + 1][s] <= v /\ ps[k + 1][s] \in Nat
    BY <2>4 DEF SumsUp
  <2>7. v * (m - l) = v * (k - l) + v
    BY <2>4
  <2>8. T[k][s] \in Nat /\ T[l][s] \in Nat /\ v * (k - l) \in Nat
    BY <1>1, <2>4
  <2>9. T[k][s] <= T[l][s] + v * (k - l)
    BY <2>5
  <2> HIDE DEF k, S, B
  <2>10. T[m][s] <= T[l][s] + v * (m - l)
    BY <2>6, <2>7, <2>8, <2>9
  <2> QED
    BY <2>2, <2>10 DEF B
<1>3. n \in l .. n
  OBVIOUS
<1> QED
  BY <1>2, <1>3

(* The average of the prices of some seconds lies between two of them. *)
LEMMA AverageBetween ==
  ASSUME NEW n \in Nat, NEW T, NEW ps, SumsUp(T, ps, n), NEW l \in 0 .. n, l < n, NEW s \in Sides,
         \A t \in l .. n - 1 : ps[t + 1][s] \in Nat,
         NEW a, a = (T[n][s] - T[l][s]) \div (n - l)
  PROVE  \E t, u \in l .. n - 1 : ps[t + 1][s] <= a /\ a <= ps[u + 1][s]
<1> DEFINE d == n - l
           y == T[n][s] - T[l][s]
<1>1. T[n][s] \in Nat /\ T[l][s] \in Nat /\ d \in Nat /\ d > 0
  BY DEF SumsUp
<1>2. y \in Nat
  <2>1. T[n][s] >= T[l][s] + 0 * (n - l)
    BY SumAtLeast
  <2> QED
    BY <1>1, <2>1
<1>3. a \in Nat /\ a * d <= y /\ y < a * d + d
  <2>1. a = y \div d
    OBVIOUS
  <2> HIDE DEF y, d
  <2> QED
    BY <1>1, <1>2, <2>1, Floor
<1>4. a * d \in Nat
  BY <1>1, <1>3
<1>5. \E t \in l .. n - 1 : ps[t + 1][s] <= a
  <2> SUFFICES ASSUME \A t \in l .. n - 1 : ps[t + 1][s] \in Nat /\ a + 1 <= ps[t + 1][s] PROVE FALSE
    BY <1>3
  <2>1. a + 1 \in Nat
    BY <1>3
  <2>2. T[n][s] >= T[l][s] + (a + 1) * d
    BY <2>1, SumAtLeast
  <2>3. (a + 1) * d = a * d + d
    BY <1>1, <1>3
  <2>4. y >= a * d + d
    <3> HIDE DEF d
    <3> QED
      BY <1>1, <1>4, <2>2, <2>3
  <2> HIDE DEF y, d
  <2> QED
    BY <1>1, <1>2, <1>3, <1>4, <2>4
<1>6. \E u \in l .. n - 1 : a <= ps[u + 1][s]
  <2>1. CASE a = 0
    <3>1. l \in l .. n - 1
      OBVIOUS
    <3> QED
      BY <2>1, <3>1
  <2>2. CASE a # 0
    <3> DEFINE b == a - 1
    <3>1. b \in Nat /\ a = b + 1
      BY <1>3, <2>2
    <3> SUFFICES ASSUME \A t \in l .. n - 1 : ps[t + 1][s] \in Nat /\ ps[t + 1][s] <= b PROVE FALSE
      BY <1>3
    <3> HIDE DEF b
    <3>2. T[n][s] <= T[l][s] + b * d
      BY <3>1, SumAtMost
    <3>3. a * d = b * d + d /\ b * d \in Nat
      BY <1>1, <3>1
    <3>4. y <= b * d
      <4> HIDE DEF d
      <4> QED
        BY <1>1, <3>2, <3>3
    <3> HIDE DEF y, d
    <3> QED
      BY <1>1, <1>2, <1>3, <3>3, <3>4
  <2> QED
    BY <2>1, <2>2
<1> QED
  BY <1>5, <1>6

OracleStep ==
    \/ oracle' = oracle
    \/ DeployOracle \/ updateOracle \/ \E avg \in Averages : setPrice(avg)

LEMMA CallsLeaveOracle ==
  ASSUME PoolCall \/ RouterCall \/ setFeeTo
  PROVE  oracle' = oracle
<1>1. CASE PoolCall
  BY <1>1 DEF PoolCall, createPair, mint, burn, skim, sync, Pay, PayShares, swap, FlashOpen, others
<1>2. CASE RouterCall
  <2>1. \A p, s, d : Add(p, s, d) => oracle' = oracle
    BY DEF Add
  <2>2. \A p, n : removeLiquidity(p, n) => oracle' = oracle
    BY DEF removeLiquidity, others
  <2>3. \A amounts, path : Along(amounts, path) => oracle' = oracle
    BY DEF Along
  <2>4. \A n, path : swapExactTokensForTokens(n, path) \/ swapTokensForExactTokens(n, path)
                        => oracle' = oracle
    BY <2>3 DEF swapExactTokensForTokens, swapTokensForExactTokens
  <2>5. \A n, value, path : swapETHForExactTokens(n, value, path) => oracle' = oracle
    BY <2>3 DEF swapETHForExactTokens
  <2>6. \A n, path : swapExactTokensSupportingFee(n, path) => oracle' = oracle
    BY DEF swapExactTokensSupportingFee, others
  <2>7. \A p, token, value : addLiquidityETH(p, token, value) => oracle' = oracle
    BY <2>1 DEF addLiquidityETH
  <2> QED
    BY <1>2, <2>1, <2>2, <2>4, <2>5, <2>6, <2>7
    DEF RouterCall, addLiquidity, removeLiquidityETH, swapExactETHForTokens,
        swapExactTokensForETH, swapTokensForExactETH, swapExactETHSupportingFee,
        swapToETHSupportingFee
<1>3. CASE setFeeTo
  BY <1>3 DEF setFeeTo
<1> QED
  BY <1>1, <1>2, <1>3

LEMMA NextOracle ==
  ASSUME Next
  PROVE  OracleStep \/ FlashRevert
<1>1. ASSUME ClientCall PROVE OracleStep
  BY <1>1 DEF ClientCall, OracleStep, executeFlashSwap, SendToFlashSwap, emergencyWithdraw
<1>2. ASSUME FlashClose \/ Tick PROVE oracle' = oracle
  BY <1>2 DEF FlashClose, Tick, others
<1> QED
  BY <1>1, <1>2, CallsLeaveOracle DEF Next, OracleStep

(* The same as one fact about named ideas, for a use of it to match. *)
Priced(ps, l, n, s) == \A t \in l .. n - 1 : ps[t + 1][s] \in Nat
Amid(ps, l, n, s, a) == \E t, u \in l .. n - 1 : ps[t + 1][s] <= a /\ a <= ps[u + 1][s]
Mean(T, l, n, s) == (T[n][s] - T[l][s]) \div (n - l)

LEMMA MeanIsAmid ==
  ASSUME NEW n \in Nat, NEW T, NEW ps, SumsUp(T, ps, n), NEW l \in 0 .. n, l < n, NEW s \in Sides,
         Priced(ps, l, n, s)
  PROVE  Amid(ps, l, n, s, Mean(T, l, n, s))
<1>1. \A t \in l .. n - 1 : ps[t + 1][s] \in Nat
  BY DEF Priced
<1>2. PICK a : a = (T[n][s] - T[l][s]) \div (n - l)
  OBVIOUS
<1>3. \E t, u \in l .. n - 1 : ps[t + 1][s] <= a /\ a <= ps[u + 1][s]
  BY <1>1, <1>2, AverageBetween
<1> QED
  BY <1>2, <1>3 DEF Amid, Mean

LEMMA MeasuredStep ==
  ASSUME AmmInv, prices \in Seq([Sides -> Nat]), Len(prices) = now,
         NEW T, SumsUp(T, prices, now), Accounts(T, pools[OraclePool], now),
         Measured(T, oracle, prices, now), OracleStep
  PROVE  Measured(T, oracle', prices, now)
<1> DEFINE p == pools[OraclePool]
<1>1. p \in Pool /\ Stamp(now) = now /\ now \in Nat
  <2>1. Stamp(now) = now /\ now \in Nat
    BY StampIsNow DEF AmmInv
  <2>2. pools[OraclePool] \in Pool
    BY AheadFacts, AmmAssumption
  <2> QED
    BY <2>1, <2>2
<1>2. CASE oracle' = oracle
  BY <1>2
<1>3. CASE DeployOracle
  <2>1. oracle' = [deployed |-> TRUE, window |-> {}, own |-> FALSE,
                   state |-> [cum |-> p.cum, last |-> p.last, avg |-> [s \in Sides |-> 0]]]
    BY <1>3 DEF DeployOracle, FreshOracle, Deployed
  <2>2. p.last \in 0 .. now
    BY DEF Accounts
  <2>3. \A s \in Sides : p.cum[s] = T[p.last][s]
    <3> SUFFICES ASSUME NEW s \in Sides PROVE p.cum[s] = T[p.last][s]
      OBVIOUS
    <3>1. p.last \in p.last .. now
      BY <1>1, <2>2
    <3>2. T[p.last][s] = p.cum[s] + PriceOf(p.r, s) * (p.last - p.last)
      BY <3>1 DEF Accounts
    <3>3. PriceOf(p.r, s) \in Nat /\ p.cum[s] \in Nat /\ p.last \in Nat
      BY <1>1, LpNat, PriceOfNat
    <3>4. PriceOf(p.r, s) * (p.last - p.last) = 0
      BY <3>3
    <3> HIDE DEF p
    <3> QED
      BY <3>2, <3>3, <3>4
  <2> HIDE DEF p
  <2> QED
    BY <2>1, <2>2, <2>3 DEF Measured
<1>4. CASE updateOracle
  <2> DEFINE l == oracle.state.last
             w == UpdatedOracle(oracle.state, p, now)
  <2>1. /\ oracle.deployed /\ UpdateOracleAllowed(oracle.state, p, now)
        /\ oracle' = [deployed |-> TRUE, own |-> TRUE, state |-> w, window |-> l .. now - 1]
    BY <1>4 DEF updateOracle
  <2>2. l \in 0 .. now /\ \A s \in Sides : oracle.state.cum[s] = T[l][s]
    <3>1. oracle # NoOracle
      BY <2>1 DEF NoOracle
    <3> QED
      BY <3>1 DEF Measured
  <2>3. l < now
    BY <1>1, <2>1, <2>2, PeriodAssumption DEF UpdateOracleAllowed
  <2>4. w = [cum |-> Accrued(p, now), last |-> now,
             avg |-> [s \in Sides |-> (Accrued(p, now)[s] - oracle.state.cum[s]) \div (now - l)]]
    BY <1>1 DEF UpdatedOracle, CurrentCumulative
  <2>5. \A s \in Sides : Accrued(p, now)[s] = T[now][s]
    BY <1>1, AccruedIsSum
  <2> HIDE DEF l, w, p
  <2>6. /\ w.last = now /\ w.cum = Accrued(p, now)
        /\ \A s \in Sides : w.avg[s] = (T[now][s] - T[l][s]) \div (now - l)
        /\ w = [cum |-> w.cum, last |-> w.last, avg |-> w.avg]
    BY <2>2, <2>4, <2>5
  <2>7. ASSUME NEW s \in Sides
        PROVE  \E t, u \in l .. now - 1 : prices[t + 1][s] <= w.avg[s] /\ w.avg[s] <= prices[u + 1][s]
    <3>1. \A t \in l .. now - 1 : prices[t + 1][s] \in Nat
      <4> SUFFICES ASSUME NEW t \in l .. now - 1 PROVE prices[t + 1][s] \in Nat
        OBVIOUS
      <4>1. t + 1 \in 1 .. Len(prices)
        BY <1>1, <2>2
      <4>2. prices[t + 1] \in [Sides -> Nat]
        BY <4>1
      <4> QED
        BY <4>2
    <3>2. w.avg[s] = Mean(T, l, now, s)
      BY <2>6 DEF Mean
    <3>3. now \in Nat
      BY <1>1
    <3>4. l \in 0 .. now
      BY <2>2
    <3>5. SumsUp(T, prices, now)
      OBVIOUS
    <3>6. Priced(prices, l, now, s)
      BY <3>1 DEF Priced
    <3>7. Amid(prices, l, now, s, Mean(T, l, now, s))
      BY <2>3, <3>3, <3>4, <3>5, <3>6, MeanIsAmid
    <3> QED
      BY <3>2, <3>7 DEF Amid
  <2>8. /\ oracle'.state = w /\ oracle'.window = l .. now - 1 /\ oracle'.own = TRUE
        /\ oracle' = [deployed |-> TRUE, window |-> oracle'.window, own |-> oracle'.own,
                      state |-> [cum |-> oracle'.state.cum, last |-> oracle'.state.last,
                                 avg |-> oracle'.state.avg]]
    BY <2>1, <2>6
  <2>9. oracle'.window \subseteq 0 .. now - 1
    BY <1>1, <2>2, <2>8
  <2>10. Between(oracle', prices)
    BY <2>7, <2>8 DEF Between
  <2>11. \A s \in Sides : oracle'.state.cum[s] = T[now][s]
    BY <2>5, <2>6, <2>8
  <2>12. oracle'.state.last = now /\ now \in 0 .. now
    BY <1>1, <2>6, <2>8
  <2> QED
    BY <2>8, <2>9, <2>10, <2>11, <2>12 DEF Measured
<1>5. ASSUME NEW avg \in Averages, setPrice(avg) PROVE Measured(T, oracle', prices, now)
  <2>1. oracle # NoOracle
    BY <1>5 DEF setPrice, NoOracle
  <2>2. oracle = [deployed |-> TRUE, window |-> oracle.window, own |-> oracle.own,
                  state |-> [cum |-> oracle.state.cum, last |-> oracle.state.last,
                             avg |-> oracle.state.avg]]
        /\ oracle.state.last \in 0 .. now
        /\ \A s \in Sides : oracle.state.cum[s] = T[oracle.state.last][s]
    BY <2>1 DEF Measured
  <2>3. oracle' = [oracle EXCEPT !.state = PriceSet(@, avg), !.own = FALSE]
    BY <1>5 DEF setPrice
  <2>4. PriceSet(oracle.state, avg)
          = [cum |-> oracle.state.cum, last |-> oracle.state.last, avg |-> avg]
    BY <2>2 DEF PriceSet
  <2>5. oracle' = [deployed |-> TRUE, window |-> oracle.window, own |-> FALSE,
                   state |-> [cum |-> oracle.state.cum, last |-> oracle.state.last, avg |-> avg]]
    <3> DEFINE set == PriceSet(oracle.state, avg)
    <3>1. PICK o : o = oracle
      OBVIOUS
    <3>2. PICK W, O, S : o = [deployed |-> TRUE, window |-> W, own |-> O, state |-> S]
      BY <2>2, <3>1
    <3> HIDE DEF set
    <3>3. oracle' = [o EXCEPT !.state = set, !.own = FALSE]
      BY <2>3, <3>1 DEF set
    <3>4. oracle' = [deployed |-> TRUE, window |-> W, own |-> FALSE, state |-> set]
      BY <3>2, <3>3
    <3>5. oracle.window = W
      BY <3>1, <3>2
    <3> QED
      BY <2>4, <3>4, <3>5 DEF set
  <2>6. /\ oracle'.window = oracle.window /\ oracle'.own = FALSE
        /\ oracle'.state = [cum |-> oracle.state.cum, last |-> oracle.state.last, avg |-> avg]
        /\ oracle'.state.cum = oracle.state.cum /\ oracle'.state.last = oracle.state.last
        /\ oracle'.state.avg = avg
    BY <2>5
  <2> QED
    BY <2>2, <2>5, <2>6 DEF Measured
<1> QED
  BY <1>2, <1>3, <1>4, <1>5 DEF OracleStep

LEMMA OracleInvStep ==
  ASSUME AmmInv, AmmInv', OracleInv, [Next]_vars
  PROVE  OracleInv'
<1> DEFINE p == pools[OraclePool]
           q == pools'[OraclePool]
<1>1. /\ Stamp(now) = now /\ now \in Nat /\ OraclePool \in Pools
      /\ pools \in [Pools -> Pool] /\ pools' \in [Pools -> Pool] /\ p \in Pool /\ q \in Pool
  <2>1. Stamp(now) = now /\ now \in Nat
    BY StampIsNow DEF AmmInv
  <2>2. pools \in [Pools -> Pool] /\ pools' \in [Pools -> Pool]
    BY DEF AmmInv, WorldOK
  <2> QED
    BY <2>1, <2>2, AmmAssumption
<1>2. prices \in Seq([Sides -> Nat]) /\ Len(prices) = now
  BY DEF OracleInv
<1>3. PICK T : Recorded(T)
  BY DEF OracleInv
<1>4. SumsUp(T, prices, now) /\ Accounts(T, p, now) /\ Measured(T, oracle, prices, now)
  BY <1>3 DEF Recorded
<1>5. flash.open => /\ Accounts(T, flash.before.pools[OraclePool], now)
                    /\ Measured(T, flash.before.oracle, prices, now)
  BY <1>3 DEF Recorded
(* It is enough to keep the account where no second passes. *)
<1>6. ASSUME now' = now, prices' = prices, Accounts(T, q, now), Measured(T, oracle', prices, now),
             flash'.open => /\ Accounts(T, flash'.before.pools[OraclePool], now)
                            /\ Measured(T, flash'.before.oracle, prices, now)
      PROVE  OracleInv'
  <2>1. Recorded(T)'
    BY <1>4, <1>6 DEF Recorded
  <2> QED
    BY <1>2, <1>6, <2>1 DEF OracleInv
<1>7. CASE FlashRevert
  <2>1. /\ flash.open /\ flash' = NoFlash /\ pools' = flash.before.pools
        /\ oracle' = flash.before.oracle /\ now' = now /\ prices' = prices
    BY <1>7 DEF FlashRevert
  <2>2. ~flash'.open
    BY <2>1 DEF NoFlash
  <2> QED
    BY <1>5, <1>6, <2>1, <2>2
<1>8. ASSUME CallShape, OracleStep PROVE OracleInv'
  <2>1. now' = now /\ prices' = prices /\ Booked(p, q, now)
    BY <1>1, <1>8 DEF CallShape, Moves
  <2>2. Accounts(T, q, now)
    BY <1>1, <1>4, <2>1, AccountsBooked
  <2>3. Measured(T, oracle', prices, now)
    BY <1>2, <1>4, <1>8, MeasuredStep
  <2>4. flash'.open => flash.open /\ flash'.before = flash.before
    <3>1. CASE ~flash.open
      BY <1>8, <3>1 DEF CallShape, Count
    <3>2. CASE flash.open
      BY <1>8, <3>2 DEF CallShape, Count, AmmInv, InFlight, NoFlash
    <3> QED
      BY <3>1, <3>2
  <2> QED
    BY <1>5, <1>6, <2>1, <2>2, <2>3, <2>4
<1>9. ASSUME NEW o \in Pools, NEW out \in Outs, FlashOpen(o, out) PROVE OracleInv'
  <2>1. /\ pools' = [pools EXCEPT ![o] = SentOut(pools[o], out)]
        /\ now' = now /\ prices' = prices /\ oracle' = oracle
        /\ flash' = [open |-> TRUE, pool |-> o, out |-> out, calls |-> 0, before |-> world]
    BY <1>9 DEF FlashOpen, others
  <2>2. q.r = p.r /\ q.cum = p.cum /\ q.last = p.last
    BY <1>1, <2>1 DEF SentOut, Pool
  <2>3. Accounts(T, q, now)
    BY <1>4, <2>2 DEF Accounts
  <2>4. flash'.before.pools = pools /\ flash'.before.oracle = oracle
    BY <2>1 DEF world
  <2> QED
    BY <1>4, <1>6, <2>1, <2>3, <2>4
<1>10. CASE FlashClose
  <2>1. /\ flash.open /\ SwapEnds(pools[flash.pool], flash.out, now)
        /\ pools' = [pools EXCEPT ![flash.pool] = Update(pools[flash.pool], now)]
        /\ now' = now /\ prices' = prices /\ oracle' = oracle /\ flash' = NoFlash
    BY <1>10 DEF FlashClose, others
  <2>2. flash.pool \in Pools
    BY <2>1 DEF AmmInv, InFlight, NoFlash
  <2>3. Booked(p, q, now)
    <3>1. CASE flash.pool = OraclePool
      <4>1. UpdateAllowed(p, now)
        BY <2>1, <3>1 DEF SwapEnds
      <4>2. q = [p EXCEPT !.cum = Accrued(p, now), !.r = p.b, !.last = Stamp(now)]
        BY <1>1, <2>1, <3>1 DEF Update
      <4>3. q.cum = Accrued(p, now) /\ q.last = Stamp(now)
        BY <1>1, <4>2 DEF Pool
      <4> QED
        BY <4>1, <4>3 DEF Booked, UpdateAllowed
    <3>2. CASE flash.pool # OraclePool
      BY <1>1, <2>1, <3>2 DEF Booked
    <3> QED
      BY <3>1, <3>2
  <2>4. Accounts(T, q, now)
    BY <1>1, <1>4, <2>3, AccountsBooked
  <2>5. ~flash'.open
    BY <2>1 DEF NoFlash
  <2> QED
    BY <1>4, <1>6, <2>1, <2>4, <2>5
<1>11. CASE Tick
  <2> DEFINE price == [s \in Sides |-> PriceOf(p.r, s)]
  <2>0. PICK U : U = [t \in 0 .. now + 1 |->
                        IF t <= now THEN T[t] ELSE [s \in Sides |-> T[now][s] + price[s]]]
    OBVIOUS
  <2>1. /\ ~flash'.open /\ now' = now + 1 /\ prices' = Append(prices, price)
        /\ pools' = pools /\ oracle' = oracle
    BY <1>11 DEF Tick, PriceOf
  <2>2. price \in [Sides -> Nat] /\ \A s \in Sides : price[s] = PriceOf(p.r, s)
    BY <1>1, LpNat, PriceOfNat
  <2>3. T \in [0 .. now -> [Sides -> Nat]]
    BY <1>4 DEF SumsUp
  <2>4. /\ \A t \in 0 .. now : U[t] = T[t]
        /\ \A s \in Sides : U[now + 1][s] = T[now][s] + price[s]
        /\ U = [t \in 0 .. now + 1 |-> U[t]]
    BY <1>1, <2>0
  <2>5. now \in 0 .. now /\ now + 1 \in Nat
    BY <1>1
  <2>6. U[now + 1] \in [Sides -> Nat]
    <3>1. U[now + 1] = [s \in Sides |-> T[now][s] + price[s]]
      BY <1>1, <2>0
    <3>2. \A s \in Sides : T[now][s] + price[s] \in Nat
      BY <2>2, <2>3, <2>5
    <3> HIDE DEF price
    <3> QED
      BY <3>1, <3>2
  <2>7. /\ prices' \in Seq([Sides -> Nat]) /\ Len(prices') = now + 1
        /\ \A t \in 0 .. now - 1 : prices'[t + 1] = prices[t + 1]
        /\ prices'[now + 1] = price
    <3> HIDE DEF price
    <3> QED
      BY <1>1, <1>2, <2>1, <2>2
  <2> HIDE DEF price
  <2>8. SumsUp(U, prices', now + 1)
    <3>1. U \in [0 .. now + 1 -> [Sides -> Nat]]
      <4>1. \A t \in 0 .. now + 1 : U[t] \in [Sides -> Nat]
        <5> SUFFICES ASSUME NEW t \in 0 .. now + 1 PROVE U[t] \in [Sides -> Nat]
          OBVIOUS
        <5>1. CASE t \in 0 .. now
          BY <2>3, <2>4, <5>1
        <5>2. CASE t = now + 1
          BY <2>6, <5>2
        <5> QED
          BY <1>1, <5>1, <5>2
      <4> QED
        BY <2>4, <4>1
    <3>2. ASSUME NEW t \in 0 .. now, NEW s \in Sides
          PROVE  U[t + 1][s] = U[t][s] + prices'[t + 1][s]
      <4>1. CASE t = now
        BY <2>4, <2>5, <2>7, <4>1
      <4>2. CASE t # now
        <5>1. t \in 0 .. now - 1 /\ t + 1 \in 0 .. now
          BY <1>1, <4>2
        <5>2. T[t + 1][s] = T[t][s] + prices[t + 1][s]
          BY <1>4, <5>1 DEF SumsUp
        <5> QED
          BY <2>4, <2>7, <5>1, <5>2
      <4> QED
        BY <4>1, <4>2
    <3>3. PICK n, ps : n = now + 1 /\ ps = prices'
      OBVIOUS
    <3>4. \A t \in 0 .. n - 1, s \in Sides : U[t + 1][s] = U[t][s] + ps[t + 1][s]
      <4>1. 0 .. n - 1 = 0 .. now
        BY <1>1, <3>3
      <4> QED
        BY <3>2, <3>3, <4>1
    <3>5. SumsUp(U, ps, n)
      BY <3>1, <3>3, <3>4 DEF SumsUp
    <3> QED
      BY <3>3, <3>5
  <2>9. Accounts(U, p, now + 1)
    <3>1. \A s \in Sides : U[now + 1][s] = T[now][s] + PriceOf(p.r, s)
      BY <2>2, <2>4
    <3> QED
      BY <1>1, <1>4, <2>4, <3>1, AccountsTick
  <2>10. Measured(U, oracle, prices', now + 1)
    <3>1. CASE oracle = NoOracle
      BY <3>1 DEF Measured
    <3>2. CASE oracle # NoOracle
      <4>1. /\ oracle = [deployed |-> TRUE, window |-> oracle.window, own |-> oracle.own,
                         state |-> [cum |-> oracle.state.cum, last |-> oracle.state.last,
                                    avg |-> oracle.state.avg]]
            /\ oracle.own \in BOOLEAN
            /\ oracle.state.last \in 0 .. now
            /\ \A s \in Sides : oracle.state.cum[s] = T[oracle.state.last][s]
            /\ oracle.own => oracle.window \subseteq 0 .. now - 1 /\ Between(oracle, prices)
        BY <1>4, <3>2 DEF Measured
      <4>2. PICK n, ps : n = now + 1 /\ ps = prices'
        OBVIOUS
      <4>3. oracle.state.last \in 0 .. n
        BY <1>1, <4>1, <4>2
      <4>4. \A s \in Sides : oracle.state.cum[s] = U[oracle.state.last][s]
        BY <2>4, <4>1
      <4>5. ASSUME oracle.own PROVE oracle.window \subseteq 0 .. n - 1 /\ Between(oracle, ps)
        <5>1. oracle.window \subseteq 0 .. now - 1 /\ Between(oracle, prices)
          BY <4>1, <4>5
        <5>2. 0 .. now - 1 \subseteq 0 .. n - 1
          BY <1>1, <4>2
        <5>3. \A t \in oracle.window : ps[t + 1] = prices[t + 1]
          BY <2>7, <4>2, <5>1
        <5>4. Between(oracle, ps)
          BY <5>1, <5>3 DEF Between
        <5> QED
          BY <5>1, <5>2, <5>4
      <4>6. Measured(U, oracle, ps, n)
        BY <4>1, <4>3, <4>4, <4>5 DEF Measured
      <4> QED
        BY <4>2, <4>6
    <3> QED
      BY <3>1, <3>2
  <2>11. Recorded(U)'
    BY <2>1, <2>8, <2>9, <2>10 DEF Recorded
  <2> QED
    BY <2>1, <2>7, <2>11 DEF OracleInv
<1>12. CASE UNCHANGED vars
  <2>1. /\ now' = now /\ prices' = prices /\ pools' = pools /\ oracle' = oracle /\ flash' = flash
    BY <1>12 DEF vars
  <2> QED
    BY <1>4, <1>5, <1>6, <2>1
<1>13. Next => OracleInv'
  BY <1>7, <1>8, <1>9, <1>10, <1>11, StepShape, NextOracle
<1> QED
  BY <1>12, <1>13

(* Before the first second nothing has been summed. *)
LEMMA OracleInvFirst ==
  ASSUME Init
  PROVE  OracleInv
<1> DEFINE T == [t \in 0 .. 0 |-> Nothing]
           p == pools[OraclePool]
<1>1. flash = NoFlash /\ now = 0 /\ prices = << >> /\ pools \in InitPools
  BY DEF Init
<1>2. p \in Pool /\ p.last = 0 /\ p.cum = [s \in Sides |-> 0]
  BY <1>1, AmmAssumption, AtFirstOK
<1>3. prices \in Seq([Sides -> Nat]) /\ Len(prices) = 0
  BY <1>1
<1>4. T[0] = Nothing /\ \A s \in Sides : T[0][s] = 0
  BY DEF Nothing
<1>5. T \in [0 .. 0 -> [Sides -> Nat]]
  BY NothingType
<1> HIDE DEF T
<1>6. SumsUp(T, prices, now)
  BY <1>1, <1>5 DEF SumsUp
<1>7. Accounts(T, p, now)
  <2>1. ASSUME NEW t \in p.last .. now, NEW s \in Sides
        PROVE  T[t][s] = p.cum[s] + PriceOf(p.r, s) * (t - p.last)
    <3>1. t = 0 /\ p.cum[s] = 0 /\ t - p.last = 0
      BY <1>1, <1>2, <2>1
    <3>2. PriceOf(p.r, s) \in Nat
      BY <1>2, LpNat, PriceOfNat
    <3>3. PriceOf(p.r, s) * (t - p.last) = 0
      BY <3>1, <3>2
    <3> QED
      BY <1>4, <3>1, <3>3
  <2> QED
    BY <1>1, <1>2, <2>1 DEF Accounts
<1>8. Measured(T, oracle, prices, now)
  <2>1. CASE oracle = NoOracle
    BY <2>1 DEF Measured
  <2>2. CASE oracle = FreshOracle(p)
    <3>1. oracle = [deployed |-> TRUE, window |-> {}, own |-> FALSE,
                    state |-> [cum |-> p.cum, last |-> p.last, avg |-> Nothing]]
      BY <2>2 DEF FreshOracle, Deployed, Nothing
    <3>2. \A s \in Sides : p.cum[s] = T[p.last][s]
      BY <1>2, <1>4
    <3>3. p.last \in 0 .. now
      BY <1>1, <1>2
    <3> HIDE DEF p
    <3> QED
      BY <3>1, <3>2, <3>3 DEF Measured
  <2> QED
    BY <2>1, <2>2 DEF Init
<1>9. ~flash.open
  BY <1>1 DEF NoFlash
<1>10. Recorded(T)
  BY <1>6, <1>7, <1>8, <1>9 DEF Recorded
<1> QED
  BY <1>1, <1>3, <1>10 DEF OracleInv

(* The accumulators of the pool are the sums of the prices of its seconds, *)
(* through calls, callbacks and reverts, and what the oracle noted of them *)
(* is such a sum too.                                                      *)
THEOREM OracleRecords == Spec => []OracleInv
<1>1. Init => OracleInv
  BY OracleInvFirst
<1>2. AmmInv /\ AmmInv' /\ OracleInv /\ [Next]_vars => OracleInv'
  BY OracleInvStep
<1> QED
  BY <1>1, <1>2, WorldStaysSound, PTL DEF Spec

(* The averages the oracle computed lie between prices its pool had for a  *)
(* second or more of the time they are about; see AverageWithinWindow in   *)
(* Amm.                                                                    *)
THEOREM AveragesAreWithin == Spec => []AverageWithinWindow
<1>1. OracleInv => AverageWithinWindow
  <2> SUFFICES ASSUME OracleInv, oracle.deployed, oracle.own
               PROVE  Between(oracle, prices)
    BY DEF AverageWithinWindow, Between
  <2>1. PICK T : Recorded(T)
    BY DEF OracleInv
  <2>2. oracle # NoOracle
    BY DEF NoOracle
  <2> QED
    BY <2>1, <2>2 DEF Recorded, Measured
<1> QED
  BY <1>1, OracleRecords, PTL

=============================================================================
