---------------------------- MODULE LedgerLemmas ----------------------------
(***************************************************************************)
(* Lemmas the proofs share: least elements, what the sum of a mapping is   *)
(* after an update and how it bounds the entries of the mapping, and what  *)
(* a checkpoint array says of a block before and after a write.            *)
(***************************************************************************)
EXTENDS Sums, Checkpoints, FiniteSetTheorems, WellFoundedInduction, TLAPS

(* A nonempty set of natural numbers has a least element. *)
LEMMA LeastExists ==
  ASSUME NEW S \in SUBSET Nat, S # {}
  PROVE  \E s \in S : \A t \in S : s <= t
<1>1. PICK s \in S : \A t \in S : ~ (<<t, s>> \in OpToRel(<, Nat))
  BY NatLessThanWellFounded, WFMin
<1> SUFFICES ASSUME NEW t \in S PROVE s <= t
  OBVIOUS
<1>2. s \in Nat /\ t \in Nat /\ <<t, s>> \in Nat \X Nat
  OBVIOUS
<1>3. ~ (t < s)
  BY <1>1, <1>2 DEF OpToRel
<1> QED BY <1>2, <1>3

(* The coins of one holder are as many as its balance. *)
LEMMA CoinsOfCard ==
  ASSUME NEW u, NEW n \in Nat
  PROVE  IsFiniteSet(CoinsOf(u, n)) /\ Cardinality(CoinsOf(u, n)) = n
<1>1. IsFiniteSet({u}) /\ Cardinality({u}) = 1
  BY FS_Singleton
<1>2. IsFiniteSet(1..n) /\ Cardinality(1..n) = n
  BY FS_Interval
<1>3. IsFiniteSet({u} \X (1..n)) /\ Cardinality({u} \X (1..n)) = 1 * n
  BY <1>1, <1>2, FS_Product
<1> QED
  BY <1>3 DEF CoinsOf

(* A coin belongs to exactly the holders whose balance covers its number. *)
LEMMA CoinMember ==
  ASSUME NEW f, NEW c
  PROVE  c \in Coins(f) <=> \E u \in DOMAIN f : \E k \in 1..f[u] : c = <<u, k>>
BY DEF Coins, CoinsOf

(* The sum over a finite set of holders is a natural number. *)
LEMMA SumFinite ==
  ASSUME NEW D, IsFiniteSet(D), NEW f \in [D -> Nat]
  PROVE  IsFiniteSet(Coins(f)) /\ SumOf(f) \in Nat
<1> DEFINE img == {CoinsOf(u, f[u]) : u \in D}
           g   == [u \in D |-> CoinsOf(u, f[u])]
<1>1. g \in Surjection(D, img)
  BY DEF Surjection
<1>2. IsFiniteSet(img)
  BY <1>1, FS_Surjection
<1>3. \A T \in img : IsFiniteSet(T)
  BY CoinsOfCard
<1>4. IsFiniteSet(UNION img)
  BY <1>2, <1>3, FS_UNION
<1>5. IsFiniteSet(Coins(f))
  BY <1>4 DEF Coins
<1> QED
  BY <1>5, FS_CardinalityType DEF SumOf

(* Replacing one entry changes the sum by the difference. *)
LEMMA SumPut ==
  ASSUME NEW D, IsFiniteSet(D), NEW f \in [D -> Nat], NEW u \in D, NEW n \in Nat
  PROVE  SumOf([f EXCEPT ![u] = n]) = SumOf(f) - f[u] + n
<1> DEFINE g    == [f EXCEPT ![u] = n]
           Rest == Coins(f) \ CoinsOf(u, f[u])
<1>1. IsFiniteSet(Coins(f)) /\ SumOf(f) \in Nat
  BY SumFinite
<1>2. IsFiniteSet(CoinsOf(u, f[u])) /\ Cardinality(CoinsOf(u, f[u])) = f[u]
  BY CoinsOfCard
<1>3. IsFiniteSet(CoinsOf(u, n)) /\ Cardinality(CoinsOf(u, n)) = n
  BY CoinsOfCard
<1>4. Coins(f) \cap CoinsOf(u, f[u]) = CoinsOf(u, f[u])
  BY DEF Coins
<1>5. IsFiniteSet(Rest) /\ Cardinality(Rest) = SumOf(f) - f[u]
  BY <1>1, <1>2, <1>4, FS_Difference DEF SumOf
<1>6. Coins(g) = Rest \cup CoinsOf(u, n)
  <2>1. ASSUME NEW c, c \in Coins(g)
        PROVE  c \in Rest \cup CoinsOf(u, n)
    <3>0. DOMAIN g = D
      OBVIOUS
    <3>1. PICK w \in D : \E k \in 1..g[w] : c = <<w, k>>
      <4> HIDE DEF g
      <4> QED
        BY <2>1, <3>0, CoinMember
    <3>2. PICK k \in 1..g[w] : c = <<w, k>>
      BY <3>1
    <3>3. CASE w = u
      BY <3>2, <3>3 DEF CoinsOf
    <3>4. CASE w # u
      <4>1. c \in Coins(f)
        BY <3>2, <3>4, CoinMember
      <4>2. c \notin CoinsOf(u, f[u])
        BY <3>2, <3>4 DEF CoinsOf
      <4> QED
        BY <4>1, <4>2
    <3> QED
      BY <3>3, <3>4
  <2>2. ASSUME NEW c, c \in Rest
        PROVE  c \in Coins(g)
    <3>1. PICK w \in D : \E k \in 1..f[w] : c = <<w, k>>
      BY <2>2, CoinMember
    <3>2. PICK k \in 1..f[w] : c = <<w, k>>
      BY <3>1
    <3>3. w # u
      BY <2>2, <3>2 DEF CoinsOf
    <3> QED
      BY <3>2, <3>3, CoinMember
  <2>3. ASSUME NEW c, c \in CoinsOf(u, n)
        PROVE  c \in Coins(g)
    <3>1. PICK k \in 1..n : c = <<u, k>>
      BY <2>3 DEF CoinsOf
    <3> QED
      BY <3>1, CoinMember
  <2> QED
    BY <2>1, <2>2, <2>3
<1>7. Rest \cap CoinsOf(u, n) = {}
  <2> SUFFICES ASSUME NEW c, c \in Rest, c \in CoinsOf(u, n)
               PROVE  FALSE
    OBVIOUS
  <2>1. PICK k \in 1..n : c = <<u, k>>
    BY DEF CoinsOf
  <2>2. PICK w \in D : \E j \in 1..f[w] : c = <<w, j>>
    BY CoinMember
  <2>3. c \in CoinsOf(u, f[u])
    BY <2>1, <2>2 DEF CoinsOf
  <2> QED
    BY <2>3
<1>8. Cardinality(Coins(g)) = Cardinality(Rest) + n - 0
  <2>1. Cardinality(Rest \cup CoinsOf(u, n)) =
          Cardinality(Rest) + Cardinality(CoinsOf(u, n)) - Cardinality(Rest \cap CoinsOf(u, n))
    BY <1>3, <1>5, FS_Union
  <2>2. Cardinality(Rest \cap CoinsOf(u, n)) = 0
    BY <1>7, FS_EmptySet
  <2> HIDE DEF g, Rest
  <2> QED
    BY <1>3, <1>6, <2>1, <2>2
<1> QED
  BY <1>1, <1>5, <1>8 DEF SumOf

(* A mapping that is zero everywhere sums to zero, and only such a one. *)
LEMMA SumZero ==
  ASSUME NEW D, IsFiniteSet(D), NEW f \in [D -> Nat]
  PROVE  SumOf(f) = 0 <=> \A u \in D : f[u] = 0
<1>1. IsFiniteSet(Coins(f))
  BY SumFinite
<1>2. SumOf(f) = 0 <=> Coins(f) = {}
  BY <1>1, FS_EmptySet DEF SumOf
<1>3. ASSUME \A u \in D : f[u] = 0
      PROVE  Coins(f) = {}
  <2> SUFFICES ASSUME NEW c, c \in Coins(f)
               PROVE  FALSE
    OBVIOUS
  <2> QED
    BY <1>3, CoinMember
<1>4. ASSUME Coins(f) = {}, NEW u \in D, f[u] # 0
      PROVE  FALSE
  <2>1. 1 \in 1..f[u]
    BY <1>4
  <2>2. <<u, 1>> \in Coins(f)
    BY <2>1, CoinMember
  <2> QED
    BY <1>4, <2>2
<1> QED
  BY <1>2, <1>3, <1>4

(* A mapping that is nowhere larger sums to no more. *)
LEMMA SumMonotone ==
  ASSUME NEW D, IsFiniteSet(D), NEW f \in [D -> Nat], NEW g \in [D -> Nat],
         \A u \in D : f[u] <= g[u]
  PROVE  SumOf(f) <= SumOf(g)
<1>1. ASSUME NEW c, c \in Coins(f)
      PROVE  c \in Coins(g)
  <2>1. PICK w \in D : \E k \in 1..f[w] : c = <<w, k>>
    BY <1>1, CoinMember
  <2>2. PICK k \in 1..f[w] : c = <<w, k>>
    BY <2>1
  <2>3. f[w] \in Nat /\ g[w] \in Nat /\ f[w] <= g[w]
    OBVIOUS
  <2>4. k \in 1..g[w]
    BY <2>2, <2>3
  <2> QED
    BY <2>2, <2>4, CoinMember
<1>2. Coins(f) \in SUBSET Coins(g)
  BY <1>1
<1>3. IsFiniteSet(Coins(g))
  BY SumFinite
<1> QED
  BY <1>2, <1>3, FS_Subset DEF SumOf

(* One entry never exceeds the sum. *)
LEMMA SumMember ==
  ASSUME NEW D, IsFiniteSet(D), NEW f \in [D -> Nat], NEW u \in D
  PROVE  f[u] <= SumOf(f)
<1>1. SumOf([f EXCEPT ![u] = 0]) = SumOf(f) - f[u] + 0
  BY SumPut, 0 \in Nat
<1>2. [f EXCEPT ![u] = 0] \in [D -> Nat]
  OBVIOUS
<1>3. SumOf([f EXCEPT ![u] = 0]) \in Nat
  BY <1>2, SumFinite
<1>4. SumOf(f) \in Nat /\ f[u] \in Nat
  BY SumFinite
<1> QED
  BY <1>1, <1>3, <1>4

(* The same of two mappings that differ in one holder only. *)
LEMMA SumUpdate ==
  ASSUME NEW D, IsFiniteSet(D), NEW f \in [D -> Nat], NEW h \in [D -> Nat], NEW u \in D,
         \A w \in D : w # u => h[w] = f[w]
  PROVE  SumOf(h) = SumOf(f) - f[u] + h[u]
<1>1. h[u] \in Nat
  OBVIOUS
<1>2. h = [f EXCEPT ![u] = h[u]]
  OBVIOUS
<1>3. SumOf([f EXCEPT ![u] = h[u]]) = SumOf(f) - f[u] + h[u]
  BY <1>1, SumPut
<1> QED
  BY <1>2, <1>3

(* A mapping with one more holder. *)
LEMMA SumExtend ==
  ASSUME NEW D, IsFiniteSet(D), NEW f \in [D -> Nat], NEW E, NEW d \in E \ D,
         E = D \cup {d}, NEW h \in [E -> Nat], \A u \in D : h[u] = f[u]
  PROVE  SumOf(h) = SumOf(f) + h[d]
<1> DEFINE z == [h EXCEPT ![d] = 0]
<1>1. IsFiniteSet(E)
  BY FS_AddElement
<1>2. /\ z \in [E -> Nat] /\ z[d] = 0 /\ d \in E
      /\ \A u \in D : z[u] = f[u]
  OBVIOUS
<1>3. \A w \in E : w # d => h[w] = z[w]
  OBVIOUS
<1> HIDE DEF z
<1>4. Coins(z) = Coins(f)
  <2>1. DOMAIN z = E /\ DOMAIN f = D
    BY <1>2
  <2>2. \A u \in D : CoinsOf(u, z[u]) = CoinsOf(u, f[u])
    BY <1>2
  <2>3. CoinsOf(d, z[d]) = {}
    BY <1>2 DEF CoinsOf
  <2>4. \A c : c \in Coins(z) => c \in Coins(f)
    BY <2>1, <2>2, <2>3 DEF Coins
  <2>5. \A c : c \in Coins(f) => c \in Coins(z)
    BY <2>1, <2>2 DEF Coins
  <2> QED
    BY <2>4, <2>5
<1>5. SumOf(z) = SumOf(f) /\ SumOf(z) \in Nat
  BY <1>1, <1>2, <1>4, SumFinite DEF SumOf
<1>6. SumOf(h) = SumOf(z) - z[d] + h[d]
  <2> QED
    BY <1>1, <1>2, <1>3, SumUpdate
<1> QED
  BY <1>2, <1>5, <1>6

(* Moving units from one holder to another leaves the sum as it was. *)
LEMMA SumMove ==
  ASSUME NEW D, IsFiniteSet(D), NEW f \in [D -> Nat], NEW h \in [D -> Nat],
         NEW u \in D, NEW v \in D, u # v, h[u] + h[v] = f[u] + f[v],
         \A w \in D : w # u /\ w # v => h[w] = f[w]
  PROVE  SumOf(h) = SumOf(f)
<1> DEFINE g == [f EXCEPT ![u] = h[u]]
<1>1. g \in [D -> Nat] /\ g[v] = f[v] /\ g[u] = h[u] /\ h[u] \in Nat
  OBVIOUS
<1>3. \A w \in D : w # v => h[w] = g[w]
  OBVIOUS
<1>6. \A w \in D : w # u => g[w] = f[w]
  OBVIOUS
<1> HIDE DEF g
<1>2. SumOf(g) = SumOf(f) - f[u] + g[u]
  BY <1>1, <1>6, SumUpdate
<1>4. SumOf(h) = SumOf(g) - g[v] + h[v]
  BY <1>1, <1>3, SumUpdate
<1>5. SumOf(f) \in Nat /\ f[u] \in Nat /\ f[v] \in Nat /\ h[v] \in Nat
  BY SumFinite
<1> QED
  BY <1>1, <1>2, <1>4, <1>5

(* Two mappings that share no holder, both under a third, sum to no more   *)
(* than it does.                                                           *)
LEMMA SumDisjoint ==
  ASSUME NEW D, IsFiniteSet(D),
         NEW f \in [D -> Nat], NEW g \in [D -> Nat], NEW h \in [D -> Nat],
         \A u \in D : f[u] <= h[u] /\ g[u] <= h[u] /\ (f[u] = 0 \/ g[u] = 0)
  PROVE  SumOf(f) + SumOf(g) <= SumOf(h)
<1>1. IsFiniteSet(Coins(f)) /\ IsFiniteSet(Coins(g)) /\ IsFiniteSet(Coins(h))
  BY SumFinite
<1>2. SumOf(f) \in Nat /\ SumOf(g) \in Nat /\ SumOf(h) \in Nat
  BY SumFinite
<1>3. ASSUME NEW c, c \in Coins(f) \/ c \in Coins(g)
      PROVE  c \in Coins(h)
  <2>1. ASSUME NEW e \in [D -> Nat], \A u \in D : e[u] <= h[u], c \in Coins(e)
        PROVE  c \in Coins(h)
    <3>1. PICK w \in D : \E k \in 1..e[w] : c = <<w, k>>
      BY <2>1, CoinMember
    <3>2. PICK k \in 1..e[w] : c = <<w, k>>
      BY <3>1
    <3>3. e[w] \in Nat /\ h[w] \in Nat /\ e[w] <= h[w]
      BY <2>1
    <3>4. k \in 1..h[w]
      BY <3>2, <3>3
    <3> QED
      BY <3>2, <3>4, CoinMember
  <2> QED
    BY <1>3, <2>1
<1>4. Coins(f) \cap Coins(g) = {}
  <2> SUFFICES ASSUME NEW c, c \in Coins(f), c \in Coins(g)
               PROVE  FALSE
    OBVIOUS
  <2>1. PICK w \in D : \E k \in 1..f[w] : c = <<w, k>>
    BY CoinMember
  <2>2. PICK k \in 1..f[w] : c = <<w, k>>
    BY <2>1
  <2>3. PICK v \in D : \E j \in 1..g[v] : c = <<v, j>>
    BY CoinMember
  <2>4. PICK j \in 1..g[v] : c = <<v, j>>
    BY <2>3
  <2>5. v = w
    BY <2>2, <2>4
  <2>6. f[w] \in Nat /\ g[w] \in Nat /\ f[w] # 0 /\ g[w] # 0
    BY <2>2, <2>4, <2>5
  <2> QED
    BY <2>6
<1>5. /\ IsFiniteSet(Coins(f) \cup Coins(g))
      /\ Cardinality(Coins(f) \cup Coins(g)) =
           Cardinality(Coins(f)) + Cardinality(Coins(g)) - Cardinality(Coins(f) \cap Coins(g))
  BY <1>1, FS_Union
<1>6. Cardinality(Coins(f) \cap Coins(g)) = 0
  BY <1>4, FS_EmptySet
<1>7. Coins(f) \cup Coins(g) \in SUBSET Coins(h)
  BY <1>3
<1>8. Cardinality(Coins(f) \cup Coins(g)) <= Cardinality(Coins(h))
  BY <1>1, <1>7, FS_Subset
<1> QED
  BY <1>2, <1>5, <1>6, <1>8 DEF SumOf

-----------------------------------------------------------------------------

(* Division with truncation: what quotient and divisor say of the dividend. *)
LEMMA DivFacts ==
  ASSUME NEW x \in Nat, NEW d \in Nat \ {0}
  PROVE  /\ x \div d \in Nat
         /\ d * (x \div d) <= x
         /\ x < d * (x \div d) + d
OBVIOUS

(* A quotient is determined by what it leaves over. *)
LEMMA DivUnique ==
  ASSUME NEW q \in Nat, NEW r \in Nat, NEW d \in Nat \ {0}, r < d
  PROVE  (d * q + r) \div d = q
OBVIOUS

(* A larger dividend has no smaller quotient. *)
LEMMA DivMonotone ==
  ASSUME NEW x \in Nat, NEW y \in Nat, NEW d \in Nat \ {0}, x <= y
  PROVE  x \div d <= y \div d
<1> DEFINE q == x \div d
           r == y \div d
<1>1. q \in Nat /\ r \in Nat /\ d * q <= x /\ y < d * r + d
  BY DivFacts
<1> HIDE DEF q, r
<1>2. d * q < d * (r + 1)
  BY <1>1
<1>3. q < r + 1
  BY <1>1, <1>2
<1> QED
  BY <1>1, <1>3 DEF q, r

(* The sum of a sum of two mappings. *)
LEMMA SumAdd ==
  ASSUME NEW D, IsFiniteSet(D),
         NEW f \in [D -> Nat], NEW g \in [D -> Nat], NEW h \in [D -> Nat],
         \A u \in D : h[u] = f[u] + g[u]
  PROVE  SumOf(h) = SumOf(f) + SumOf(g)
<1> DEFINE Rest == Coins(h) \ Coins(f)
           shift == [c \in Coins(g) |-> <<c[1], f[c[1]] + c[2]>>]
<1>1. IsFiniteSet(Coins(f)) /\ IsFiniteSet(Coins(g)) /\ IsFiniteSet(Coins(h))
  BY SumFinite
<1>2. \A u \in D : f[u] \in Nat /\ g[u] \in Nat /\ h[u] \in Nat
  OBVIOUS
<1>3. ASSUME NEW c, c \in Coins(f)
      PROVE  c \in Coins(h)
  <2>1. PICK u \in D : \E k \in 1..f[u] : c = <<u, k>>
    BY <1>3, CoinMember
  <2>2. PICK k \in 1..f[u] : c = <<u, k>>
    BY <2>1
  <2>3. k \in 1..h[u]
    BY <1>2, <2>2
  <2> QED
    BY <2>2, <2>3, CoinMember
<1>4. ASSUME NEW c, c \in Coins(g)
      PROVE  /\ c[1] \in D /\ c[2] \in 1..g[c[1]] /\ c = <<c[1], c[2]>>
             /\ <<c[1], f[c[1]] + c[2]>> \in Rest
  <2>1. PICK u \in D : \E k \in 1..g[u] : c = <<u, k>>
    BY <1>4, CoinMember
  <2>2. PICK k \in 1..g[u] : c = <<u, k>>
    BY <2>1
  <2>3. f[u] + k \in 1..h[u] /\ f[u] + k \notin 1..f[u]
    BY <1>2, <2>2
  <2>4. <<u, f[u] + k>> \in Coins(h)
    BY <2>3, CoinMember
  <2>5. <<u, f[u] + k>> \notin Coins(f)
    <3> SUFFICES ASSUME <<u, f[u] + k>> \in Coins(f)
                 PROVE  FALSE
      OBVIOUS
    <3>1. PICK v \in D : \E j \in 1..f[v] : <<u, f[u] + k>> = <<v, j>>
      BY CoinMember
    <3> QED
      BY <2>3, <3>1
  <2> QED
    BY <2>2, <2>4, <2>5
<1>5. shift \in [Coins(g) -> Rest]
  BY <1>4
<1>6. ASSUME NEW c \in Coins(g), NEW e \in Coins(g), shift[c] = shift[e]
      PROVE  c = e
  <2>1. c[1] = e[1] /\ f[c[1]] + c[2] = f[e[1]] + e[2]
    BY <1>6
  <2>2. /\ c[1] \in D /\ c[2] \in 1..g[c[1]] /\ c = <<c[1], c[2]>>
        /\ e[1] \in D /\ e[2] \in 1..g[e[1]] /\ e = <<e[1], e[2]>>
    BY <1>4
  <2>3. f[c[1]] \in Nat /\ g[c[1]] \in Nat /\ g[e[1]] \in Nat
    BY <1>2, <2>2
  <2>4. c[2] \in Nat /\ e[2] \in Nat
    BY <2>2, <2>3
  <2>5. f[c[1]] + c[2] = f[c[1]] + e[2]
    BY <2>1
  <2>6. c[2] = e[2]
    <3> DEFINE x == c[2]
               y == e[2]
               z == f[c[1]]
    <3>1. x \in Nat /\ y \in Nat /\ z \in Nat /\ z + x = z + y
      BY <2>3, <2>4, <2>5
    <3> HIDE DEF x, y, z
    <3>2. x = y
      BY <3>1
    <3> QED
      BY <3>2 DEF x, y
  <2> QED
    BY <2>1, <2>2, <2>6
<1>7. ASSUME NEW t \in Rest
      PROVE  \E c \in Coins(g) : shift[c] = t
  <2>1. PICK u \in D : \E k \in 1..h[u] : t = <<u, k>>
    BY CoinMember
  <2>2. PICK k \in 1..h[u] : t = <<u, k>>
    BY <2>1
  <2>3. k \notin 1..f[u]
    BY <2>2, CoinMember
  <2>4. k - f[u] \in 1..g[u] /\ f[u] + (k - f[u]) = k
    BY <1>2, <2>2, <2>3
  <2>5. <<u, k - f[u]>> \in Coins(g)
    BY <2>4, CoinMember
  <2> QED
    BY <2>2, <2>4, <2>5
<1>8. ExistsBijection(Coins(g), Rest)
  <2> HIDE DEF shift, Rest
  <2>1. shift \in Injection(Coins(g), Rest)
    BY <1>5, <1>6 DEF Injection, IsInjective
  <2>2. shift \in Surjection(Coins(g), Rest)
    BY <1>5, <1>7 DEF Surjection
  <2> QED
    BY <2>1, <2>2 DEF ExistsBijection, Bijection
<1>9. IsFiniteSet(Rest) /\ Cardinality(Rest) = Cardinality(Coins(g))
  BY <1>1, <1>8, FS_Bijection
<1>10. /\ Cardinality(Coins(f) \cup Rest) =
            Cardinality(Coins(f)) + Cardinality(Rest) - Cardinality(Coins(f) \cap Rest)
  BY <1>1, <1>9, FS_Union
<1>11. Coins(f) \cup Rest = Coins(h) /\ Coins(f) \cap Rest = {}
  BY <1>3
<1>12. SumOf(f) \in Nat /\ SumOf(g) \in Nat /\ Cardinality(Coins(f) \cap Rest) = 0
  BY <1>11, SumFinite, FS_EmptySet
<1> QED
  <2>1. Cardinality(Coins(h)) = Cardinality(Coins(f)) + Cardinality(Rest) - 0
    BY <1>10, <1>11, <1>12
  <2>2. Cardinality(Coins(f)) \in Nat /\ Cardinality(Coins(g)) \in Nat
    BY <1>12 DEF SumOf
  <2> HIDE DEF Rest
  <2> QED
    BY <1>9, <2>1, <2>2 DEF SumOf

(* The sum of a mapping taken k times. *)
LEMMA SumScale ==
  ASSUME NEW D, IsFiniteSet(D), NEW f \in [D -> Nat], NEW k \in Nat \ {0},
         NEW h \in [D -> Nat], \A u \in D : h[u] = f[u] * k
  PROVE  SumOf(h) = SumOf(f) * k
<1> DEFINE Pairs == Coins(f) \X (1..k)
           place == [c \in Pairs |-> <<c[1][1], k * (c[1][2] - 1) + c[2]>>]
<1>1. IsFiniteSet(Coins(f))
  BY SumFinite
<1>2. IsFiniteSet(1..k) /\ Cardinality(1..k) = k
  BY FS_Interval
<1>3. IsFiniteSet(Pairs) /\ Cardinality(Pairs) = Cardinality(Coins(f)) * k
  BY <1>1, <1>2, FS_Product
<1>4. ASSUME NEW c \in Pairs
      PROVE  /\ c[1][1] \in D /\ c[1][2] \in 1..f[c[1][1]] /\ c[2] \in 1..k
             /\ c = <<<<c[1][1], c[1][2]>>, c[2]>>
             /\ <<c[1][1], k * (c[1][2] - 1) + c[2]>> \in Coins(h)
  <2>1. PICK u \in D : \E i \in 1..f[u] : c[1] = <<u, i>>
    BY CoinMember
  <2>2. PICK i \in 1..f[u] : c[1] = <<u, i>>
    BY <2>1
  <2>3. c[2] \in 1..k /\ c = <<c[1], c[2]>>
    OBVIOUS
  <2>4. f[u] \in Nat /\ h[u] = f[u] * k
    OBVIOUS
  <2>5. PICK rest \in Nat : f[u] = i + rest
    <3>1. f[u] - i \in Nat /\ f[u] = i + (f[u] - i)
      BY <2>2, <2>4
    <3> QED
      BY <3>1
  <2>6. k * (i - 1) + c[2] \in 1..h[u]
    <3>1. PICK j \in Nat : i = j + 1
      <4>1. i - 1 \in Nat /\ i = (i - 1) + 1
        BY <2>2, <2>4
      <4> QED
        BY <4>1
    <3>2. PICK m \in Nat : c[2] = m
      BY <2>3
    <3>3. h[u] = k * j + k + k * rest /\ k * (i - 1) = k * j
      BY <2>4, <2>5, <3>1
    <3>4. k * j \in Nat /\ k * rest \in Nat
      OBVIOUS
    <3> QED
      BY <2>3, <3>2, <3>3, <3>4
  <2> QED
    BY <2>2, <2>3, <2>6, CoinMember
<1>5. place \in [Pairs -> Coins(h)]
  BY <1>4
<1>6. ASSUME NEW c \in Pairs, NEW e \in Pairs, place[c] = place[e]
      PROVE  c = e
  <2>1. /\ c[1][1] = e[1][1]
        /\ k * (c[1][2] - 1) + c[2] = k * (e[1][2] - 1) + e[2]
    BY <1>6
  <2>2. /\ f[c[1][1]] \in Nat /\ f[e[1][1]] \in Nat
    BY <1>4
  <2>3. PICK i \in Nat, m \in Nat : c[1][2] = i + 1 /\ c[2] = m + 1 /\ m < k
    <3>1. c[1][2] \in 1..f[c[1][1]] /\ c[2] \in 1..k
      BY <1>4
    <3> DEFINE a == c[1][2]
               b == c[2]
    <3>2. a \in 1..f[c[1][1]] /\ b \in 1..k
      BY <3>1
    <3> HIDE DEF a, b
    <3>3. a - 1 \in Nat /\ a = (a - 1) + 1 /\ b - 1 \in Nat /\ b = (b - 1) + 1 /\ b - 1 < k
      BY <2>2, <3>2
    <3>4. PICK p \in Nat, q \in Nat : a = p + 1 /\ b = q + 1 /\ q < k
      BY <3>3
    <3> QED
      BY <3>4 DEF a, b
  <2>4. PICK j \in Nat, n \in Nat : e[1][2] = j + 1 /\ e[2] = n + 1 /\ n < k
    <3>1. e[1][2] \in 1..f[e[1][1]] /\ e[2] \in 1..k
      BY <1>4
    <3> DEFINE a == e[1][2]
               b == e[2]
    <3>2. a \in 1..f[e[1][1]] /\ b \in 1..k
      BY <3>1
    <3> HIDE DEF a, b
    <3>3. a - 1 \in Nat /\ a = (a - 1) + 1 /\ b - 1 \in Nat /\ b = (b - 1) + 1 /\ b - 1 < k
      BY <2>2, <3>2
    <3>4. PICK p \in Nat, q \in Nat : a = p + 1 /\ b = q + 1 /\ q < k
      BY <3>3
    <3> QED
      BY <3>4 DEF a, b
  <2>5. k * i + m = k * j + n
    BY <2>1, <2>3, <2>4
  <2>6. i = j
    <3>1. (k * i + m) \div k = i
      BY <2>3, DivUnique
    <3>2. (k * j + n) \div k = j
      BY <2>4, DivUnique
    <3> QED
      BY <2>5, <3>1, <3>2
  <2>7. m = n
    <3>1. k * i \in Nat
      OBVIOUS
    <3> QED
      BY <2>5, <2>6, <3>1
  <2> QED
    BY <1>4, <2>1, <2>3, <2>4, <2>6, <2>7
<1>7. ASSUME NEW t \in Coins(h)
      PROVE  \E c \in Pairs : place[c] = t
  <2>1. PICK u \in D : \E n \in 1..h[u] : t = <<u, n>>
    BY CoinMember
  <2>2. PICK n \in 1..h[u] : t = <<u, n>>
    BY <2>1
  <2>3. PICK x \in Nat : n = x + 1
    <3>1. n - 1 \in Nat /\ n = (n - 1) + 1
      BY <2>2
    <3> QED
      BY <3>1
  <2> DEFINE q == x \div k
  <2>4. q \in Nat /\ k * q <= x /\ x < k * q + k
    BY DivFacts
  <2>5. f[u] \in Nat /\ h[u] = f[u] * k /\ x < f[u] * k
    BY <2>2, <2>3
  <2> HIDE DEF q
  <2>6. PICK m \in Nat : x = k * q + m /\ m < k
    <3>1. k * q \in Nat
      BY <2>4
    <3>2. x - k * q \in Nat /\ x = k * q + (x - k * q) /\ x - k * q < k
      BY <2>4, <3>1
    <3> QED
      BY <3>2
  <2>7. q < f[u]
    <3>1. k * q < k * f[u]
      BY <2>4, <2>5
    <3> QED
      BY <2>4, <2>5, <3>1
  <2>8. q + 1 \in 1..f[u] /\ m + 1 \in 1..k
    BY <2>4, <2>5, <2>6, <2>7
  <2>9. <<u, q + 1>> \in Coins(f)
    BY <2>8, CoinMember
  <2>10. <<<<u, q + 1>>, m + 1>> \in Pairs
    BY <2>8, <2>9
  <2>11. k * ((q + 1) - 1) + (m + 1) = n
    <3>1. (q + 1) - 1 = q
      BY <2>4
    <3>2. k * q \in Nat
      BY <2>4
    <3> QED
      BY <2>3, <2>6, <3>1, <3>2
  <2>12. place[<<<<u, q + 1>>, m + 1>>] = <<u, k * ((q + 1) - 1) + (m + 1)>>
    BY <2>10
  <2> QED
    BY <2>2, <2>10, <2>11, <2>12
<1>8. ExistsBijection(Pairs, Coins(h))
  <2> HIDE DEF place, Pairs
  <2>1. place \in Injection(Pairs, Coins(h))
    BY <1>5, <1>6 DEF Injection, IsInjective
  <2>2. place \in Surjection(Pairs, Coins(h))
    BY <1>5, <1>7 DEF Surjection
  <2> QED
    BY <2>1, <2>2 DEF ExistsBijection, Bijection
<1> QED
  BY <1>3, <1>8, FS_Bijection DEF SumOf

(* What the type of an array gives. *)
LEMMA HistoryFacts ==
  ASSUME NEW c, IsHistory(c)
  PROVE  /\ DOMAIN c = 1..Len(c) /\ Len(c) \in Nat
         /\ c = <<>> <=> Len(c) = 0
         /\ \A k \in DOMAIN c : c[k].fromBlock \in Nat /\ c[k].votes \in Nat
<1>1. c \in Seq(Checkpoint)
  BY DEF IsHistory
<1>2. DOMAIN c = 1..Len(c) /\ Len(c) \in Nat
  BY <1>1
<1>3. c = <<>> <=> Len(c) = 0
  BY <1>1
<1>4. \A k \in DOMAIN c : c[k] \in Checkpoint
  BY <1>1, <1>2
<1> QED
  BY <1>2, <1>3, <1>4 DEF Checkpoint

(* In an ordered array, a checkpoint at or before the block whose          *)
(* successor is after it is the one in force, and gives the weight.        *)
LEMMA InForceUnique ==
  ASSUME NEW c, IsHistory(c), NEW b \in Nat, NEW i \in DOMAIN c,
         c[i].fromBlock <= b,
         i < Len(c) => b < c[i + 1].fromBlock
  PROVE  InForce(c, b) = {i} /\ VotesAt(c, b) = c[i].votes
<1>1. i \in InForce(c, b)
  BY DEF InForce
<1>2. ASSUME NEW j \in InForce(c, b), j # i
      PROVE  FALSE
  <2>1. /\ j \in DOMAIN c /\ c[j].fromBlock <= b
        /\ j < Len(c) => b < c[j + 1].fromBlock
    BY <1>2 DEF InForce
  <2>2. /\ DOMAIN c = 1..Len(c) /\ Len(c) \in Nat
        /\ \A k \in DOMAIN c : c[k].fromBlock \in Nat
    BY HistoryFacts
  <2>3. CASE j < i
    <3>1. j + 1 \in DOMAIN c /\ j + 1 <= i /\ j < Len(c)
      BY <2>1, <2>2, <2>3
    <3>2. c[j + 1].fromBlock <= c[i].fromBlock
      <4>1. CASE j + 1 = i
        BY <2>1, <2>2, <3>1, <4>1
      <4>2. CASE j + 1 < i
        BY <2>2, <3>1, <4>2 DEF IsHistory
      <4> QED
        BY <2>1, <2>2, <3>1, <4>1, <4>2
    <3> QED
      BY <2>1, <2>2, <3>1, <3>2
  <2>4. CASE i < j
    <3>1. i + 1 \in DOMAIN c /\ i + 1 <= j /\ i < Len(c)
      BY <2>1, <2>2, <2>4
    <3>2. c[i + 1].fromBlock <= c[j].fromBlock
      <4>1. CASE i + 1 = j
        BY <2>1, <2>2, <3>1, <4>1
      <4>2. CASE i + 1 < j
        BY <2>1, <2>2, <3>1, <4>2 DEF IsHistory
      <4> QED
        BY <2>1, <2>2, <3>1, <4>1, <4>2
    <3> QED
      BY <2>1, <2>2, <3>1, <3>2
  <2> QED
    BY <1>2, <2>1, <2>2, <2>3, <2>4
<1>3. InForce(c, b) = {i}
  BY <1>1, <1>2
<1> QED
  BY <1>3 DEF VotesAt

(* Before the first checkpoint the weight is zero. *)
LEMMA BeforeFirst ==
  ASSUME NEW c, IsHistory(c), NEW b \in Nat,
         c # <<>> => b < c[1].fromBlock
  PROVE  InForce(c, b) = {} /\ VotesAt(c, b) = 0
<1>1. /\ DOMAIN c = 1..Len(c) /\ Len(c) \in Nat
      /\ c = <<>> <=> Len(c) = 0
      /\ \A k \in DOMAIN c : c[k].fromBlock \in Nat
  BY HistoryFacts
<1>2. ASSUME NEW i \in DOMAIN c
      PROVE  b < c[i].fromBlock
  <2>1. c # <<>> /\ 1 \in DOMAIN c
    BY <1>1, <1>2
  <2>2. CASE i = 1
    BY <2>1, <2>2
  <2>3. CASE 1 < i
    BY <1>1, <2>1, <2>3 DEF IsHistory
  <2> QED
    BY <1>1, <2>2, <2>3
<1>3. InForce(c, b) = {}
  BY <1>1, <1>2 DEF InForce
<1> QED
  BY <1>3 DEF VotesAt

(* A write at block h keeps everything but an entry of block h itself and  *)
(* ends in the new entry.                                                  *)
LEMMA WriteShape ==
  ASSUME NEW c, IsHistory(c), NEW h \in Nat, NEW w \in Nat, NEW m, m = Len(c),
         \A i \in DOMAIN c : c[i].fromBlock <= h,
         NEW d, d = WriteCheckpoint(c, h, w), NEW n, n = Len(d)
  PROVE  /\ m \in Nat /\ DOMAIN c = 1..m
         /\ d \in Seq(Checkpoint) /\ n \in Nat /\ 0 < n /\ DOMAIN d = 1..n
         /\ d # <<>> /\ d[n].fromBlock = h /\ d[n].votes = w
         /\ \A k \in 1..n : k < n => k \in 1..m /\ d[k] = c[k] /\ c[k].fromBlock < h
         /\ (m = n /\ c[n].fromBlock = h) \/ m + 1 = n
<1> DEFINE cp == [fromBlock |-> h, votes |-> w]
<1>1. /\ c \in Seq(Checkpoint) /\ cp \in Checkpoint
      /\ cp.fromBlock = h /\ cp.votes = w
  BY DEF Checkpoint, IsHistory
<1>2. m \in Nat /\ DOMAIN c = 1..m /\ (c = <<>> <=> m = 0)
  BY <1>1
<1>3. \A k \in 1..m : c[k].fromBlock \in Nat
  BY <1>2, HistoryFacts
<1>4. CASE c # <<>> /\ c[m].fromBlock = h
  <2>1. d = [c EXCEPT ![m] = cp]
    BY <1>4 DEF WriteCheckpoint
  <2> HIDE DEF cp
  <2>2. d \in Seq(Checkpoint) /\ Len(d) = Len(c) /\ DOMAIN d = DOMAIN c
    <3>1. \A k \in 1..m : d[k] \in Checkpoint
      BY <1>1, <1>2, <2>1
    <3>2. d = [k \in 1..m |-> d[k]]
      BY <1>2, <2>1
    <3>3. DOMAIN d = DOMAIN c
      BY <2>1
    <3> QED
      BY <1>1, <1>2, <3>1, <3>2, <3>3
  <2>3. n = m /\ DOMAIN d = 1..n
    BY <1>2, <2>2
  <2>4. d[n] = cp /\ 0 < n /\ m \in 1..m
    BY <1>2, <1>4, <2>1, <2>3
  <2>5. ASSUME NEW k \in 1..n, k < n
        PROVE  k \in 1..m /\ d[k] = c[k] /\ c[k].fromBlock < h
    <3>1. k \in 1..m /\ k # m
      BY <1>2, <2>3, <2>5
    <3>2. d[k] = c[k]
      BY <1>2, <2>1, <3>1
    <3>3. c[k].fromBlock < c[m].fromBlock
      BY <1>2, <2>3, <2>4, <2>5, <3>1 DEF IsHistory
    <3> QED
      BY <1>4, <3>1, <3>2, <3>3
  <2>6. d # <<>>
    BY <2>2, <2>3, <2>4
  <2> QED
    BY <1>1, <1>2, <1>4, <2>2, <2>3, <2>4, <2>5, <2>6
<1>5. CASE ~(c # <<>> /\ c[m].fromBlock = h)
  <2>1. d = Append(c, cp)
    BY <1>5 DEF WriteCheckpoint
  <2> HIDE DEF cp
  <2>2. d \in Seq(Checkpoint) /\ Len(d) = Len(c) + 1 /\ d[Len(c) + 1] = cp
    BY <1>1, <2>1
  <2>3. n = m + 1 /\ DOMAIN d = 1..n /\ d[n] = cp
    BY <2>2
  <2>4. ASSUME NEW k \in 1..m
        PROVE  d[k] = c[k]
    <3>1. k \in 1..Len(c)
      OBVIOUS
    <3> QED
      BY <1>1, <2>1, <3>1
  <2>5. ASSUME NEW k \in 1..n, k < n
        PROVE  k \in 1..m /\ d[k] = c[k] /\ c[k].fromBlock < h
    <3>1. k \in 1..m /\ m \in 1..m
      BY <1>2, <2>3, <2>5
    <3>2. c[m].fromBlock < h
      BY <1>2, <1>3, <1>5, <3>1
    <3>3. CASE k = m
      BY <2>4, <3>1, <3>2, <3>3
    <3>4. CASE k < m
      <4>1. c[k].fromBlock < c[m].fromBlock
        BY <1>2, <3>1, <3>4 DEF IsHistory
      <4> QED
        BY <1>3, <2>4, <3>1, <3>2, <4>1
    <3> QED
      BY <1>2, <3>1, <3>3, <3>4
  <2>6. d # <<>>
    BY <1>1, <2>2
  <2> QED
    BY <1>1, <1>2, <2>2, <2>3, <2>5, <2>6
<1> QED
  BY <1>4, <1>5

(* A write at the newest block h keeps the array ordered, sets the weight  *)
(* from h on, and leaves every earlier block as it was.                    *)
LEMMA WriteLookup ==
  ASSUME NEW c, IsHistory(c), NEW h \in Nat, NEW w \in Nat,
         \A i \in DOMAIN c : c[i].fromBlock <= h,
         NEW d, d = WriteCheckpoint(c, h, w)
  PROVE  /\ IsHistory(d)
         /\ \A i \in DOMAIN d : d[i].fromBlock <= h
         /\ CurrentVotes(d) = w
         /\ \A b \in Nat : h <= b => VotesAt(d, b) = w
         /\ \A b \in Nat : b < h => VotesAt(d, b) = VotesAt(c, b)
<1> DEFINE m == Len(c)
           n == Len(d)
<1>1. /\ m \in Nat /\ DOMAIN c = 1..m
      /\ d \in Seq(Checkpoint) /\ n \in Nat /\ 0 < n /\ DOMAIN d = 1..n
      /\ d # <<>> /\ d[n].fromBlock = h /\ d[n].votes = w
      /\ \A k \in 1..n : k < n => k \in 1..m /\ d[k] = c[k] /\ c[k].fromBlock < h
      /\ (m = n /\ c[n].fromBlock = h) \/ m + 1 = n
  BY WriteShape
<1>2. \A k \in 1..m : c[k].fromBlock \in Nat
  BY <1>1, HistoryFacts
<1>3. \A b \in Nat : \A i : i \in InForce(c, b) <=>
        /\ i \in 1..m /\ c[i].fromBlock <= b
        /\ i < m => b < c[i + 1].fromBlock
  BY <1>1 DEF InForce
<1>4. \A b \in Nat : \A i : i \in InForce(d, b) <=>
        /\ i \in 1..n /\ d[i].fromBlock <= b
        /\ i < n => b < d[i + 1].fromBlock
  BY <1>1 DEF InForce
<1>5. CurrentVotes(d) = w
  <2>1. d # <<>> /\ d[Len(d)].votes = w
    BY <1>1
  <2> QED
    BY <2>1, Zenon DEF CurrentVotes
<1>6. IsHistory(d) <=> \A i, j \in 1..n : i < j => d[i].fromBlock < d[j].fromBlock
  BY <1>1 DEF IsHistory
<1>7. \A i, j \in 1..m : i < j => c[i].fromBlock < c[j].fromBlock
  BY <1>1 DEF IsHistory
<1> HIDE DEF m, n
<1>8. IsHistory(d)
  <2> SUFFICES ASSUME NEW i \in 1..n, NEW j \in 1..n, i < j
               PROVE  d[i].fromBlock < d[j].fromBlock
    BY <1>6
  <2>1. i < n /\ i \in 1..m /\ d[i] = c[i] /\ c[i].fromBlock < h
    BY <1>1
  <2>2. CASE j = n
    BY <1>1, <2>1, <2>2
  <2>3. CASE j < n
    <3>1. j \in 1..m /\ d[j] = c[j]
      BY <1>1, <2>3
    <3> QED
      BY <1>7, <2>1, <3>1
  <2> QED
    BY <1>1, <2>2, <2>3
<1>9. \A i \in DOMAIN d : d[i].fromBlock <= h
  <2> SUFFICES ASSUME NEW i \in 1..n
               PROVE  d[i].fromBlock <= h
    BY <1>1
  <2>1. CASE i = n
    BY <1>1, <2>1
  <2>2. CASE i < n
    BY <1>1, <1>2, <2>2
  <2> QED
    BY <1>1, <2>1, <2>2
<1>10. ASSUME NEW b \in Nat, h <= b
       PROVE  VotesAt(d, b) = w
  <2>1. n \in DOMAIN d /\ d[n].fromBlock <= b
    BY <1>1, <1>10
  <2>2. ~(n < n)
    BY <1>1
  <2>3. n < Len(d) => b < d[n + 1].fromBlock
    BY <2>2 DEF n
  <2> QED
    BY <1>1, <1>8, <2>1, <2>3, InForceUnique
<1>11. ASSUME NEW b \in Nat, b < h
       PROVE  VotesAt(d, b) = VotesAt(c, b)
  <2>1. ASSUME NEW i \in InForce(d, b)
        PROVE  i \in InForce(c, b) /\ d[i] = c[i]
    <3>1. i \in 1..n /\ d[i].fromBlock <= b /\ (i < n => b < d[i + 1].fromBlock)
      BY <1>4
    <3>2. i # n
      BY <1>1, <1>11, <3>1
    <3>3. i < n /\ i \in 1..m /\ d[i] = c[i]
      BY <1>1, <3>1, <3>2
    <3>4. ASSUME i < m
          PROVE  b < c[i + 1].fromBlock
      <4>1. CASE i + 1 = n
        BY <1>1, <1>11, <3>3, <3>4, <4>1
      <4>2. CASE i + 1 # n
        <5>1. i + 1 \in 1..n /\ i + 1 < n
          BY <1>1, <3>3, <4>2
        <5> QED
          BY <1>1, <3>1, <3>3, <5>1
      <4> QED
        BY <4>1, <4>2
    <3> QED
      BY <1>3, <3>1, <3>3, <3>4
  <2>2. ASSUME NEW i \in InForce(c, b)
        PROVE  i \in InForce(d, b)
    <3>1. i \in 1..m /\ c[i].fromBlock <= b /\ (i < m => b < c[i + 1].fromBlock)
      BY <1>3
    <3>2. i \in 1..n /\ i # n /\ i < n
      BY <1>1, <1>11, <3>1
    <3>3. d[i] = c[i]
      BY <1>1, <3>2
    <3>4. b < d[i + 1].fromBlock
      <4>1. CASE i + 1 = n
        BY <1>1, <1>11, <4>1
      <4>2. CASE i + 1 # n
        <5>1. i + 1 \in 1..n /\ i + 1 < n
          BY <1>1, <3>2, <4>2
        <5>2. i + 1 \in 1..m /\ d[i + 1] = c[i + 1]
          BY <1>1, <5>1
        <5>3. i < m
          BY <1>1, <3>1, <5>2
        <5> QED
          BY <3>1, <5>2, <5>3
      <4> QED
        BY <4>1, <4>2
    <3> QED
      BY <1>4, <3>1, <3>2, <3>3, <3>4
  <2>3. InForce(d, b) = InForce(c, b)
    BY <2>1, <2>2
  <2>4. CASE InForce(c, b) = {}
    BY <2>3, <2>4 DEF VotesAt
  <2>5. CASE InForce(c, b) # {}
    <3> DEFINE i == CHOOSE i \in InForce(c, b) : TRUE
    <3>1. i \in InForce(c, b)
      BY <2>5
    <3>2. VotesAt(c, b) = c[i].votes /\ VotesAt(d, b) = d[i].votes
      BY <2>3, <2>5 DEF VotesAt
    <3> HIDE DEF i
    <3> QED
      BY <2>1, <2>3, <3>1, <3>2
  <2> QED
    BY <2>4, <2>5
<1> QED
  BY <1>5, <1>8, <1>9, <1>10, <1>11

(* The weight at a block is a natural number. *)
LEMMA VotesAtNat ==
  ASSUME NEW c, IsHistory(c), NEW b \in Nat
  PROVE  VotesAt(c, b) \in Nat
<1>1. CASE InForce(c, b) = {}
  BY <1>1 DEF VotesAt
<1>2. CASE InForce(c, b) # {}
  <2> DEFINE i == CHOOSE i \in InForce(c, b) : TRUE
  <2>1. i \in InForce(c, b)
    BY <1>2
  <2>2. VotesAt(c, b) = c[i].votes
    BY <1>2 DEF VotesAt
  <2> HIDE DEF i
  <2>3. c[i].votes \in Nat
    BY <2>1, HistoryFacts DEF InForce
  <2> QED
    BY <2>2, <2>3
<1> QED
  BY <1>1, <1>2

=============================================================================
