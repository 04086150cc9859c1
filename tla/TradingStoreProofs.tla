-------------------------- MODULE TradingStoreProofs --------------------------
(***************************************************************************)
(* What the arithmetic of TradingStore returns: the lemmas on which the    *)
(* theorems of OrderExecution and AccountSetup rest.                       *)
(***************************************************************************)
EXTENDS TradingStore, Functions, TLAPS, FiniteSetTheorems, WellFoundedInduction

\* Integer division by a positive number stays among the integers.
LEMMA QuotientInt ==
  ASSUME NEW a \in Int, NEW b \in Nat \ {0}
  PROVE  a \div b \in Int
  OBVIOUS

\* ... and among the naturals.
LEMMA QuotientNat ==
  ASSUME NEW a \in Nat, NEW b \in Nat \ {0}
  PROVE  a \div b \in Nat
  OBVIOUS

\* A column holds an integer, whatever integer is written to it.
LEMMA NumericInt ==
  ASSUME NEW x \in Int
  PROVE  Numeric(x) \in Int
<1>1. 2 * Quantum \in Nat \ {0} /\ 2 * x + Quantum \in Int
  BY AmountAssumption
<1>2. (2 * x + Quantum) \div (2 * Quantum) \in Int
  BY ONLY <1>1, QuotientInt
<1> QED
  BY <1>2, AmountAssumption DEF Numeric

\* Rounding to the column's unit never makes an amount negative.
LEMMA NumericNat ==
  ASSUME NEW x \in Nat
  PROVE  Numeric(x) \in Nat
<1>1. 2 * Quantum \in Nat \ {0} /\ 2 * x + Quantum \in Nat
  BY AmountAssumption
<1>2. (2 * x + Quantum) \div (2 * Quantum) \in Nat
  BY ONLY <1>1, QuotientNat
<1> QED
  BY <1>2, AmountAssumption DEF Numeric

\* The amounts of an order.
LEMMA FillFacts ==
  ASSUME NEW f \in Fills
  PROVE  /\ f.user \in Users /\ f.base \in BaseAssets /\ f.side \in {"buy", "sell"}
         /\ f.size \in Nat \ {0} /\ f.price \in Nat \ {0}
         /\ Cost(f) \in Nat /\ CalculateFee(f) \in Nat
<1>1. /\ f.user \in Users /\ f.base \in BaseAssets /\ f.side \in {"buy", "sell"}
      /\ f.size \in Nat \ {0} /\ f.price \in Nat \ {0}
  BY AmountAssumption DEF Fills
<1>2. Cost(f) \in Nat
  BY <1>1 DEF Cost
<1>3. CalculateFee(f) \in Nat
  BY <1>2, QuotientNat, AmountAssumption DEF CalculateFee
<1> QED
  BY <1>1, <1>2, <1>3

\* The fee is at most what the trade is worth.
LEMMA FeeAtMostCost ==
  ASSUME NEW f \in Fills
  PROVE  CalculateFee(f) <= Cost(f)
<1>1. \A c \in Nat, d \in Nat \ {0} : c \div d <= c
  OBVIOUS
<1> QED
  BY <1>1, FillFacts, AmountAssumption DEF CalculateFee

\* The balances computed from integers are integers.
LEMMA BalancesAfterInt ==
  ASSUME NEW f \in Fills, NEW x \in Int
  PROVE  QuoteAfter(f, x) \in Int /\ BaseAfter(f, x) \in Int
  BY FillFacts, NumericInt DEF QuoteAfter, BaseAfter

\* The check before the trade is what keeps both balances from going below 0.
LEMMA BalancesAfterNat ==
  ASSUME NEW f \in Fills, NEW q \in Nat, NEW b \in Nat, Sufficient(f, q, b)
  PROVE  QuoteAfter(f, q) \in Nat /\ BaseAfter(f, b) \in Nat
  BY FillFacts, FeeAtMostCost, NumericNat DEF Sufficient, QuoteAfter, BaseAfter

\* A rounded quotient of naturals is a natural.
LEMMA RoundedQuotientNat ==
  ASSUME NEW a \in Nat, NEW b \in Nat \ {0}
  PROVE  RoundedQuotient(a, b) \in Nat
<1>1. 2 * a + b \in Nat /\ 2 * b \in Nat \ {0}
  OBVIOUS
<1> QED
  BY ONLY <1>1, QuotientNat DEF RoundedQuotient

\* The position after a trade that the holding covers.
LEMMA PositionAfterNat ==
  ASSUME NEW f \in Fills, NEW pos \in Positions,
         pos.size >= 0, pos.avgEntryPrice >= 0,
         f.side = "sell" => pos.size >= f.size
  PROVE  /\ PositionAfter(f, pos) \in Positions
         /\ PositionAfter(f, pos).size >= 0
         /\ PositionAfter(f, pos).avgEntryPrice >= 0
<1>1. pos.size \in Nat /\ pos.avgEntryPrice \in Nat
  BY DEF Positions
<1>2. CASE f.side = "buy"
  <2>1. Numeric(pos.size + f.size) \in Nat
    BY <1>1, FillFacts, NumericNat
  <2>2. AverageEntry(f, pos) \in Nat
    <3>1. pos.size * pos.avgEntryPrice \in Nat
      BY <1>1
    <3>2. /\ pos.size * pos.avgEntryPrice + Cost(f) \in Nat
          /\ pos.size + f.size \in Nat \ {0}
      BY <1>1, <3>1, FillFacts
    <3> QED
      BY <3>2, RoundedQuotientNat DEF AverageEntry
  <2> QED
    BY <1>2, <2>1, <2>2, FillFacts DEF PositionAfter, Positions
<1>3. CASE f.side = "sell"
  <2>1. Numeric(pos.size - f.size) \in Nat
    BY <1>1, <1>3, FillFacts, NumericNat
  <2> QED
    BY <1>1, <1>3, <2>1 DEF PositionAfter, Positions
<1> QED
  BY <1>2, <1>3, FillFacts

\* Rounding to the unit leaves a quotient between the same whole bounds.
LEMMA RoundedQuotientWithin ==
  ASSUME NEW a \in Nat, NEW b \in Nat \ {0}, NEW low \in Nat, NEW high \in Nat,
         low * b <= a, a <= high * b
  PROVE  low <= RoundedQuotient(a, b) /\ RoundedQuotient(a, b) <= high
<1>1. \A c \in Nat, d \in Nat \ {0} :
        /\ (c \div d) * d <= c
        /\ c < ((c \div d) + 1) * d
  OBVIOUS
<1>2. \A x \in Int, y \in Int, d \in Nat \ {0} : x * d < y * d => x < y
  <2> SUFFICES ASSUME NEW x \in Int, NEW y \in Int, NEW d \in Nat \ {0}, ~(x < y)
               PROVE  ~(x * d < y * d)
    OBVIOUS
  <2>1. x - y >= 0
    OBVIOUS
  <2>2. (x - y) * d >= 0
    BY <2>1
  <2>3. (x - y) * d = x * d - y * d
    OBVIOUS
  <2> QED
    BY <2>2, <2>3
<1> DEFINE c == 2 * a + b
           d == 2 * b
           q == c \div d
<1>3. c \in Nat /\ d \in Nat \ {0} /\ q \in Int
  BY QuotientInt
<1>4. q * d <= c /\ c < (q + 1) * d
  BY <1>1, <1>3
<1>5. low * d <= c /\ c < (high + 1) * d
  <2>1. low * d = 2 * (low * b) /\ (high + 1) * d = 2 * (high * b) + 2 * b
    OBVIOUS
  <2>2. low * b \in Nat /\ high * b \in Nat
    OBVIOUS
  <2> QED
    BY <2>1, <2>2
<1> HIDE DEF c, d, q
<1>6. low * d < (q + 1) * d /\ q * d < (high + 1) * d
  <2>1. low * d \in Int /\ q * d \in Int /\ (q + 1) * d \in Int /\ (high + 1) * d \in Int
    BY <1>3
  <2> QED
    BY <1>3, <1>4, <1>5, <2>1
<1>7. low < q + 1 /\ q < high + 1
  BY <1>2, <1>3, <1>6
<1> QED
  BY <1>3, <1>7 DEF RoundedQuotient, c, d, q

\* An average of what is held and what is bought is between the two prices.
LEMMA AverageEntryWithin ==
  ASSUME NEW f \in Fills, NEW pos \in Positions, pos.size >= 0,
         NEW low \in Nat, NEW high \in Nat,
         low <= pos.avgEntryPrice, pos.avgEntryPrice <= high,
         low <= f.price, f.price <= high
  PROVE  low <= AverageEntry(f, pos) /\ AverageEntry(f, pos) <= high
<1>1. \A n \in Nat, x \in Nat, y \in Nat : x <= y => x * n <= y * n
  <2> SUFFICES ASSUME NEW n \in Nat, NEW x \in Nat, NEW y \in Nat, x <= y
               PROVE  x * n <= y * n
    OBVIOUS
  <2>1. (y - x) * n >= 0
    OBVIOUS
  <2>2. (y - x) * n = y * n - x * n
    OBVIOUS
  <2> QED
    BY <2>1, <2>2
<1>2. /\ pos.size \in Nat /\ pos.avgEntryPrice \in Nat
      /\ f.size \in Nat \ {0} /\ f.price \in Nat
  BY FillFacts DEF Positions
<1> DEFINE held == pos.size * pos.avgEntryPrice
           bought == f.size * f.price
<1>3. /\ held \in Nat /\ bought \in Nat
      /\ low * pos.size \in Nat /\ low * f.size \in Nat
      /\ high * pos.size \in Nat /\ high * f.size \in Nat
  BY <1>2
<1>4. /\ low * pos.size <= held /\ held <= high * pos.size
      /\ low * f.size <= bought /\ bought <= high * f.size
  <2>1. held = pos.avgEntryPrice * pos.size /\ bought = f.price * f.size
    BY <1>2
  <2> QED
    BY <1>1, <1>2, <2>1
<1>5. /\ low * (pos.size + f.size) = low * pos.size + low * f.size
      /\ high * (pos.size + f.size) = high * pos.size + high * f.size
  BY <1>2
<1>6. /\ held + bought \in Nat /\ pos.size + f.size \in Nat \ {0}
      /\ low * (pos.size + f.size) <= held + bought
      /\ held + bought <= high * (pos.size + f.size)
  BY <1>2, <1>3, <1>4, <1>5
<1>7. /\ low <= RoundedQuotient(held + bought, pos.size + f.size)
      /\ RoundedQuotient(held + bought, pos.size + f.size) <= high
  BY ONLY <1>6, RoundedQuotientWithin, low \in Nat, high \in Nat
<1> QED
  BY <1>7 DEF AverageEntry, Cost

\* The balance row and the position row move together.
LEMMA HoldingAfter ==
  ASSUME NEW f \in Fills, NEW pos \in Positions
  PROVE  PositionAfter(f, pos).size = BaseAfter(f, pos.size)
  BY DEF PositionAfter, BaseAfter, Positions

-----------------------------------------------------------------------------
(***************************************************************************)
(* Sums over a finite set.  What SumFunctionOnSet computes is defined by   *)
(* recursion over subsets; every fact about it is proved by looking at a   *)
(* smallest subset for which it fails.                                     *)
(***************************************************************************)

\* Among sets of elements of a finite set there is one with no smaller one in it.
LEMMA SmallestSet ==
  ASSUME NEW S, IsFiniteSet(S), NEW T, T \subseteq SUBSET S, T # {}
  PROVE  \E m \in T : \A k \in T : k \subseteq m => k = m
<1>1. IsWellFoundedOn(StrictSubsetOrdering(S), SUBSET S)
  BY FS_StrictSubsetOrderingWellFounded, FS_FiniteSubsetsOfFinite
<1>2. \E m \in T : \A k \in T : ~(<<k, m>> \in StrictSubsetOrdering(S))
  BY <1>1, WFMin
<1> QED
  BY <1>2 DEF StrictSubsetOrdering

\* g gives the sum of f over every subset of A, as SumFunctionOnSet computes it.
IsSum(g, f, A) ==
  g = [s \in SUBSET A |->
         IF s = {} THEN 0
         ELSE f[CHOOSE x \in s : TRUE] + g[s \ {CHOOSE x \in s : TRUE}]]

\* That is its definition.
LEMMA SumIs ==
  ASSUME NEW f, NEW A
  PROVE  SumFunctionOnSet(f, A) = (CHOOSE g : IsSum(g, f, A))[A]
  BY DEF SumFunctionOnSet, FoldFunctionOnSet, MapThenFoldSet, IsSum

\* The element a sum begins with.
FirstOf(s) == CHOOSE x \in s : TRUE

LEMMA SumUnfolds ==
  ASSUME NEW g, NEW f, NEW A, IsSum(g, f, A), NEW s \in SUBSET A
  PROVE  /\ s = {} => g[s] = 0
         /\ s # {} => /\ FirstOf(s) \in s
                      /\ g[s] = f[FirstOf(s)] + g[s \ {FirstOf(s)}]
<1>1. s # {} => FirstOf(s) \in s
  BY DEF FirstOf
<1>2. g[s] = IF s = {} THEN 0 ELSE f[FirstOf(s)] + g[s \ {FirstOf(s)}]
  BY DEF IsSum, FirstOf
<1> QED
  BY <1>1, <1>2

\* Two functions that agree on a set have the same sum over it.
LEMMA SumsAgree ==
  ASSUME NEW A, NEW B, IsFiniteSet(A), NEW f, NEW h, NEW g, NEW k,
         IsSum(g, f, A), IsSum(k, h, B), \A x \in A \cap B : f[x] = h[x]
  PROVE  \A s \in SUBSET (A \cap B) : g[s] = k[s]
<1> DEFINE Bad == {s \in SUBSET (A \cap B) : g[s] # k[s]}
<1> SUFFICES ASSUME Bad # {} PROVE FALSE
  OBVIOUS
<1>1. PICK m \in Bad : \A t \in Bad : t \subseteq m => t = m
  <2>1. Bad \subseteq SUBSET A
    OBVIOUS
  <2> HIDE DEF Bad
  <2> QED
    BY <2>1, SmallestSet
<1>2. m \in SUBSET A /\ m \in SUBSET B /\ g[m] # k[m]
  OBVIOUS
<1>3. m # {}
  BY <1>2, SumUnfolds
<1>4. FirstOf(m) \in m
  BY <1>2, <1>3, SumUnfolds
<1>5. m \ {FirstOf(m)} \notin Bad
  BY <1>1, <1>4
<1>6. g[m \ {FirstOf(m)}] = k[m \ {FirstOf(m)}] /\ f[FirstOf(m)] = h[FirstOf(m)]
  BY <1>2, <1>4, <1>5
<1> QED
  BY <1>2, <1>3, <1>6, SumUnfolds

\* There is such a g for every finite set.
LEMMA SumExists ==
  ASSUME NEW S, IsFiniteSet(S), NEW f
  PROVE  \E g : IsSum(g, f, S)
<1> DEFINE Bad == {T \in SUBSET S : ~ \E g : IsSum(g, f, T)}
<1> SUFFICES ASSUME Bad # {} PROVE FALSE
  OBVIOUS
<1>1. PICK m \in Bad : \A t \in Bad : t \subseteq m => t = m
  <2>1. Bad \subseteq SUBSET S
    OBVIOUS
  <2> HIDE DEF Bad
  <2> QED
    BY <2>1, SmallestSet
<1>2. m \in SUBSET S /\ ~ \E g : IsSum(g, f, m)
  OBVIOUS
<1> DEFINE G(t) == CHOOSE g : IsSum(g, f, t)
           k == [s \in SUBSET m |->
                   IF s = {} THEN 0
                   ELSE f[FirstOf(s)] + G(s \ {FirstOf(s)})[s \ {FirstOf(s)}]]
<1>3. ASSUME NEW t \in SUBSET m, t # m PROVE IsSum(G(t), f, t)
  <2>1. t \notin Bad /\ t \in SUBSET S
    BY <1>1, <1>2, <1>3
  <2>2. \E g : IsSum(g, f, t)
    BY <2>1
  <2> QED
    BY <2>2
<1> HIDE DEF G, Bad
<1>4. ASSUME NEW t \in SUBSET m, t # m PROVE k[t] = G(t)[t]
  <2>1. IsSum(G(t), f, t)
    BY <1>3, <1>4
  <2>2. CASE t = {}
    BY <2>1, <2>2, SumUnfolds
  <2>3. CASE t # {}
    <3>1. PICK u : u = t \ {FirstOf(t)}
      OBVIOUS
    <3>2. FirstOf(t) \in t /\ G(t)[t] = f[FirstOf(t)] + G(t)[u]
      BY <2>1, <2>3, <3>1, SumUnfolds
    <3>3. u \in SUBSET t /\ u \in SUBSET m /\ u # m
      BY <1>4, <3>1, <3>2
    <3>4. IsSum(G(u), f, u)
      BY <1>3, <3>3
    <3>5. IsFiniteSet(t) /\ u \in SUBSET (t \cap u)
      <4>1. t \in SUBSET S
        BY <1>2
      <4> QED
        BY <3>3, <4>1, FS_Subset
    <3>6. G(t)[u] = G(u)[u]
      BY <2>1, <3>4, <3>5, SumsAgree
    <3> QED
      BY <2>3, <3>1, <3>2, <3>6
  <2> QED
    BY <2>2, <2>3
<1>5. k = [s \in SUBSET m |->
             IF s = {} THEN 0 ELSE f[FirstOf(s)] + k[s \ {FirstOf(s)}]]
  <2>1. ASSUME NEW s \in SUBSET m, s # {}
        PROVE  G(s \ {FirstOf(s)})[s \ {FirstOf(s)}] = k[s \ {FirstOf(s)}]
    <3>1. FirstOf(s) \in s
      BY <2>1 DEF FirstOf
    <3>2. s \ {FirstOf(s)} \in SUBSET m /\ s \ {FirstOf(s)} # m
      BY <3>1
    <3> QED
      BY <1>4, <3>2
  <2> QED
    BY <2>1
<1>6. IsSum(k, f, m)
  BY <1>5 DEF IsSum, FirstOf
<1> QED
  BY <1>2, <1>6

\* Sums of integers are integers, ...
LEMMA SumInt ==
  ASSUME NEW A, IsFiniteSet(A), NEW f \in [A -> Int], NEW g, IsSum(g, f, A)
  PROVE  \A s \in SUBSET A : g[s] \in Int
<1> DEFINE Bad == {s \in SUBSET A : g[s] \notin Int}
<1> SUFFICES ASSUME Bad # {} PROVE FALSE
  OBVIOUS
<1>1. PICK m \in Bad : \A t \in Bad : t \subseteq m => t = m
  <2>1. Bad \subseteq SUBSET A
    OBVIOUS
  <2> HIDE DEF Bad
  <2> QED
    BY <2>1, SmallestSet
<1>2. m \in SUBSET A /\ g[m] \notin Int
  OBVIOUS
<1>3. m # {}
  <2>1. m = {} => g[m] = 0
    BY ONLY <1>2, IsSum(g, f, A), SumUnfolds
  <2> QED
    BY ONLY <1>2, <2>1
<1>4. FirstOf(m) \in m /\ g[m] = f[FirstOf(m)] + g[m \ {FirstOf(m)}]
  BY <1>2, <1>3, SumUnfolds
<1>5. m \ {FirstOf(m)} \notin Bad /\ m \ {FirstOf(m)} \in SUBSET A
  BY <1>1, <1>2, <1>4
<1>6. g[m \ {FirstOf(m)}] \in Int /\ f[FirstOf(m)] \in Int
  BY <1>2, <1>4, <1>5
<1> QED
  BY <1>2, <1>4, <1>6

\* ... and it does not matter with which element they begin.
LEMMA SumFromAny ==
  ASSUME NEW A, IsFiniteSet(A), NEW f \in [A -> Int], NEW g, IsSum(g, f, A)
  PROVE  \A s \in SUBSET A : \A y \in s : g[s] = f[y] + g[s \ {y}]
<1> DEFINE Bad == {s \in SUBSET A : ~ \A y \in s : g[s] = f[y] + g[s \ {y}]}
<1> SUFFICES ASSUME Bad # {} PROVE FALSE
  OBVIOUS
<1>1. PICK m \in Bad : \A t \in Bad : t \subseteq m => t = m
  <2>1. Bad \subseteq SUBSET A
    OBVIOUS
  <2> HIDE DEF Bad
  <2> QED
    BY <2>1, SmallestSet
<1>2. m \in SUBSET A /\ \E y \in m : g[m] # f[y] + g[m \ {y}]
  OBVIOUS
<1>3. PICK y \in m : g[m] # f[y] + g[m \ {y}]
  BY <1>2
<1>4. PICK x : x = FirstOf(m)
  OBVIOUS
<1>5. x \in m /\ g[m] = f[x] + g[m \ {x}]
  <2>1. m # {}
    BY <1>3
  <2>2. m \in SUBSET A
    BY <1>2
  <2> HIDE DEF Bad
  <2>3. FirstOf(m) \in m /\ g[m] = f[FirstOf(m)] + g[m \ {FirstOf(m)}]
    BY <2>1, <2>2, SumUnfolds
  <2> QED
    BY ONLY <1>4, <2>3
<1>6. x # y
  BY <1>3, <1>5
<1>7. m \ {x} \notin Bad /\ m \ {y} \notin Bad
  BY <1>1, <1>3, <1>5
<1>8. /\ m \ {x} \in SUBSET A /\ y \in m \ {x}
      /\ m \ {y} \in SUBSET A /\ x \in m \ {y}
  BY <1>2, <1>3, <1>5, <1>6
<1>9. /\ g[m \ {x}] = f[y] + g[(m \ {x}) \ {y}]
      /\ g[m \ {y}] = f[x] + g[(m \ {y}) \ {x}]
  BY <1>7, <1>8
<1> HIDE DEF Bad
<1>10. (m \ {x}) \ {y} = (m \ {y}) \ {x} /\ (m \ {y}) \ {x} \in SUBSET A
  BY <1>2
<1>11. /\ f[x] \in Int /\ f[y] \in Int
       /\ g[(m \ {y}) \ {x}] \in Int
  BY <1>2, <1>3, <1>5, <1>10, SumInt
<1>12. PICK a, b, c, p, q, w :
         /\ a = f[x] /\ b = f[y] /\ c = g[(m \ {y}) \ {x}]
         /\ p = g[m \ {x}] /\ q = g[m \ {y}] /\ w = g[m]
  OBVIOUS
<1>13. /\ a \in Int /\ b \in Int /\ c \in Int
       /\ w # b + q
  BY ONLY <1>3, <1>11, <1>12
<1>14. p = b + c /\ q = a + c /\ w = a + p
  BY ONLY <1>5, <1>9, <1>10, <1>12
<1> QED
  BY ONLY <1>13, <1>14

\* What one more element does to a sum.
LEMMA SumOfOneMore ==
  ASSUME NEW A, IsFiniteSet(A), NEW f \in [A -> Int], NEW x, x \notin A, NEW v \in Int,
         NEW h \in [A \cup {x} -> Int], h[x] = v, \A a \in A : h[a] = f[a]
  PROVE  SumFunction(h) = v + SumFunction(f)
<1> DEFINE B == A \cup {x}
<1>1. IsFiniteSet(B)
  BY FS_AddElement
<1>2. PICK g : g = CHOOSE q : IsSum(q, f, A)
  OBVIOUS
<1>3. PICK k : k = CHOOSE q : IsSum(q, h, B)
  OBVIOUS
<1>4. IsSum(g, f, A) /\ IsSum(k, h, B)
  BY <1>1, <1>2, <1>3, SumExists
<1>5. SumFunction(f) = g[A] /\ SumFunction(h) = k[B]
  <2>1. DOMAIN f = A /\ DOMAIN h = B
    OBVIOUS
  <2> QED
    BY <1>2, <1>3, <2>1, SumIs DEF SumFunction
<1>6. g[A] = k[A]
  <2>1. A \in SUBSET (A \cap B)
    OBVIOUS
  <2> QED
    BY <1>4, <2>1, SumsAgree
<1>7. k[B] = h[x] + k[B \ {x}]
  <2>1. B \in SUBSET B /\ x \in B
    OBVIOUS
  <2> HIDE DEF B
  <2>2. h \in [B -> Int]
    BY DEF B
  <2> QED
    BY <1>1, <1>4, <2>1, <2>2, SumFromAny
<1>8. B \ {x} = A
  OBVIOUS
<1> QED
  BY <1>5, <1>6, <1>7, <1>8

\* The sum of no elements, and that of integers.
LEMMA SumFacts ==
  ASSUME NEW A, IsFiniteSet(A), NEW f \in [A -> Int]
  PROVE  SumFunction(f) \in Int /\ (A = {} => SumFunction(f) = 0)
<1>1. PICK g : g = CHOOSE q : IsSum(q, f, A)
  OBVIOUS
<1>2. IsSum(g, f, A)
  BY <1>1, SumExists
<1>3. SumFunction(f) = g[A]
  <2>1. DOMAIN f = A
    OBVIOUS
  <2> QED
    BY <1>1, <2>1, SumIs DEF SumFunction
<1>4. A \in SUBSET A
  OBVIOUS
<1>5. g[A] \in Int
  BY <1>2, <1>4, SumInt
<1>6. A = {} => g[A] = 0
  BY <1>2, <1>4, SumUnfolds
<1> QED
  BY <1>3, <1>5, <1>6
=============================================================================
