--------------------------- MODULE CheckoutProofs ---------------------------
(***************************************************************************)
(* What Checkout.tla promises, for every value of its constants: lemmas    *)
(* about sums over finite sets first, then the inductive invariant, then   *)
(* the properties.                                                         *)
(***************************************************************************)
EXTENDS Checkout, FiniteSetTheorems, WellFoundedInduction, TLAPS

-----------------------------------------------------------------------------
(* Sums.  SumFunctionOnSet folds the set in an order that CHOOSE fixes; what *)
(* the model needs is that the order does not matter.                        *)

\* The least number of a set.
LEMMA LeastExists ==
  ASSUME NEW S \in SUBSET Nat, S # {}
  PROVE  \E x \in S : \A y \in S : x <= y
<1> DEFINE R == OpToRel(<, Nat)
<1>1. IsWellFoundedOn(R, Nat)
  BY NatLessThanWellFounded, Zenon
<1>2. \A x, y \in Nat : y < x => <<y, x>> \in R
  BY DEF OpToRel
<1> HIDE DEF R
<1>3. PICK x \in S : \A y \in S : ~ (<<y, x>> \in R)
  <2>1. S \subseteq Nat /\ S # {}
    OBVIOUS
  <2>2. QED
    BY <1>1, <2>1, WFMin, Zenon
<1>4. \A y \in S : ~(y < x)
  BY <1>2, <1>3
<1>5. QED
  BY <1>4

\* A minimal one among the subsets of a finite set.
LEMMA MinimalSubset ==
  ASSUME NEW S, IsFiniteSet(S), NEW T \in SUBSET (SUBSET S), T # {}
  PROVE  \E x \in T : \A y \in T : y \subseteq x => y = x
<1> DEFINE R == StrictSubsetOrdering(S)
<1>1. IsWellFoundedOn(R, FiniteSubsetsOf(S))
  BY FS_StrictSubsetOrderingWellFounded, Zenon
<1>2. FiniteSubsetsOf(S) = SUBSET S
  BY FS_FiniteSubsetsOfFinite, Zenon
<1>3. PICK x \in T : \A y \in T : ~ (<<y, x>> \in R)
  <2> HIDE DEF R
  <2>1. IsWellFoundedOn(R, SUBSET S) /\ T \subseteq SUBSET S
    BY <1>1, <1>2
  <2>2. QED
    BY <2>1, WFMin, Zenon
<1>4. QED
  BY <1>3 DEF StrictSubsetOrdering

\* What the fold of a finite set computes, as a function on its subsets.
Unfolds(g, S, base, ch, F) ==
  \A s \in SUBSET S : g[s] = IF s = {} THEN base ELSE F[ch[s]][g[s \ {ch[s]}]]

\* ch chooses an element of every subset of S that has one.
Chooses(ch, S) == \A s \in SUBSET S : s # {} => ch[s] \in s

LEMMA FoldExists ==
  ASSUME NEW S, IsFiniteSet(S), NEW V, NEW base \in V,
         NEW ch, Chooses(ch, S),
         NEW F \in [S -> [V -> V]]
  PROVE  \E g \in [SUBSET S -> V] : Unfolds(g, S, base, ch, F)
<1> DEFINE Upto(n) == \E g \in [SUBSET S -> V] :
                        \A s \in SUBSET S : Cardinality(s) <= n =>
                          g[s] = IF s = {} THEN base ELSE F[ch[s]][g[s \ {ch[s]}]]
           Bad == {n \in Nat : ~Upto(n)}
<1>1. \A s \in SUBSET S : IsFiniteSet(s) /\ Cardinality(s) \in Nat /\ Cardinality(s) <= Cardinality(S)
  BY FS_Subset, FS_CardinalityType
<1>2. \A s \in SUBSET S : (Cardinality(s) = 0 <=> s = {}) /\ (s # {} => Cardinality(s \ {ch[s]}) = Cardinality(s) - 1)
  BY <1>1, FS_EmptySet, FS_RemoveElement DEF Chooses
<1>3. Upto(0)
  <2> DEFINE g == [s \in SUBSET S |-> base]
  <2>1. g \in [SUBSET S -> V]
    OBVIOUS
  <2>2. \A s \in SUBSET S : Cardinality(s) <= 0 =>
           g[s] = IF s = {} THEN base ELSE F[ch[s]][g[s \ {ch[s]}]]
    <3> SUFFICES ASSUME NEW s \in SUBSET S, Cardinality(s) <= 0
                 PROVE g[s] = IF s = {} THEN base ELSE F[ch[s]][g[s \ {ch[s]}]]
      OBVIOUS
    <3>1. Cardinality(s) = 0
      BY <1>1
    <3>2. s = {}
      BY <3>1, <1>2
    <3>3. QED
      BY <3>2
  <2> HIDE DEF g
  <2>3. QED
    BY <2>1, <2>2
<1>4. ASSUME NEW n \in Nat, Upto(n) PROVE Upto(n + 1)
  <2>1. PICK g \in [SUBSET S -> V] :
               \A s \in SUBSET S : Cardinality(s) <= n =>
                 g[s] = IF s = {} THEN base ELSE F[ch[s]][g[s \ {ch[s]}]]
    BY <1>4
  <2> DEFINE h == [s \in SUBSET S |-> IF Cardinality(s) = n + 1 THEN F[ch[s]][g[s \ {ch[s]}]] ELSE g[s]]
  <2>2. ASSUME NEW s \in SUBSET S, Cardinality(s) = n + 1
        PROVE  /\ s # {} /\ ch[s] \in S /\ s \ {ch[s]} \in SUBSET S
               /\ h[s] = F[ch[s]][g[s \ {ch[s]}]] /\ h[s \ {ch[s]}] = g[s \ {ch[s]}]
    <3>1. s # {}
      BY <2>2, <1>2
    <3>2. ch[s] \in S /\ s \ {ch[s]} \in SUBSET S
      BY <3>1 DEF Chooses
    <3>3. Cardinality(s \ {ch[s]}) = n
      BY <2>2, <3>1, <1>2
    <3>4. QED
      BY <2>2, <3>1, <3>2, <3>3
  <2>3. h \in [SUBSET S -> V]
    <3>1. ASSUME NEW s \in SUBSET S, Cardinality(s) = n + 1 PROVE h[s] \in V
      <4>1. F[ch[s]] \in [V -> V] /\ g[s \ {ch[s]}] \in V
        BY <3>1, <2>2
      <4>2. QED
        BY <3>1, <2>2, <4>1
    <3>2. ASSUME NEW s \in SUBSET S, Cardinality(s) # n + 1 PROVE h[s] \in V
      BY <3>2
    <3>3. QED
      BY <3>1, <3>2
  <2>4. ASSUME NEW s \in SUBSET S, Cardinality(s) <= n, s # {}
        PROVE  h[s] = g[s] /\ h[s \ {ch[s]}] = g[s \ {ch[s]}]
    <3>1. s \ {ch[s]} \in SUBSET S /\ Cardinality(s \ {ch[s]}) = Cardinality(s) - 1
      BY <2>4, <1>2
    <3>2. Cardinality(s) # n + 1 /\ Cardinality(s \ {ch[s]}) # n + 1
      BY <2>4, <3>1, <1>1
    <3>3. QED
      BY <3>1, <3>2
  <2>5. ASSUME NEW s \in SUBSET S, s = {} PROVE h[s] = base
    <3>1. Cardinality(s) = 0
      BY <2>5, <1>2
    <3>2. h[s] = g[s]
      BY <3>1
    <3>3. g[s] = base
      <4> HIDE DEF h
      <4>1. Cardinality(s) <= n
        BY <3>1
      <4>2. QED
        BY <2>5, <4>1, <2>1
    <3>4. QED
      BY <3>2, <3>3
  <2>6. \A s \in SUBSET S : Cardinality(s) <= n + 1 =>
          h[s] = IF s = {} THEN base ELSE F[ch[s]][h[s \ {ch[s]}]]
    <3> HIDE DEF h
    <3> SUFFICES ASSUME NEW s \in SUBSET S, Cardinality(s) <= n + 1, s # {}
                 PROVE h[s] = F[ch[s]][h[s \ {ch[s]}]]
      BY <2>5
    <3>1. CASE Cardinality(s) = n + 1
      BY <3>1, <2>2
    <3>2. CASE Cardinality(s) <= n
      BY <3>2, <2>1, <2>4
    <3>3. QED
      BY <3>1, <3>2, <1>1
  <2> HIDE DEF h
  <2>7. QED
    BY <2>3, <2>6
<1>5. Bad = {}
  <2>1. SUFFICES ASSUME Bad # {} PROVE FALSE
    OBVIOUS
  <2> HIDE DEF Upto
  <2>2. PICK n \in Bad : \A m \in Bad : n <= m
    BY <2>1, LeastExists
  <2>3. n # 0
    BY <1>3
  <2>4. n - 1 \in Nat /\ n - 1 \notin Bad
    BY <2>2, <2>3
  <2>5. Upto(n - 1)
    BY <2>4
  <2>6. Upto((n - 1) + 1)
    BY <2>4, <2>5, <1>4
  <2>7. QED
    BY <2>2, <2>6
<1>6. Upto(Cardinality(S))
  <2> HIDE DEF Upto
  <2>1. QED
    BY <1>5, FS_CardinalityType
<1>7. QED
  BY <1>6, <1>1 DEF Unfolds

Chosen(s) == CHOOSE x \in s : TRUE

\* g has the sums of f over the subsets of S.
Sums(g, f, S) ==
  \A s \in SUBSET S : g[s] = IF s = {} THEN 0 ELSE f[Chosen(s)] + g[s \ {Chosen(s)}]

\* A sum is 0 over nothing, and over a set it takes the chosen element first.
LEMMA SumIsFold ==
  ASSUME NEW S, IsFiniteSet(S), NEW f, \A x \in S : f[x] \in Int
  PROVE  \E g \in [SUBSET S -> Int] :
           SumFunctionOnSet(f, S) = g[S] /\ Sums(g, f, S)
<1> DEFINE Rec(h) == h = [s \in SUBSET S |-> IF s = {} THEN 0 ELSE f[Chosen(s)] + h[s \ {Chosen(s)}]]
           ch == [s \in SUBSET S |-> Chosen(s)]
           F  == [x \in S |-> [v \in Int |-> f[x] + v]]
<1>1. Chooses(ch, S)
  BY DEF Chosen, Chooses
<1>2. F \in [S -> [Int -> Int]]
  BY Z3
<1>3. PICK g \in [SUBSET S -> Int] : Unfolds(g, S, 0, ch, F)
  <2> HIDE DEF F, ch
  <2>1. 0 \in Int
    OBVIOUS
  <2>2. QED
    BY <1>1, <1>2, <2>1, FoldExists, Zenon
<1>4. \A s \in SUBSET S : g[s] = IF s = {} THEN 0 ELSE f[Chosen(s)] + g[s \ {Chosen(s)}]
  <2> SUFFICES ASSUME NEW s \in SUBSET S
               PROVE  g[s] = IF s = {} THEN 0 ELSE f[Chosen(s)] + g[s \ {Chosen(s)}]
    OBVIOUS
  <2>1. g[s] = IF s = {} THEN 0 ELSE F[ch[s]][g[s \ {ch[s]}]]
    BY <1>3 DEF Unfolds
  <2>2. ch[s] = Chosen(s)
    OBVIOUS
  <2>3. ASSUME s # {} PROVE F[Chosen(s)][g[s \ {Chosen(s)}]] = f[Chosen(s)] + g[s \ {Chosen(s)}]
    <3>1. Chosen(s) \in S /\ g[s \ {Chosen(s)}] \in Int
      BY <2>3 DEF Chosen
    <3>2. QED
      BY <3>1
  <2> HIDE DEF F, ch
  <2>4. QED
    BY <2>1, <2>2, <2>3
<1>5. Rec(g)
  <2> DEFINE h == [s \in SUBSET S |-> IF s = {} THEN 0 ELSE f[Chosen(s)] + g[s \ {Chosen(s)}]]
  <2>1. \A s \in SUBSET S : g[s] = h[s]
    BY <1>4
  <2> HIDE DEF h
  <2>2. g = h
    BY <2>1 DEF h
  <2>3. QED
    BY <2>2 DEF h
<1>6. Rec(CHOOSE h : Rec(h))
  BY <1>5
<1>7. SumFunctionOnSet(f, S) = (CHOOSE h : Rec(h))[S]
  BY DEF SumFunctionOnSet, FoldFunctionOnSet, MapThenFoldSet, Chosen
<1> DEFINE k == CHOOSE h : Rec(h)
<1>8. \A s \in SUBSET S : k[s] = IF s = {} THEN 0 ELSE f[Chosen(s)] + k[s \ {Chosen(s)}]
  BY <1>6
<1> HIDE DEF k
<1> DEFINE D == {s \in SUBSET S : k[s] # g[s]}
<1>9. D = {}
  <2>1. SUFFICES ASSUME D # {} PROVE FALSE
    OBVIOUS
  <2>2. PICK s \in D : \A t \in D : t \subseteq s => t = s
    <3>1. D \in SUBSET (SUBSET S)
      OBVIOUS
    <3> HIDE DEF D
    <3>2. QED
      BY <2>1, <3>1, MinimalSubset
  <2>3. s # {}
    BY <1>4, <1>8
  <2>4. Chosen(s) \in s
    BY <2>3 DEF Chosen
  <2>5. s \ {Chosen(s)} \notin D /\ s \ {Chosen(s)} \in SUBSET S
    BY <2>2, <2>4
  <2>6. QED
    BY <2>2, <2>3, <2>5, <1>4, <1>8
<1>10. SumFunctionOnSet(f, S) = g[S]
  BY <1>7, <1>9 DEF k
<1>11. QED
  BY <1>4, <1>10 DEF Sums

\* The fold of a subset is the sum over that subset.
LEMMA SumChosen ==
  ASSUME NEW S, IsFiniteSet(S), NEW f, \A x \in S : f[x] \in Int
  PROVE  /\ SumFunctionOnSet(f, S) \in Int
         /\ S = {} => SumFunctionOnSet(f, S) = 0
         /\ S # {} => SumFunctionOnSet(f, S) = f[Chosen(S)] + SumFunctionOnSet(f, S \ {Chosen(S)})
<1>1. PICK g \in [SUBSET S -> Int] :
        SumFunctionOnSet(f, S) = g[S] /\ Sums(g, f, S)
  BY SumIsFold
<1> DEFINE T == S \ {Chosen(S)}
<1>2. T \in SUBSET S /\ IsFiniteSet(T) /\ \A x \in T : f[x] \in Int
  BY FS_RemoveElement
<1>3. PICK h \in [SUBSET T -> Int] :
        SumFunctionOnSet(f, T) = h[T] /\ Sums(h, f, T)
  <2> HIDE DEF T
  <2>1. IsFiniteSet(T) /\ \A x \in T : f[x] \in Int
    BY <1>2
  <2>2. QED
    BY <2>1, SumIsFold
<1> DEFINE D == {s \in SUBSET T : h[s] # g[s]}
<1>4. D = {}
  <2>1. SUFFICES ASSUME D # {} PROVE FALSE
    OBVIOUS
  <2>2. PICK s \in D : \A t \in D : t \subseteq s => t = s
    <3>1. D \in SUBSET (SUBSET T)
      OBVIOUS
    <3> HIDE DEF D, T
    <3>2. QED
      BY <2>1, <3>1, <1>2, MinimalSubset
  <2>3. s # {}
    BY <1>1, <1>3 DEF Sums
  <2>4. Chosen(s) \in s
    BY <2>3 DEF Chosen
  <2>5. s \ {Chosen(s)} \notin D /\ s \ {Chosen(s)} \in SUBSET T
    BY <2>2, <2>4
  <2>6. s \in SUBSET S
    OBVIOUS
  <2>7. QED
    BY <2>2, <2>3, <2>5, <2>6, <1>1, <1>3 DEF Sums
<1>5. SumFunctionOnSet(f, T) = g[T]
  BY <1>3, <1>4
<1>6. QED
  BY <1>1, <1>2, <1>5 DEF Sums

\* A sum may take any element first.
LEMMA SumTakes ==
  ASSUME NEW S, IsFiniteSet(S), NEW f, \A x \in S : f[x] \in Int, NEW e \in S
  PROVE  SumFunctionOnSet(f, S) = f[e] + SumFunctionOnSet(f, S \ {e})
<1> DEFINE Sum(s) == SumFunctionOnSet(f, s)
           D == {s \in SUBSET S : \E x \in s : Sum(s) # f[x] + Sum(s \ {x})}
<1>1. D = {}
  <2>1. SUFFICES ASSUME D # {} PROVE FALSE
    OBVIOUS
  <2>2. PICK s \in D : \A t \in D : t \subseteq s => t = s
    <3>1. D \in SUBSET (SUBSET S)
      OBVIOUS
    <3> HIDE DEF D
    <3>2. QED
      BY <2>1, <3>1, MinimalSubset
  <2>3. PICK x \in s : Sum(s) # f[x] + Sum(s \ {x})
    BY <2>2
  <2> DEFINE c == Chosen(s)
  <2>4. c \in s /\ s \in SUBSET S
    BY <2>3 DEF Chosen
  <2>5. \A t \in SUBSET S : Sum(t) \in Int /\ (t # {} => Sum(t) = f[Chosen(t)] + Sum(t \ {Chosen(t)}))
    BY FS_Subset, SumChosen
  <2>6. Sum(s) = f[c] + Sum(s \ {c})
    BY <2>4, <2>5
  <2> HIDE DEF c
  <2>7. c # x
    BY <2>3, <2>6
  <2>8. s \ {c} \notin D /\ s \ {x} \notin D /\ x \in s \ {c} /\ c \in s \ {x}
    BY <2>2, <2>4, <2>7
  <2>9. s \ {c} \in SUBSET S /\ s \ {x} \in SUBSET S
    OBVIOUS
  <2> HIDE DEF Sum
  <2>10. /\ Sum(s \ {c}) = f[x] + Sum((s \ {c}) \ {x})
         /\ Sum(s \ {x}) = f[c] + Sum((s \ {x}) \ {c})
    BY <2>8, <2>9
  <2>11. Sum((s \ {c}) \ {x}) = Sum((s \ {x}) \ {c})
    <3>1. (s \ {c}) \ {x} = (s \ {x}) \ {c}
      OBVIOUS
    <3>2. QED
      BY <3>1
  <2>12. f[c] \in Int /\ f[x] \in Int /\ Sum((s \ {x}) \ {c}) \in Int
    BY <2>4, <2>5, <2>9
  <2>13. QED
    BY <2>3, <2>6, <2>10, <2>11, <2>12
<1>2. QED
  BY <1>1

\* A sum is of the values at the elements, and of numbers not negative is none.
LEMMA SumAgrees ==
  ASSUME NEW S, IsFiniteSet(S), NEW f, NEW g,
         \A x \in S : f[x] \in Int /\ g[x] = f[x]
  PROVE  SumFunctionOnSet(f, S) = SumFunctionOnSet(g, S)
<1> DEFINE D == {s \in SUBSET S : SumFunctionOnSet(f, s) # SumFunctionOnSet(g, s)}
<1>1. D = {}
  <2>1. SUFFICES ASSUME D # {} PROVE FALSE
    OBVIOUS
  <2>2. PICK s \in D : \A t \in D : t \subseteq s => t = s
    <3>1. D \in SUBSET (SUBSET S)
      OBVIOUS
    <3> HIDE DEF D
    <3>2. QED
      BY <2>1, <3>1, MinimalSubset
  <2>3. s \in SUBSET S /\ IsFiniteSet(s)
    BY FS_Subset
  <2>4. \A x \in s : f[x] \in Int /\ g[x] \in Int
    BY <2>3
  <2>5. s # {}
    BY <2>2, <2>3, <2>4, SumChosen
  <2>6. Chosen(s) \in s
    BY <2>5 DEF Chosen
  <2>7. SumFunctionOnSet(f, s \ {Chosen(s)}) = SumFunctionOnSet(g, s \ {Chosen(s)})
    BY <2>2, <2>6
  <2>8. f[Chosen(s)] = g[Chosen(s)]
    BY <2>3, <2>6
  <2>9. QED
    BY <2>2, <2>3, <2>4, <2>5, <2>7, <2>8, SumChosen
<1>2. QED
  BY <1>1

LEMMA SumNatural ==
  ASSUME NEW S, IsFiniteSet(S), NEW f, \A x \in S : f[x] \in Nat
  PROVE  SumFunctionOnSet(f, S) \in Nat
<1> DEFINE D == {s \in SUBSET S : SumFunctionOnSet(f, s) \notin Nat}
<1>1. D = {}
  <2>1. SUFFICES ASSUME D # {} PROVE FALSE
    OBVIOUS
  <2>2. PICK s \in D : \A t \in D : t \subseteq s => t = s
    <3>1. D \in SUBSET (SUBSET S)
      OBVIOUS
    <3> HIDE DEF D
    <3>2. QED
      BY <2>1, <3>1, MinimalSubset
  <2>3. s \in SUBSET S /\ IsFiniteSet(s)
    BY FS_Subset
  <2>4. \A x \in s : f[x] \in Int
    BY <2>3
  <2>5. s # {}
    <3>1. s = {} => SumFunctionOnSet(f, s) = 0
      BY <2>3, <2>4, SumChosen
    <3>2. QED
      BY <2>2, <3>1
  <2>6. Chosen(s) \in s
    BY <2>5 DEF Chosen
  <2>7. SumFunctionOnSet(f, s \ {Chosen(s)}) \in Nat
    BY <2>2, <2>6
  <2>8. f[Chosen(s)] \in Nat
    BY <2>3, <2>6
  <2>9. SumFunctionOnSet(f, s) = f[Chosen(s)] + SumFunctionOnSet(f, s \ {Chosen(s)})
    BY <2>3, <2>4, <2>5, SumChosen
  <2>10. QED
    BY <2>2, <2>7, <2>8, <2>9
<1>2. QED
  BY <1>1

-----------------------------------------------------------------------------
(* What the helpers return. *)

LEMMA AskedType ==
  ASSUME NEW want \in [Keys -> 0 .. MaxQty], NEW i \in Items
  PROVE  Asked(want, i) \in 0 .. MaxQty
<1> DEFINE K == {k \in Keys : ItemOf[k] = i}
<1>1. IsFiniteSet(K)
  BY CheckoutAssumption, FS_Subset
<1>2. \A k \in K : want[k] \in Nat
  BY CheckoutAssumption
<1>3. SumFunctionOnSet(want, K) \in Nat
  <2> HIDE DEF K
  <2>1. QED
    BY <1>1, <1>2, SumNatural
<1>4. QED
  BY <1>3, CheckoutAssumption DEF Asked, Smaller

LEMMA LeftType ==
  ASSUME TypeOK, NEW want \in [Keys -> 0 .. MaxQty], NEW i \in Items
  PROVE  Left(want, i) \in 0 .. MaxQty /\ Left(want, i) <= PerOrder[i]
<1>1. Asked(want, i) \in 0 .. MaxQty
  BY AskedType
<1>2. stock[i] \in Stock /\ PerOrder[i] \in 1 .. MaxQty /\ MaxQty \in Nat /\ MaxUnits \in Nat
  BY CheckoutAssumption DEF TypeOK
<1>3. QED
  BY <1>1, <1>2 DEF Left, Smaller, Stock, Gone, Untracked

LEMMA QuoteType ==
  ASSUME TypeOK, NEW want \in [Keys -> 0 .. MaxQty]
  PROVE  QuoteLines(want) \in Lines
BY LeftType DEF QuoteLines, Lines

LEMMA TotalType ==
  ASSUME TypeOK, NEW lines \in Lines, NEW off \in BOOLEAN
  PROVE  Total(lines, off) \in Nat
<1> DEFINE f == [i \in Items |-> price[i] * lines[i]]
<1>1. \A i \in Items : f[i] \in Nat
  <2>1. \A i \in Items : price[i] \in Nat /\ lines[i] \in Nat
    <3>1. price \in [Items -> Prices] /\ Prices \subseteq Nat
      BY CheckoutAssumption DEF TypeOK
    <3>2. lines \in [Items -> 0 .. MaxQty] /\ MaxQty \in Nat
      BY CheckoutAssumption DEF Lines
    <3> HIDE DEF f
    <3>3. \A i \in Items : price[i] \in Nat
      BY <3>1
    <3>4. \A i \in Items : lines[i] \in Nat
      BY <3>2
    <3>5. QED
      BY <3>3, <3>4
  <2>2. \A m, n \in Nat : m * n \in Nat
    OBVIOUS
  <2>3. QED
    BY <2>1, <2>2
<1>2. SumFunctionOnSet(f, Items) \in Nat
  <2> HIDE DEF f
  <2>1. QED
    BY <1>1, CheckoutAssumption, SumNatural
<1>3. QED
  BY <1>2, CheckoutAssumption DEF Total, Smaller

LEMMA QuotedType ==
  ASSUME TypeOK, NEW code \in BOOLEAN
  PROVE  Quoted(code) \in [want: [Keys -> 0 .. MaxQty], coupon: BOOLEAN, shown: BOOLEAN, total: Nat]
<1>1. cart.want \in [Keys -> 0 .. MaxQty]
  BY DEF TypeOK
<1>2. QuoteLines(cart.want) \in Lines
  BY <1>1, QuoteType
<1>3. Adopted(QuoteLines(cart.want)) \in [Keys -> 0 .. MaxQty]
  BY <1>2, CheckoutAssumption DEF Adopted, Lines
<1>4. (code /\ CouponApplies) \in BOOLEAN
  BY DEF CouponApplies
<1>5. Total(QuoteLines(cart.want), code /\ CouponApplies) \in Nat
  BY <1>2, <1>4, TotalType
<1>6. QED
  BY <1>3, <1>5 DEF Quoted

LEMMA MarksType ==
  ASSUME NEW counts \in [Items -> Stock] PROVE Marks(counts) \in [Items -> Stock]
BY CheckoutAssumption DEF Marks, Mark, Stock, Gone, Untracked

LEMMA TakeType ==
  ASSUME TypeOK, NEW lines \in Lines, CanTake(lines)
  PROVE  Take(lines) \in [Items -> Stock]
<1> SUFFICES ASSUME NEW i \in Items
             PROVE (IF stock[i] >= 0 THEN stock[i] - lines[i] ELSE stock[i]) \in Stock
  BY DEF Take
<1>1. stock[i] \in Stock /\ lines[i] \in 0 .. MaxQty /\ MaxQty \in Nat /\ MaxUnits \in Nat
  BY CheckoutAssumption DEF TypeOK, Lines
<1>2. lines[i] > 0 => stock[i] = Untracked \/ stock[i] >= lines[i]
  BY DEF CanTake
<1>3. QED
  BY <1>1, <1>2 DEF Stock, Gone, Untracked

LEMMA GiveType ==
  ASSUME TypeOK, NEW lines \in Lines, WithinUnits(Give(lines))
  PROVE  Give(lines) \in [Items -> Stock]
<1> SUFFICES ASSUME NEW i \in Items
             PROVE (IF stock[i] >= 0 THEN stock[i] + lines[i] ELSE stock[i]) \in Stock
  BY DEF Give
<1>1. stock[i] \in Stock /\ lines[i] \in 0 .. MaxQty /\ MaxQty \in Nat /\ MaxUnits \in Nat
  BY CheckoutAssumption DEF TypeOK, Lines
<1>2. (IF stock[i] >= 0 THEN stock[i] + lines[i] ELSE stock[i]) <= MaxUnits
  BY DEF WithinUnits, Give
<1>3. QED
  BY <1>1, <1>2 DEF Stock, Gone, Untracked

-----------------------------------------------------------------------------
(* The orders that stand, and what one more or one less of them changes. *)

Carts == [want: [Keys -> 0 .. MaxQty], coupon: BOOLEAN, shown: BOOLEAN, total: Nat]
OrderRows == [status: {"none", "active", "cancelled"}, lines: Lines, coupon: BOOLEAN, total: Nat]

\* Order o begins to stand in this step, and no other order changes.
Begins(o) ==
  /\ order[o].status # "active" /\ order'[o].status = "active"
  /\ \A p \in Orders \ {o} : order'[p] = order[p]

\* Order o stops standing in this step, and no other order changes.
Stops(o) ==
  /\ order[o].status = "active" /\ order'[o].status # "active"
  /\ order'[o].lines = order[o].lines /\ order'[o].coupon = order[o].coupon
  /\ \A p \in Orders \ {o} : order'[p] = order[p]

LEMMA ActiveFinite == IsFiniteSet(Active) /\ IsFiniteSet(Active')
<1>1. Active \subseteq Orders /\ Active' \subseteq Orders
  BY DEF Active
<1>2. QED
  BY <1>1, CheckoutAssumption, FS_Subset

LEMMA SoldBegins ==
  ASSUME TypeOK, TypeOK', NEW o \in Orders, Begins(o), NEW i \in Items
  PROVE  Sold(i)' = Sold(i) + order'[o].lines[i] /\ Sold(i) \in Int
<1> DEFINE f == [p \in Orders |-> order[p].lines[i]]
           g == [p \in Orders |-> order'[p].lines[i]]
<1>1. \A p \in Orders : f[p] \in Int /\ g[p] \in Int
  BY CheckoutAssumption DEF TypeOK, Lines
<1>2. Active' = Active \cup {o} /\ o \in Active' /\ Active' \ {o} = Active
  BY DEF Active, Begins
<1>3. \A p \in Active : g[p] = f[p] /\ f[p] \in Int
  BY <1>1 DEF Active, Begins
<1>4. g[o] = order'[o].lines[i] /\ Sold(i) = SumFunctionOnSet(f, Active)
      /\ Sold(i)' = SumFunctionOnSet(g, Active')
  BY DEF Sold
<1>5. \A p \in Active' : g[p] \in Int
  BY <1>1 DEF Active
<1> HIDE DEF f, g
<1>6. SumFunctionOnSet(g, Active') = g[o] + SumFunctionOnSet(g, Active' \ {o})
  BY <1>2, <1>5, ActiveFinite, SumTakes
<1>7. SumFunctionOnSet(f, Active) = SumFunctionOnSet(g, Active) /\ SumFunctionOnSet(f, Active) \in Int
  BY <1>3, ActiveFinite, SumAgrees, SumChosen
<1>8. g[o] \in Int
  BY <1>1
<1>9. SumFunctionOnSet(g, Active' \ {o}) = SumFunctionOnSet(f, Active)
  BY <1>2, <1>7
<1>10. QED
  BY <1>4, <1>6, <1>7, <1>8, <1>9

LEMMA SoldStops ==
  ASSUME TypeOK, TypeOK', NEW o \in Orders, Stops(o), NEW i \in Items
  PROVE  Sold(i)' = Sold(i) - order[o].lines[i] /\ Sold(i) \in Int
<1> DEFINE f == [p \in Orders |-> order[p].lines[i]]
           g == [p \in Orders |-> order'[p].lines[i]]
<1>1. \A p \in Orders : f[p] \in Int /\ g[p] \in Int
  BY CheckoutAssumption DEF TypeOK, Lines
<1>2. Active' = Active \ {o} /\ o \in Active
  BY DEF Active, Stops
<1>3. \A p \in Active' : g[p] = f[p] /\ f[p] \in Int
  BY <1>1 DEF Active, Stops
<1>4. f[o] = order[o].lines[i] /\ Sold(i) = SumFunctionOnSet(f, Active)
      /\ Sold(i)' = SumFunctionOnSet(g, Active')
  BY DEF Sold
<1>5. \A p \in Active : f[p] \in Int
  BY <1>1 DEF Active
<1> HIDE DEF f, g
<1>6. SumFunctionOnSet(f, Active) = f[o] + SumFunctionOnSet(f, Active \ {o})
  BY <1>2, <1>5, ActiveFinite, SumTakes
<1>7. SumFunctionOnSet(f, Active') = SumFunctionOnSet(g, Active') /\ SumFunctionOnSet(f, Active') \in Int
  BY <1>3, ActiveFinite, SumAgrees, SumChosen
<1>8. f[o] \in Int /\ SumFunctionOnSet(f, Active) \in Int
  BY <1>1, <1>5, ActiveFinite, SumChosen
<1>9. QED
  BY <1>2, <1>4, <1>6, <1>7, <1>8

LEMMA SoldSame ==
  ASSUME TypeOK, TypeOK', order' = order, NEW i \in Items
  PROVE  Sold(i)' = Sold(i) /\ Sold(i) \in Int
<1> DEFINE f == [p \in Orders |-> order[p].lines[i]]
<1>1. \A p \in Active : f[p] \in Int
  BY CheckoutAssumption DEF TypeOK, Lines, Active
<1>2. Sold(i) = SumFunctionOnSet(f, Active) /\ Sold(i)' = Sold(i)
  BY DEF Sold, Active
<1> HIDE DEF f
<1>3. QED
  BY <1>1, <1>2, ActiveFinite, SumChosen

\* The same of the uses of the coupon.
Users == {o \in Active : order[o].coupon}

LEMMA UsersFinite ==
  /\ IsFiniteSet(Users) /\ Cardinality(Users) \in Nat
  /\ Cardinality(Users) <= Cardinality(Orders) /\ CouponUses = Cardinality(Users)
<1>1. Users \in SUBSET Orders
  BY DEF Users, Active
<1>2. CouponUses = Cardinality(Users)
  BY DEF CouponUses, Users
<1>3. QED
  BY <1>1, <1>2, CheckoutAssumption, FS_Subset, FS_CardinalityType

LEMMA UsesBegins ==
  ASSUME NEW o \in Orders, Begins(o)
  PROVE  /\ CouponUses \in Nat
         /\ CouponUses' = CouponUses + (IF order'[o].coupon THEN 1 ELSE 0)
<1>1. Users' = IF order'[o].coupon THEN Users \cup {o} ELSE Users
  BY DEF Users, Active, Begins
<1>2. o \notin Users
  BY DEF Users, Active, Begins
<1>3. CouponUses' = Cardinality(Users')
  BY DEF CouponUses, Users
<1>4. Cardinality(Users \cup {o}) = Cardinality(Users) + 1
  BY <1>2, UsersFinite, FS_AddElement
<1>5. QED
  BY <1>1, <1>3, <1>4, UsersFinite

LEMMA UsesStops ==
  ASSUME NEW o \in Orders, Stops(o)
  PROVE  /\ CouponUses \in Nat
         /\ order[o].coupon => CouponUses >= 1
         /\ CouponUses' = CouponUses - (IF order[o].coupon THEN 1 ELSE 0)
<1>1. Users' = Users \ {o} /\ (o \in Users <=> order[o].coupon)
  BY DEF Users, Active, Stops
<1>2. CouponUses' = Cardinality(Users')
  BY DEF CouponUses, Users
<1>3. Cardinality(Users') \in Nat
  BY <1>1, UsersFinite, FS_RemoveElement, FS_CardinalityType
<1>4. Cardinality(Users \ {o}) = IF o \in Users THEN Cardinality(Users) - 1 ELSE Cardinality(Users)
  BY UsersFinite, FS_RemoveElement
<1>5. QED
  BY <1>1, <1>2, <1>3, <1>4, UsersFinite

LEMMA UsesSame ==
  ASSUME order' = order PROVE CouponUses' = CouponUses /\ CouponUses \in Nat
<1>1. CouponUses' = CouponUses
  BY DEF CouponUses, Active
<1>2. QED
  BY <1>1, UsersFinite

-----------------------------------------------------------------------------
(* The three steps that move an order. *)

LEMMA PlaceFacts ==
  ASSUME TypeOK, NEW o \in Orders, PlaceOrder(o)
  PROVE  LET lines == QuoteLines(cart.want)
             off   == cart.coupon /\ CouponApplies
         IN /\ lines \in Lines /\ CanTake(lines) /\ stock' = Take(lines)
            /\ off \in BOOLEAN /\ (off => coupon.live)
            /\ coupon' = IF off THEN [coupon EXCEPT !.used = @ + 1] ELSE coupon
            /\ Begins(o) /\ order'[o].lines = lines /\ order'[o].coupon = off
            /\ order' \in [Orders -> OrderRows]
<1> DEFINE lines == QuoteLines(cart.want)
           off   == cart.coupon /\ CouponApplies
           new   == [status |-> "active", lines |-> lines, coupon |-> off, total |-> Total(lines, off)]
<1>1. cart.want \in [Keys -> 0 .. MaxQty]
  BY DEF TypeOK
<1>2. lines \in Lines
  BY <1>1, QuoteType
<1>3. off \in BOOLEAN /\ (off => coupon.live)
  BY DEF TypeOK, CouponApplies
<1>4. Total(lines, off) \in Nat
  <2> HIDE DEF lines, off
  <2>1. QED
    BY <1>2, <1>3, TotalType
<1>5. /\ order[o].status = "none" /\ CanTake(lines) /\ stock' = Take(lines)
      /\ coupon' = IF off THEN [coupon EXCEPT !.used = @ + 1] ELSE coupon
      /\ order' = [order EXCEPT ![o] = new]
  BY DEF PlaceOrder
<1>6. new \in OrderRows /\ new.status = "active" /\ new.lines = lines /\ new.coupon = off
  <2> HIDE DEF lines, off
  <2>1. QED
    BY <1>2, <1>3, <1>4 DEF OrderRows
<1>7. order \in [Orders -> OrderRows]
  BY DEF TypeOK, OrderRows
<1> HIDE DEF new
<1>8. order' \in [Orders -> OrderRows] /\ order'[o] = new /\ \A p \in Orders \ {o} : order'[p] = order[p]
  BY <1>5, <1>6, <1>7
<1> HIDE DEF lines, off
<1>9. Begins(o) /\ order'[o].lines = lines /\ order'[o].coupon = off
  BY <1>5, <1>6, <1>8 DEF Begins
<1>10. QED
  BY <1>2, <1>3, <1>5, <1>8, <1>9 DEF lines, off

LEMMA CancelFacts ==
  ASSUME TypeOK, NEW o \in Orders, Cancel(o)
  PROVE  /\ order[o].lines \in Lines /\ stock' = Give(order[o].lines)
         /\ WithinUnits(Give(order[o].lines))
         /\ Stops(o) /\ order' \in [Orders -> OrderRows]
<1>1. order \in [Orders -> OrderRows]
  BY DEF TypeOK, OrderRows
<1>2. order' = [order EXCEPT ![o] = [order[o] EXCEPT !.status = "cancelled"]]
  BY DEF Cancel
<1>3. order[o] \in OrderRows
  BY <1>1
<1>4. [order[o] EXCEPT !.status = "cancelled"] \in OrderRows
  BY <1>3 DEF OrderRows
<1>5. WithinUnits(Give(order[o].lines)) /\ stock' = Give(order[o].lines) /\ order[o].status = "active"
  BY DEF Cancel, WithinUnits
<1>6. QED
  BY <1>1, <1>2, <1>3, <1>4, <1>5 DEF Stops, OrderRows

LEMMA RestoreFacts ==
  ASSUME TypeOK, NEW o \in Orders, Restore(o)
  PROVE  /\ order[o].lines \in Lines /\ CanTake(order[o].lines) /\ stock' = Take(order[o].lines)
         /\ Begins(o) /\ order'[o].lines = order[o].lines /\ order'[o].coupon = order[o].coupon
         /\ order' \in [Orders -> OrderRows]
<1>1. order \in [Orders -> OrderRows]
  BY DEF TypeOK, OrderRows
<1>2. order' = [order EXCEPT ![o] = [order[o] EXCEPT !.status = "active"]]
  BY DEF Restore
<1>3. order[o] \in OrderRows
  BY <1>1
<1>4. [order[o] EXCEPT !.status = "active"] \in OrderRows
  BY <1>3 DEF OrderRows
<1>5. QED
  BY <1>1, <1>2, <1>3, <1>4 DEF Restore, Begins, OrderRows

-----------------------------------------------------------------------------
(* The uses of the coupon: never more than the orders that stand and hold one, *)
(* which is what bounds them, whatever is deleted and made again in between.   *)

\* A coupon that was deleted has no uses left to return.
GoneUnused == ~coupon.live => coupon.used = 0

IInv == TypeOK /\ UsesBacked /\ GoneUnused

CouponRows == [live: BOOLEAN, used: Nat, max: Limits]

\* What a step does to the uses.
UsesMove ==
  /\ coupon' \in CouponRows
  /\ coupon'.used <= CouponUses' /\ coupon'.used <= Cardinality(Orders)
  /\ ~coupon'.live => coupon'.used = 0
  /\ coupon.live /\ coupon'.live =>
       \/ coupon'.used - coupon.used = CouponUses' - CouponUses
       \/ coupon.used = 0 /\ coupon'.used = 0

LEMMA UsesStep == IInv /\ [Next]_vars => UsesMove
<1> SUFFICES ASSUME TypeOK, UsesBacked, GoneUnused, [Next]_vars PROVE UsesMove
  BY DEF IInv
<1>0. coupon \in CouponRows /\ CouponUses \in Nat /\ Cardinality(Orders) \in Nat
  BY CheckoutAssumption, UsersFinite, FS_CardinalityType DEF TypeOK, CouponRows
<1>a. CouponUses' \in Nat /\ CouponUses' <= Cardinality(Orders)
  <2>1. CouponUses' = Cardinality(Users') /\ Users' \in SUBSET Orders
    BY DEF CouponUses, Users, Active
  <2>2. QED
    BY <2>1, CheckoutAssumption, FS_Subset, FS_CardinalityType
<1>b. ASSUME order' = order, coupon' \in CouponRows, coupon'.used <= coupon.used,
             ~coupon'.live => coupon'.used = 0,
             coupon.live /\ coupon'.live => coupon'.used = coupon.used
      PROVE  UsesMove
  BY <1>0, <1>a, <1>b, UsesSame DEF UsesMove, UsesBacked, CouponRows
<1>c. ASSUME order' = order, coupon' = coupon PROVE UsesMove
  BY <1>0, <1>b, <1>c DEF GoneUnused, CouponRows
<1>1. ASSUME NEW o \in Orders, PlaceOrder(o) PROVE UsesMove
  <2> DEFINE off == cart.coupon /\ CouponApplies
  <2>1. /\ off \in BOOLEAN /\ (off => coupon.live)
        /\ coupon' = IF off THEN [coupon EXCEPT !.used = @ + 1] ELSE coupon
        /\ Begins(o) /\ order'[o].coupon = off
    BY <1>1, PlaceFacts
  <2> HIDE DEF off
  <2>2. CouponUses' = CouponUses + (IF off THEN 1 ELSE 0)
    BY <2>1, UsesBegins
  <2>3. QED
    BY <1>0, <1>a, <2>1, <2>2 DEF UsesMove, UsesBacked, GoneUnused, CouponRows
<1>2. ASSUME NEW o \in Orders, Cancel(o) PROVE UsesMove
  <2>1. Stops(o) /\ order[o].coupon \in BOOLEAN
    BY <1>2, CancelFacts DEF TypeOK
  <2>2. /\ order[o].coupon => CouponUses >= 1
        /\ CouponUses' = CouponUses - (IF order[o].coupon THEN 1 ELSE 0)
    BY <2>1, UsesStops
  <2>3. coupon' = IF order[o].coupon /\ coupon.live /\ coupon.used > 0
                  THEN [coupon EXCEPT !.used = @ - 1] ELSE coupon
    BY <1>2 DEF Cancel
  <2>4. QED
    BY <1>0, <1>a, <2>1, <2>2, <2>3 DEF UsesMove, UsesBacked, GoneUnused, CouponRows
<1>3. ASSUME NEW o \in Orders, Restore(o) PROVE UsesMove
  <2>1. Begins(o) /\ order'[o].coupon = order[o].coupon /\ order[o].coupon \in BOOLEAN
    BY <1>3, RestoreFacts DEF TypeOK
  <2>2. CouponUses' = CouponUses + (IF order[o].coupon THEN 1 ELSE 0)
    BY <2>1, UsesBegins
  <2>3. coupon' = IF order[o].coupon /\ coupon.live
                  THEN [coupon EXCEPT !.used = @ + 1] ELSE coupon
    BY <1>3 DEF Restore
  <2>4. QED
    BY <1>0, <1>a, <2>1, <2>2, <2>3 DEF UsesMove, UsesBacked, GoneUnused, CouponRows
<1>4. ASSUME NEW n \in Limits, SaveCoupon(n) PROVE UsesMove
  <2>1. /\ order' = order
        /\ coupon' = [live |-> TRUE, used |-> IF coupon.live THEN coupon.used ELSE 0, max |-> n]
    BY <1>4 DEF SaveCoupon
  <2>2. QED
    BY <1>0, <1>b, <2>1 DEF CouponRows
<1>5. CASE DeleteCoupon
  <2>1. order' = order /\ coupon' = [coupon EXCEPT !.live = FALSE, !.used = 0]
    BY <1>5 DEF DeleteCoupon
  <2>2. coupon' \in CouponRows /\ coupon'.used = 0 /\ coupon'.live = FALSE
    BY <1>0, <2>1 DEF CouponRows
  <2>3. coupon.used \in Nat
    BY <1>0 DEF CouponRows
  <2>4. QED
    BY <1>b, <2>1, <2>2, <2>3
<1>6. CASE OwnerEdits
  <2>1. \/ order' = order /\ coupon' = coupon
        \/ \E n \in Limits : SaveCoupon(n)
        \/ DeleteCoupon
    BY <1>6 DEF OwnerEdits, SetStock, EditorOpens, DeleteProduct, EditorSaves
  <2>2. QED
    BY <1>c, <1>4, <1>5, <2>1
<1>7. CASE UNCHANGED vars
  BY <1>7, <1>c DEF vars
<1>8. CASE \/ \E k \in Keys, n \in 0 .. MaxQty : SetQty(k, n)
           \/ \E code \in Codes : ShowQuote(code)
           \/ OrderRefused \/ Rebuild \/ RebuildLost
  BY <1>8, <1>c DEF SetQty, ShowQuote, OrderRefused, Rebuild, RebuildLost
<1>9. QED
  BY <1>1, <1>2, <1>3, <1>6, <1>7, <1>8 DEF Next

-----------------------------------------------------------------------------
(* The inductive invariant. *)

LEMMA InitIInv == Init => IInv
<1> SUFFICES ASSUME Init PROVE IInv
  OBVIOUS
<1>1. stock \in [Items -> Stock]
  BY CheckoutAssumption DEF Init, Stock
<1>2. pub \in [Items -> Stock]
  BY <1>1, MarksType DEF Init
<1>3. coupon \in [live: BOOLEAN, used: 0 .. Cardinality(Orders), max: Limits] /\ coupon.live /\ coupon.used = 0
  <2>1. 0 \in 0 .. Cardinality(Orders)
    BY CheckoutAssumption, FS_CardinalityType
  <2>2. coupon \in [live: {TRUE}, used: {0}, max: Limits]
    BY DEF Init
  <2>3. QED
    BY <2>1, <2>2
<1>4. NoLines \in Lines
  BY CheckoutAssumption DEF NoLines, Lines
<1>5. order \in [Orders -> OrderRows]
  BY <1>4 DEF Init, NoOrder, OrderRows
<1>6. cart \in Carts
  BY CheckoutAssumption DEF Init, NoCart, Carts
<1>7. form \in SUBSET Form
  BY DEF Init
<1>8. TypeOK
  BY <1>1, <1>2, <1>3, <1>5, <1>6, <1>7 DEF Init, TypeOK, OrderRows, Carts
<1>9. CouponUses \in Nat
  BY UsersFinite
<1>10. QED
  BY <1>3, <1>8, <1>9 DEF IInv, UsesBacked, GoneUnused

\* What is sold and what the storefront says of it.
LEMMA TypeStep == IInv /\ [Next]_vars => TypeOK'
<1> SUFFICES ASSUME TypeOK, IInv, [Next]_vars PROVE TypeOK'
  BY DEF IInv
<1> DEFINE Shop == /\ stock' \in [Items -> Stock] /\ price' \in [Items -> Prices]
                   /\ pub' \in [Items -> Stock] /\ timer' \in BOOLEAN /\ missed' \in BOOLEAN
           Rows == /\ order' \in [Orders -> OrderRows] /\ cart' \in Carts /\ form' \in SUBSET Form
<1>0. /\ stock \in [Items -> Stock] /\ price \in [Items -> Prices] /\ pub \in [Items -> Stock]
      /\ timer \in BOOLEAN /\ missed \in BOOLEAN
      /\ order \in [Orders -> OrderRows] /\ cart \in Carts /\ form \in SUBSET Form
  BY DEF TypeOK, OrderRows, Carts
<1>a. NoCart \in Carts
  BY CheckoutAssumption DEF NoCart, Carts
<1>b. ASSUME stock' \in [Items -> Stock], Publish PROVE pub' \in [Items -> Stock] /\ missed' \in BOOLEAN
  <2>1. Marks(stock') \in [Items -> Stock]
    BY <1>b, MarksType
  <2>2. QED
    BY <1>0, <1>b, <2>1 DEF Publish
<1>c. ASSUME NEW i \in Items, NEW n \in Stock PROVE [stock EXCEPT ![i] = n] \in [Items -> Stock]
  BY <1>0
<1>1. ASSUME NEW k \in Keys, NEW n \in 0 .. MaxQty, SetQty(k, n) PROVE Shop /\ Rows
  <2>1. cart' \in Carts
    BY <1>0, <1>1 DEF SetQty, Carts
  <2>2. QED
    BY <1>0, <1>1, <2>1 DEF SetQty
<1>2. ASSUME NEW code \in Codes, ShowQuote(code) PROVE Shop /\ Rows
  <2>1. cart' \in Carts
    BY <1>2, QuotedType, CheckoutAssumption DEF ShowQuote, Carts
  <2>2. QED
    BY <1>0, <1>2, <2>1 DEF ShowQuote
<1>3. ASSUME OrderRefused PROVE Shop /\ Rows
  <2>1. cart.coupon \in BOOLEAN
    BY DEF TypeOK
  <2>2. cart' \in Carts
    BY <1>3, <2>1, QuotedType DEF OrderRefused, Carts
  <2>3. QED
    BY <1>0, <1>3, <2>2 DEF OrderRefused
<1>4. ASSUME NEW o \in Orders, PlaceOrder(o) PROVE Shop /\ Rows
  <2>1. stock' \in [Items -> Stock] /\ order' \in [Orders -> OrderRows]
    BY <1>4, PlaceFacts, TakeType
  <2>2. cart' = NoCart /\ timer' \in BOOLEAN /\ UNCHANGED <<price, form, pub, missed>>
    BY <1>0, <1>4 DEF PlaceOrder
  <2>3. QED
    BY <1>0, <1>a, <2>1, <2>2
<1>5. ASSUME NEW o \in Orders, Cancel(o) PROVE Shop /\ Rows
  <2>1. stock' \in [Items -> Stock] /\ order' \in [Orders -> OrderRows]
    BY <1>5, CancelFacts, GiveType
  <2>2. QED
    BY <1>0, <1>5, <2>1 DEF Cancel
<1>6. ASSUME NEW o \in Orders, Restore(o) PROVE Shop /\ Rows
  <2>1. stock' \in [Items -> Stock] /\ order' \in [Orders -> OrderRows]
    BY <1>6, RestoreFacts, TakeType
  <2>2. QED
    BY <1>0, <1>6, <2>1 DEF Restore
<1>7. ASSUME NEW i \in Items, NEW n \in {Untracked} \cup 0 .. MaxStock, SetStock(i, n) PROVE Shop /\ Rows
  <2>1. n \in Stock
    BY CheckoutAssumption DEF Stock
  <2>2. stock' \in [Items -> Stock] /\ Publish
    BY <1>7, <1>c, <2>1 DEF SetStock
  <2>3. QED
    BY <1>0, <1>7, <1>b, <2>2 DEF SetStock
<1>8. ASSUME NEW i \in Items, EditorOpens(i) PROVE Shop /\ Rows
  <2>1. [item |-> i, stock |-> stock[i]] \in Form
    BY <1>0 DEF Form
  <2>2. QED
    BY <1>0, <1>8, <2>1 DEF EditorOpens
<1>9. ASSUME NEW i \in Items, DeleteProduct(i) PROVE Shop /\ Rows
  <2>1. Gone \in Stock
    BY DEF Stock
  <2>2. stock' \in [Items -> Stock] /\ Publish
    BY <1>9, <1>c, <2>1 DEF DeleteProduct
  <2>3. QED
    BY <1>0, <1>9, <1>b, <2>2 DEF DeleteProduct
<1>10. ASSUME NEW p \in Prices, EditorSaves(p) PROVE Shop /\ Rows
  <2>1. PICK f \in form : /\ price' = [price EXCEPT ![f.item] = p]
                          /\ stock' = [stock EXCEPT ![f.item] = f.stock]
    BY <1>10 DEF EditorSaves
  <2>2. f.item \in Items /\ f.stock \in Stock
    BY <1>0 DEF Form
  <2>3. stock' \in [Items -> Stock] /\ price' \in [Items -> Prices] /\ Publish
    BY <1>0, <1>10, <1>c, <2>1, <2>2 DEF EditorSaves
  <2>4. QED
    BY <1>0, <1>10, <1>b, <2>3 DEF EditorSaves
<1>11. ASSUME NEW n \in Limits, SaveCoupon(n) PROVE Shop /\ Rows
  BY <1>0, <1>11 DEF SaveCoupon
<1>12. ASSUME DeleteCoupon PROVE Shop /\ Rows
  BY <1>0, <1>12 DEF DeleteCoupon
<1>13. ASSUME Rebuild PROVE Shop /\ Rows
  BY <1>0, <1>13, MarksType DEF Rebuild
<1>14. ASSUME RebuildLost PROVE Shop /\ Rows
  BY <1>0, <1>14 DEF RebuildLost
<1>15. ASSUME UNCHANGED vars PROVE Shop /\ Rows
  BY <1>0, <1>15 DEF vars
<1>16. Shop /\ Rows
  BY <1>1, <1>2, <1>3, <1>4, <1>5, <1>6, <1>7, <1>8, <1>9, <1>10, <1>11, <1>12, <1>13, <1>14, <1>15
     DEF Next, OwnerEdits
<1>17. coupon' \in [live: BOOLEAN, used: 0 .. Cardinality(Orders), max: Limits]
  <2>1. coupon' \in CouponRows /\ coupon'.used <= Cardinality(Orders)
    BY UsesStep DEF UsesMove
  <2>2. Cardinality(Orders) \in Nat
    BY CheckoutAssumption, FS_CardinalityType
  <2>3. QED
    BY <2>1, <2>2 DEF CouponRows
<1>18. QED
  BY <1>16, <1>17 DEF TypeOK, OrderRows, Carts

LEMMA NextIInv == IInv /\ [Next]_vars => IInv'
BY TypeStep, UsesStep DEF IInv, UsesMove, UsesBacked, GoneUnused

THEOREM Inductive == Spec => []IInv
<1>1. Init => IInv
  BY InitIInv
<1>2. IInv /\ [Next]_vars => IInv'
  BY NextIInv
<1>3. QED
  BY <1>1, <1>2, PTL DEF Spec

\* Every variable has its type, and the bounds of the model hold: no count passes
\* MaxUnits or sinks below none, and the coupon has no more uses than orders.
THEOREM TypeCorrect == Spec => []TypeOK
<1>1. IInv => TypeOK
  BY DEF IInv
<1>2. QED
  BY <1>1, Inductive, PTL

\* The coupon is never charged with a use that no standing order holds, whatever
\* is cancelled, restored, deleted and made again (setStatus, placeOrder).
THEOREM UsesAreBacked == Spec => []UsesBacked
<1>1. IInv => UsesBacked
  BY DEF IInv
<1>2. QED
  BY <1>1, Inductive, PTL

-----------------------------------------------------------------------------
(* The properties of steps. *)

\* The uses of the coupon move with the orders that stand and hold it.
THEOREM UsesFollow == Spec => UsesFollowOrders
<1>1. IInv /\ [Next]_vars =>
        [coupon.live /\ coupon'.live =>
           \/ coupon'.used - coupon.used = CouponUses' - CouponUses
           \/ coupon.used = 0 /\ coupon'.used = 0]_vars
  BY UsesStep DEF UsesMove
<1>2. QED
  BY <1>1, Inductive, PTL DEF Spec, UsesFollowOrders

\* A count moves by what the orders that stand hold more or less of the item: no
\* order takes twice, gives back twice, or takes one line of two.
THEOREM StockFollows == Spec => StockFollowsOrders
<1> DEFINE Moves == \A i \in Items : stock[i] >= 0 /\ stock'[i] >= 0 =>
                      OwnerEdits \/ stock'[i] - stock[i] = Sold(i) - Sold(i)'
<1>1. IInv /\ IInv' /\ [Next]_vars => Moves
  <2> SUFFICES ASSUME TypeOK, TypeOK', [Next]_vars, ~OwnerEdits,
                      NEW i \in Items, stock[i] >= 0, stock'[i] >= 0
               PROVE  stock'[i] - stock[i] = Sold(i) - Sold(i)'
    BY DEF IInv
  <2>0. stock[i] \in Int
    BY CheckoutAssumption DEF TypeOK, Stock, Gone, Untracked
  <2>a. ASSUME NEW lines \in Lines PROVE lines[i] \in Int
    BY CheckoutAssumption DEF Lines
  <2>1. ASSUME NEW o \in Orders, NEW lines \in Lines,
               stock' = Take(lines), Begins(o), order'[o].lines = lines
        PROVE  stock'[i] - stock[i] = Sold(i) - Sold(i)'
    <3>1. stock'[i] = stock[i] - lines[i]
      BY <2>1 DEF Take
    <3>2. Sold(i)' = Sold(i) + lines[i] /\ Sold(i) \in Int
      BY <2>1, SoldBegins
    <3>3. QED
      BY <2>0, <2>a, <3>1, <3>2
  <2>2. ASSUME NEW o \in Orders, PlaceOrder(o) PROVE stock'[i] - stock[i] = Sold(i) - Sold(i)'
    BY <2>1, <2>2, PlaceFacts
  <2>3. ASSUME NEW o \in Orders, Restore(o) PROVE stock'[i] - stock[i] = Sold(i) - Sold(i)'
    BY <2>1, <2>3, RestoreFacts
  <2>4. ASSUME NEW o \in Orders, Cancel(o) PROVE stock'[i] - stock[i] = Sold(i) - Sold(i)'
    <3>1. order[o].lines \in Lines /\ Stops(o)
      BY <2>4, CancelFacts
    <3>2. stock'[i] = stock[i] + order[o].lines[i]
      BY <2>4, CancelFacts DEF Give
    <3>3. Sold(i)' = Sold(i) - order[o].lines[i] /\ Sold(i) \in Int
      BY <3>1, SoldStops
    <3>4. QED
      BY <2>0, <2>a, <3>1, <3>2, <3>3
  <2>5. ASSUME stock' = stock, order' = order PROVE stock'[i] - stock[i] = Sold(i) - Sold(i)'
    BY <2>0, <2>5, SoldSame
  <2>6. CASE \/ \E k \in Keys, n \in 0 .. MaxQty : SetQty(k, n)
             \/ \E code \in Codes : ShowQuote(code)
             \/ OrderRefused \/ Rebuild \/ RebuildLost \/ UNCHANGED vars
    BY <2>5, <2>6 DEF SetQty, ShowQuote, OrderRefused, Rebuild, RebuildLost, vars
  <2>7. QED
    BY <2>2, <2>3, <2>4, <2>6 DEF Next
<1>2. IInv /\ IInv' /\ [Next]_vars => [Moves]_vars
  BY <1>1
<1>3. Spec => [][Moves]_vars
  <2> HIDE DEF Moves
  <2>1. QED
    BY <1>2, Inductive, PTL DEF Spec
<1>4. QED
  BY <1>3 DEF StockFollowsOrders

\* What the storefront says of a count is true, or a rebuild is on its way, or one
\* was lost and none made since.
THEOREM Storefront == Spec => []StorefrontFollows
<1> USE DEF StorefrontFollows
<1>1. Init => StorefrontFollows
  BY DEF Init, Marks
<1>2. IInv /\ StorefrontFollows /\ [Next]_vars => StorefrontFollows'
  <2> SUFFICES ASSUME TypeOK, StorefrontFollows, [Next]_vars PROVE StorefrontFollows'
    BY DEF IInv
  <2>1. ASSUME Publish PROVE StorefrontFollows'
    BY <2>1 DEF Publish, Marks
  <2>2. CASE OwnerEdits
    <3>1. ASSUME NEW i \in Items, NEW n \in {Untracked} \cup 0 .. MaxStock, SetStock(i, n)
          PROVE  StorefrontFollows'
      BY <2>1, <3>1 DEF SetStock
    <3>2. ASSUME NEW i \in Items, DeleteProduct(i) PROVE StorefrontFollows'
      BY <2>1, <3>2 DEF DeleteProduct
    <3>3. ASSUME NEW p \in Prices, EditorSaves(p) PROVE StorefrontFollows'
      BY <2>1, <3>3 DEF EditorSaves
    <3>4. ASSUME UNCHANGED <<stock, pub, timer, missed>> PROVE StorefrontFollows'
      BY <3>4
    <3>5. QED
      BY <2>2, <3>1, <3>2, <3>3, <3>4 DEF OwnerEdits, EditorOpens, SaveCoupon, DeleteCoupon
  <2>3. ASSUME NEW o \in Orders, PlaceOrder(o) PROVE StorefrontFollows'
    <3>1. timer' = (timer \/ Marks(stock') # Marks(stock)) /\ pub' = pub /\ missed' = missed
      BY <2>3 DEF PlaceOrder
    <3>2. Marks(stock') = Marks(stock) => \A i \in Items : Mark(stock'[i]) = Mark(stock[i])
      <4>1. \A i \in Items : Marks(stock')[i] = Mark(stock'[i]) /\ Marks(stock)[i] = Mark(stock[i])
        BY DEF Marks
      <4>2. QED
        BY <4>1
    <3>3. QED
      BY <3>1, <3>2
  <2>4. ASSUME NEW o \in Orders, Cancel(o) \/ Restore(o) PROVE StorefrontFollows'
    BY <2>4 DEF Cancel, Restore
  <2>5. CASE Rebuild
    BY <2>5 DEF Rebuild, Marks
  <2>6. CASE RebuildLost
    BY <2>6 DEF RebuildLost
  <2>7. CASE \/ \E k \in Keys, n \in 0 .. MaxQty : SetQty(k, n)
             \/ \E code \in Codes : ShowQuote(code)
             \/ OrderRefused \/ UNCHANGED vars
    <3>1. UNCHANGED <<stock, pub, timer, missed>>
      BY <2>7 DEF SetQty, ShowQuote, OrderRefused, vars
    <3>2. QED
      BY <3>1
  <2>8. QED
    BY <2>2, <2>3, <2>4, <2>5, <2>6, <2>7 DEF Next
<1>3. QED
  BY <1>1, <1>2, Inductive, PTL DEF Spec

=============================================================================
