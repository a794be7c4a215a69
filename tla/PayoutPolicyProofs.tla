------------------------- MODULE PayoutPolicyProofs -------------------------
(***************************************************************************)
(* What the division of a reward computes, for any programs, weights,      *)
(* policy and settlement parameters: sums over finite sets, the            *)
(* largest-remainder split, the share window, the payout policy and the    *)
(* settlement of its outputs.                                              *)
(*                                                                         *)
(* Sums, the window and the selection of accounts are recursive functions. *)
(* A recursive function is a CHOOSE among the functions that satisfy its   *)
(* equation, so what it computes follows once one is shown to exist.       *)
(***************************************************************************)
EXTENDS PayoutPolicy, FiniteSetTheorems, WellFoundedInduction, TLAPS

-----------------------------------------------------------------------------
(* Induction over a set of numbers and over the subsets of a finite set.   *)

\* Numbers have a least one.
LEMMA LeastNumber ==
    ASSUME NEW N \in SUBSET Nat, N # {}
    PROVE  \E n \in N : \A m \in N : n <= m
  <1>1. PICK n \in N : \A m \in N : ~(<<m, n>> \in OpToRel(<, Nat))
    BY NatLessThanWellFounded, WFMin
  <1>2. ASSUME NEW m \in N PROVE n <= m
    <2>1. m \in Nat /\ n \in Nat OBVIOUS
    <2>2. ~(<<m, n>> \in OpToRel(<, Nat)) BY <1>1
    <2>3. ~(m < n) BY <2>1, <2>2 DEF OpToRel
    <2> QED BY <2>1, <2>3
  <1> QED BY <1>2

\* What holds of every set whose proper subsets it holds of, holds of every
\* subset of a finite set.
LEMMA SubsetInduction ==
    ASSUME NEW S, IsFiniteSet(S), NEW P,
           \A T \in SUBSET S :
              (\A U \in SUBSET T : U # T => U \in P) => T \in P
    PROVE  \A T \in SUBSET S : T \in P
  <1> SUFFICES ASSUME NEW B \in SUBSET S, B \notin P PROVE FALSE OBVIOUS
  <1> DEFINE bad == {T \in SUBSET S : T \notin P}
             sizes == {Cardinality(T) : T \in bad}
  <1>1. \A T \in SUBSET S : IsFiniteSet(T) /\ Cardinality(T) \in Nat
    BY FS_Subset, FS_CardinalityType
  <1>2. sizes \subseteq Nat /\ sizes # {} BY <1>1
  <1>3. PICK n \in sizes : \A m \in sizes : n <= m
    <2> HIDE DEF sizes
    <2> QED BY <1>2, LeastNumber
  <1>4. PICK T \in bad : n = Cardinality(T) OBVIOUS
  <1>5. ASSUME NEW U \in SUBSET T, U # T PROVE U \in P
    <2>1. Cardinality(U) < Cardinality(T) /\ Cardinality(U) \in Nat
          /\ Cardinality(T) \in Nat
      BY <1>1, <1>4, <1>5, FS_Subset
    <2>2. CASE U \in bad
      <3>1. Cardinality(U) \in sizes BY <2>2
      <3> QED BY <1>3, <1>4, <2>1, <3>1
    <2> QED BY <2>2
  <1> QED BY <1>4, <1>5

\* What holds of zero and of the successors of what it holds of, holds of
\* every natural number.
LEMMA FromZero ==
    ASSUME NEW P, 0 \in P, \A n \in Nat : n \in P => n + 1 \in P
    PROVE  Nat \subseteq P
  <1> SUFFICES ASSUME NEW k \in Nat, k \notin P PROVE FALSE OBVIOUS
  <1> DEFINE bad == {n \in Nat : n \notin P}
  <1>1. PICK n \in bad : \A m \in bad : n <= m
    BY LeastNumber
  <1>2. n # 0 /\ n \in Nat OBVIOUS
  <1>3. n - 1 \in Nat /\ n - 1 < n /\ (n - 1) + 1 = n BY <1>2
  <1>4. n - 1 \notin bad BY <1>1, <1>3
  <1> QED BY <1>3, <1>4

-----------------------------------------------------------------------------
(* Sums over a finite set.                                                 *)

\* How the fold of the community modules takes a set apart.
Pick(s) == CHOOSE x \in s : TRUE
Rest(s) == s \ {Pick(s)}
Step(f, g, s) == IF s = {} THEN 0 ELSE f[Pick(s)] + g[Rest(s)]
Solves(f, g, S) == g = [s \in SUBSET S |-> Step(f, g, s)]

\* Something is taken, and less is left.
LEMMA RestFacts ==
    ASSUME NEW s, s # {}
    PROVE  Pick(s) \in s /\ Rest(s) \subseteq s /\ Rest(s) # s
  BY DEF Pick, Rest

\* The recursion of a fold over a finite set has a solution.
LEMMA FoldExists ==
    ASSUME NEW f, NEW S, IsFiniteSet(S)
    PROVE  \E g : Solves(f, g, S)
  <1> DEFINE Upto(n) == {s \in SUBSET S : Cardinality(s) <= n}
             Solved(n) == \E g : g = [s \in Upto(n) |-> Step(f, g, s)]
             P == {n \in Nat : Solved(n)}
  <1>1. \A s \in SUBSET S : IsFiniteSet(s) /\ Cardinality(s) \in Nat
          /\ Cardinality(s) <= Cardinality(S)
    BY FS_Subset, FS_CardinalityType
  <1>2. 0 \in P
    <2>1. \A s \in Upto(0) : s = {} BY <1>1, FS_EmptySet
    <2> DEFINE g == [s \in Upto(0) |-> 0]
    <2>2. g = [s \in Upto(0) |-> Step(f, g, s)] BY <2>1 DEF Step
    <2> QED BY <2>2
  <1>3. ASSUME NEW n \in Nat, n \in P PROVE n + 1 \in P
    <2>1. PICK g : g = [s \in Upto(n) |-> Step(f, g, s)] BY <1>3
    <2> DEFINE h == [s \in Upto(n + 1) |-> Step(f, g, s)]
    <2>2. \A s \in Upto(n) : s \in Upto(n + 1) /\ h[s] = g[s]
      <3>1. \A s \in Upto(n) : s \in Upto(n + 1) BY <1>1
      <3> QED BY <2>1, <3>1
    <2>3. ASSUME NEW s \in Upto(n + 1), s # {} PROVE Rest(s) \in Upto(n)
      <3>1. Rest(s) \in SUBSET S /\ Rest(s) \subseteq s /\ Rest(s) # s
        BY <2>3, RestFacts
      <3>2. Cardinality(Rest(s)) < Cardinality(s) BY <1>1, <3>1, FS_Subset
      <3> QED BY <1>1, <3>1, <3>2
    <2>4. \A s \in Upto(n + 1) : Step(f, g, s) = Step(f, h, s)
      BY <2>2, <2>3 DEF Step
    <2>5. h = [s \in Upto(n + 1) |-> Step(f, h, s)] BY <2>4
    <2>6. Solved(n + 1)
      <3> HIDE DEF h
      <3> QED BY <2>5
    <2> HIDE DEF Solved
    <2> QED BY <2>6
  <1>4. Cardinality(S) \in P
    <2> HIDE DEF P
    <2> QED BY <1>1, <1>2, <1>3, FromZero
  <1>5. Upto(Cardinality(S)) = SUBSET S BY <1>1
  <1> QED BY <1>4, <1>5 DEF Solves

\* It has one solution, and solves the recursion of every subset.
LEMMA FoldUnique ==
    ASSUME NEW f, NEW S, IsFiniteSet(S), NEW T \in SUBSET S, NEW g, NEW h,
           Solves(f, g, S), Solves(f, h, T)
    PROVE  \A U \in SUBSET T : g[U] = h[U]
  <1> DEFINE P == {U \in SUBSET T : g[U] = h[U]}
  <1>1. IsFiniteSet(T) BY FS_Subset
  <1>2. ASSUME NEW U \in SUBSET T, \A V \in SUBSET U : V # U => V \in P
        PROVE  U \in P
    <2>1. g[U] = Step(f, g, U) /\ h[U] = Step(f, h, U) BY DEF Solves
    <2>2. U # {} => g[Rest(U)] = h[Rest(U)] BY <1>2, RestFacts
    <2> QED BY <2>1, <2>2 DEF Step
  <1>3. \A U \in SUBSET T : U \in P
    <2> HIDE DEF P
    <2> QED BY <1>1, <1>2, SubsetInduction
  <1> QED BY <1>3

\* A sum is the value of the solution.
LEMMA SumFolds ==
    ASSUME NEW f, NEW S, IsFiniteSet(S)
    PROVE  \E g : Solves(f, g, S) /\ g[S] = SumFunctionOnSet(f, S)
  <1> DEFINE g == CHOOSE g : Solves(f, g, S)
  <1>1. Solves(f, g, S) BY FoldExists
  <1>2. g[S] = SumFunctionOnSet(f, S)
    BY DEF SumFunctionOnSet, FoldFunctionOnSet, MapThenFoldSet, Solves, Step, Pick, Rest
  <1> QED BY <1>1, <1>2

\* A sum takes one element after the other.
LEMMA SumUnfolds ==
    ASSUME NEW f, NEW S, IsFiniteSet(S)
    PROVE  /\ SumFunctionOnSet(f, {}) = 0
           /\ S # {} => SumFunctionOnSet(f, S) =
                           f[Pick(S)] + SumFunctionOnSet(f, Rest(S))
  <1>1. PICK g : Solves(f, g, S) /\ g[S] = SumFunctionOnSet(f, S) BY SumFolds
  <1>2. IsFiniteSet({}) BY FS_EmptySet
  <1>3. PICK e : Solves(f, e, {}) /\ e[{}] = SumFunctionOnSet(f, {})
    BY <1>2, SumFolds
  <1>4. e[{}] = 0 BY <1>3 DEF Solves, Step
  <1>5. ASSUME S # {} PROVE g[Rest(S)] = SumFunctionOnSet(f, Rest(S))
    <2>1. Rest(S) \in SUBSET S BY <1>5, RestFacts
    <2>2. IsFiniteSet(Rest(S)) BY <2>1, FS_Subset
    <2>3. PICK h : Solves(f, h, Rest(S)) /\ h[Rest(S)] = SumFunctionOnSet(f, Rest(S))
      BY <2>2, SumFolds
    <2> QED BY <1>1, <2>1, <2>3, FoldUnique
  <1>6. g[S] = Step(f, g, S) BY <1>1 DEF Solves
  <1> QED BY <1>1, <1>3, <1>4, <1>5, <1>6 DEF Step

\* Nothing adds up to zero.
LEMMA SumEmpty == ASSUME NEW f PROVE SumFunctionOnSet(f, {}) = 0
  BY SumUnfolds, FS_EmptySet

\* Integers add up to an integer.
LEMMA SumType ==
    ASSUME NEW f, NEW S, IsFiniteSet(S), \A x \in S : f[x] \in Int
    PROVE  SumFunctionOnSet(f, S) \in Int
  <1> DEFINE P == {T \in SUBSET S : SumFunctionOnSet(f, T) \in Int}
  <1>1. ASSUME NEW T \in SUBSET S, \A U \in SUBSET T : U # T => U \in P
        PROVE  T \in P
    <2>1. IsFiniteSet(T) BY FS_Subset
    <2>2. CASE T = {} BY <2>2, SumEmpty
    <2>3. CASE T # {}
      <3>1. Pick(T) \in T /\ Rest(T) \in P BY <1>1, <2>3, RestFacts
      <3>2. f[Pick(T)] \in Int BY <3>1
      <3>3. SumFunctionOnSet(f, T) = f[Pick(T)] + SumFunctionOnSet(f, Rest(T))
        BY <2>1, <2>3, SumUnfolds
      <3> QED BY <3>1, <3>2, <3>3
    <2> QED BY <2>2, <2>3
  <1>2. \A T \in SUBSET S : T \in P
    <2> HIDE DEF P
    <2> QED BY <1>1, SubsetInduction
  <1> QED BY <1>2

\* Any element can be taken first.
LEMMA SumTakes ==
    ASSUME NEW f, NEW S, IsFiniteSet(S), \A y \in S : f[y] \in Int, NEW x \in S
    PROVE  SumFunctionOnSet(f, S) = f[x] + SumFunctionOnSet(f, S \ {x})
  <1> DEFINE Sum(T) == SumFunctionOnSet(f, T)
             P == {T \in SUBSET S : \A y \in T : Sum(T) = f[y] + Sum(T \ {y})}
  <1>1. ASSUME NEW T \in SUBSET S, \A U \in SUBSET T : U # T => U \in P
        PROVE  T \in P
    <2> SUFFICES ASSUME NEW y \in T PROVE Sum(T) = f[y] + Sum(T \ {y}) OBVIOUS
    <2>1. IsFiniteSet(T) BY FS_Subset
    <2> DEFINE p == Pick(T)
    <2>2. p \in T /\ Rest(T) = T \ {p} BY RestFacts DEF Rest
    <2>3. Sum(T) = f[p] + Sum(T \ {p}) BY <2>1, <2>2, SumUnfolds
    <2> HIDE DEF p
    <2>4. CASE y # p
      <3>1. T \ {p} \in P /\ T \ {y} \in P BY <1>1, <2>2
      <3>2. Sum(T \ {p}) = f[y] + Sum((T \ {p}) \ {y}) BY <2>4, <3>1
      <3>3. Sum(T \ {y}) = f[p] + Sum((T \ {y}) \ {p}) BY <2>2, <2>4, <3>1
      <3>4. (T \ {p}) \ {y} = (T \ {y}) \ {p} OBVIOUS
      <3>5. f[p] \in Int /\ f[y] \in Int BY <2>2
      <3>6. Sum((T \ {y}) \ {p}) \in Int
        <4>1. IsFiniteSet((T \ {y}) \ {p}) BY <2>1, FS_Subset
        <4> QED BY <4>1, SumType
      <3>7. Sum(T) = f[p] + (f[y] + Sum((T \ {y}) \ {p})) BY <2>3, <3>2, <3>4
      <3> HIDE DEF Sum, P
      <3>8. \A a, b, c \in Int : a + (b + c) = b + (a + c) OBVIOUS
      <3> QED BY <3>3, <3>5, <3>6, <3>7, <3>8
    <2> QED BY <2>3, <2>4
  <1>2. \A T \in SUBSET S : T \in P
    <2> HIDE DEF P
    <2> QED BY <1>1, SubsetInduction
  <1> QED BY <1>2

\* One element more.
LEMMA SumAdds ==
    ASSUME NEW f, NEW S, IsFiniteSet(S), NEW x, x \notin S,
           \A y \in S \cup {x} : f[y] \in Int
    PROVE  SumFunctionOnSet(f, S \cup {x}) = f[x] + SumFunctionOnSet(f, S)
  <1>1. IsFiniteSet(S \cup {x}) BY FS_AddElement
  <1>2. (S \cup {x}) \ {x} = S OBVIOUS
  <1>3. SumFunctionOnSet(f, S \cup {x}) = f[x] + SumFunctionOnSet(f, (S \cup {x}) \ {x})
    BY <1>1, SumTakes
  <1> QED BY <1>2, <1>3

\* Functions that agree on a set have the same sum.
LEMMA SumSame ==
    ASSUME NEW f, NEW g, NEW S, IsFiniteSet(S),
           \A x \in S : f[x] \in Int /\ f[x] = g[x]
    PROVE  SumFunctionOnSet(f, S) = SumFunctionOnSet(g, S)
  <1> DEFINE Same(T) == SumFunctionOnSet(f, T) = SumFunctionOnSet(g, T)
             P == {T \in SUBSET S : Same(T)}
  <1>1. ASSUME NEW T \in SUBSET S, \A U \in SUBSET T : U # T => U \in P
        PROVE  T \in P
    <2>1. IsFiniteSet(T) BY FS_Subset
    <2>2. CASE T = {} BY <2>2, SumEmpty
    <2>3. CASE T # {}
      <3>1. Pick(T) \in T /\ Rest(T) \in P BY <1>1, <2>3, RestFacts
      <3>2. Same(T) BY <2>1, <2>3, <3>1, SumUnfolds
      <3> QED BY <3>2
    <2> QED BY <2>2, <2>3
  <1>2. \A T \in SUBSET S : T \in P
    <2> HIDE DEF P
    <2> QED BY <1>1, SubsetInduction
  <1> QED BY <1>2

\* h is f and k times g; k times g; f and g.
Linear(h, f, k, g, S) ==
    \A x \in S : f[x] \in Int /\ g[x] \in Int /\ h[x] = f[x] + k * g[x]
Multiple(h, k, g, S) == \A x \in S : g[x] \in Int /\ h[x] = k * g[x]
Together(h, f, g, S) ==
    \A x \in S : f[x] \in Int /\ g[x] \in Int /\ h[x] = f[x] + g[x]

\* Sums are linear.
LEMMA SumLinear ==
    ASSUME NEW f, NEW g, NEW h, NEW S, IsFiniteSet(S), NEW k \in Int,
           Linear(h, f, k, g, S)
    PROVE  SumFunctionOnSet(h, S)
              = SumFunctionOnSet(f, S) + k * SumFunctionOnSet(g, S)
  <1> DEFINE Adds(T) == SumFunctionOnSet(h, T)
                             = SumFunctionOnSet(f, T) + k * SumFunctionOnSet(g, T)
             P == {T \in SUBSET S : Adds(T)}
  <1>x. \A x \in S : f[x] \in Int /\ g[x] \in Int /\ h[x] = f[x] + k * g[x]
    BY DEF Linear
  <1>1. ASSUME NEW T \in SUBSET S, \A U \in SUBSET T : U # T => U \in P
        PROVE  T \in P
    <2>1. IsFiniteSet(T) BY FS_Subset
    <2>2. CASE T = {}
      <3>1. Adds(T) BY <2>2, SumEmpty
      <3> QED BY <3>1
    <2>3. CASE T # {}
      <3> DEFINE x == Pick(T)
                 a == SumFunctionOnSet(f, Rest(T))
                 b == SumFunctionOnSet(g, Rest(T))
                 c == SumFunctionOnSet(h, Rest(T))
      <3>1. x \in T /\ Rest(T) \in P /\ IsFiniteSet(Rest(T))
            /\ Rest(T) \subseteq T
        BY <1>1, <2>1, <2>3, RestFacts, FS_Subset
      <3>2. /\ SumFunctionOnSet(f, T) = f[x] + a
            /\ SumFunctionOnSet(g, T) = g[x] + b
            /\ SumFunctionOnSet(h, T) = h[x] + c
        BY <2>1, <2>3, SumUnfolds
      <3>3. a \in Int /\ b \in Int
        <4>1. \A y \in Rest(T) : f[y] \in Int /\ g[y] \in Int BY <1>x, <3>1
        <4> QED BY <3>1, <4>1, SumType
      <3>4. c = a + k * b BY <3>1
      <3>5. f[x] \in Int /\ g[x] \in Int /\ h[x] = f[x] + k * g[x]
        BY <1>x, <3>1
      <3> HIDE DEF x, a, b, c
      <3>6. \A m, n \in Int : k * (m + n) = k * m + k * n
            /\ k * m \in Int /\ k * n \in Int
        OBVIOUS
      <3>7. (f[x] + k * g[x]) + (a + k * b) = (f[x] + a) + k * (g[x] + b)
        BY <3>3, <3>5, <3>6
      <3>8. Adds(T) BY <3>2, <3>4, <3>5, <3>7
      <3> QED BY <3>8
    <2> QED BY <2>2, <2>3
  <1>2. \A T \in SUBSET S : T \in P
    <2> HIDE DEF P
    <2> QED BY <1>1, SubsetInduction
  <1> QED BY <1>2

\* Larger values have a larger sum.
LEMMA SumMonotone ==
    ASSUME NEW f, NEW g, NEW S, IsFiniteSet(S),
           \A x \in S : f[x] \in Int /\ g[x] \in Int /\ f[x] <= g[x]
    PROVE  SumFunctionOnSet(f, S) <= SumFunctionOnSet(g, S)
  <1> DEFINE Below(T) == SumFunctionOnSet(f, T) <= SumFunctionOnSet(g, T)
             P == {T \in SUBSET S : Below(T)}
  <1>1. ASSUME NEW T \in SUBSET S, \A U \in SUBSET T : U # T => U \in P
        PROVE  T \in P
    <2>1. IsFiniteSet(T) BY FS_Subset
    <2>2. CASE T = {}
      <3>1. Below(T) BY <2>2, SumEmpty
      <3> QED BY <3>1
    <2>3. CASE T # {}
      <3> DEFINE x == Pick(T)
                 a == SumFunctionOnSet(f, Rest(T))
                 b == SumFunctionOnSet(g, Rest(T))
      <3>1. x \in T /\ Rest(T) \in P /\ IsFiniteSet(Rest(T))
            /\ Rest(T) \subseteq T
        BY <1>1, <2>1, <2>3, RestFacts, FS_Subset
      <3>2. /\ SumFunctionOnSet(f, T) = f[x] + a
            /\ SumFunctionOnSet(g, T) = g[x] + b
        BY <2>1, <2>3, SumUnfolds
      <3>3. a \in Int /\ b \in Int BY <3>1, SumType
      <3>4. a <= b BY <3>1
      <3>5. f[x] \in Int /\ g[x] \in Int /\ f[x] <= g[x] BY <3>1
      <3> HIDE DEF x, a, b
      <3>6. Below(T) BY <3>2, <3>3, <3>4, <3>5
      <3> QED BY <3>6
    <2> QED BY <2>2, <2>3
  <1>2. \A T \in SUBSET S : T \in P
    <2> HIDE DEF P
    <2> QED BY <1>1, SubsetInduction
  <1> QED BY <1>2

\* Equal values are counted.
LEMMA SumConstant ==
    ASSUME NEW f, NEW S, IsFiniteSet(S), NEW k \in Int, \A x \in S : f[x] = k
    PROVE  SumFunctionOnSet(f, S) = k * Cardinality(S)
  <1> DEFINE Counts(T) == SumFunctionOnSet(f, T) = k * Cardinality(T)
             P == {T \in SUBSET S : Counts(T)}
  <1>1. ASSUME NEW T \in SUBSET S, \A U \in SUBSET T : U # T => U \in P
        PROVE  T \in P
    <2>1. IsFiniteSet(T) BY FS_Subset
    <2>2. CASE T = {}
      <3>1. Counts(T) BY <2>2, SumEmpty, FS_EmptySet
      <3> QED BY <3>1
    <2>3. CASE T # {}
      <3>1. /\ Pick(T) \in T /\ Rest(T) \in P /\ Rest(T) = T \ {Pick(T)}
        BY <1>1, <2>3, RestFacts DEF Rest
      <3>2. SumFunctionOnSet(f, T) = k + k * Cardinality(Rest(T))
        BY <2>1, <2>3, <3>1, SumUnfolds
      <3>3. Cardinality(Rest(T)) = Cardinality(T) - 1 /\ Cardinality(T) \in Nat
        BY <2>1, <3>1, FS_RemoveElement, FS_CardinalityType
      <3>4. \A n \in Nat : k + k * (n - 1) = k * n OBVIOUS
      <3>5. Counts(T) BY <3>2, <3>3, <3>4
      <3> QED BY <3>5
    <2> QED BY <2>2, <2>3
  <1>2. \A T \in SUBSET S : T \in P
    <2> HIDE DEF P
    <2> QED BY <1>1, SubsetInduction
  <1> QED BY <1>2

\* Two sets apart add up to their union.
LEMMA SumUnion ==
    ASSUME NEW f, NEW S, NEW T, IsFiniteSet(S), IsFiniteSet(T), S \cap T = {},
           \A x \in S \cup T : f[x] \in Int
    PROVE  SumFunctionOnSet(f, S \cup T)
              = SumFunctionOnSet(f, S) + SumFunctionOnSet(f, T)
  <1> DEFINE Splits(U) == SumFunctionOnSet(f, S \cup U)
                             = SumFunctionOnSet(f, S) + SumFunctionOnSet(f, U)
             P == {U \in SUBSET T : Splits(U)}
  <1>s. SumFunctionOnSet(f, S) \in Int BY SumType
  <1>1. ASSUME NEW U \in SUBSET T, \A V \in SUBSET U : V # U => V \in P
        PROVE  U \in P
    <2>1. IsFiniteSet(U) BY FS_Subset
    <2>2. CASE U = {}
      <3>1. S \cup U = S BY <2>2
      <3>2. Splits(U) BY <1>s, <2>2, <3>1, SumEmpty
      <3> QED BY <3>2
    <2>3. CASE U # {}
      <3> DEFINE x == Pick(U)
                 W == U \ {x}
      <3>1. x \in U /\ W \in P /\ W = Rest(U)
        BY <1>1, <2>3, RestFacts DEF Rest
      <3>2. SumFunctionOnSet(f, U) = f[x] + SumFunctionOnSet(f, W)
        BY <2>1, <2>3, <3>1, SumUnfolds
      <3>3. IsFiniteSet(W) /\ IsFiniteSet(S \cup W)
        BY <2>1, FS_Subset, FS_Union
      <3> HIDE DEF x
      <3>4. S \cup U = (S \cup W) \cup {x} /\ x \notin S \cup W BY <3>1
      <3>5. SumFunctionOnSet(f, S \cup U) = f[x] + SumFunctionOnSet(f, S \cup W)
        BY SMTT(30), <3>1, <3>3, <3>4, SumAdds
      <3>6. SumFunctionOnSet(f, W) \in Int /\ f[x] \in Int
        BY <3>1, <3>3, SumType
      <3>7. Splits(W) BY <3>1
      <3>8. Splits(U) BY <1>s, <3>2, <3>5, <3>6, <3>7
      <3> QED BY <3>8
    <2> QED BY <2>2, <2>3
  <1>2. \A U \in SUBSET T : U \in P
    <2> HIDE DEF P
    <2> QED BY <1>1, SubsetInduction
  <1> QED BY <1>2

\* Natural numbers add up to one, positive ones to a positive one.
LEMMA SumNatural ==
    ASSUME NEW f, NEW S, IsFiniteSet(S), \A x \in S : f[x] \in Nat
    PROVE  /\ SumFunctionOnSet(f, S) \in Nat
           /\ \A x \in S : f[x] <= SumFunctionOnSet(f, S)
  <1> DEFINE P == {T \in SUBSET S : SumFunctionOnSet(f, T) \in Nat}
  <1>1. ASSUME NEW T \in SUBSET S, \A U \in SUBSET T : U # T => U \in P
        PROVE  T \in P
    <2>1. IsFiniteSet(T) BY FS_Subset
    <2>2. CASE T = {} BY <2>2, SumEmpty
    <2>3. CASE T # {}
      <3>1. Pick(T) \in T /\ Rest(T) \in P BY <1>1, <2>3, RestFacts
      <3>2. f[Pick(T)] \in Nat BY <3>1
      <3>3. SumFunctionOnSet(f, T) = f[Pick(T)] + SumFunctionOnSet(f, Rest(T))
        BY <2>1, <2>3, SumUnfolds
      <3> QED BY <3>1, <3>2, <3>3
    <2> QED BY <2>2, <2>3
  <1>2. \A T \in SUBSET S : T \in P
    <2> HIDE DEF P
    <2> QED BY <1>1, SubsetInduction
  <1>3. ASSUME NEW x \in S PROVE f[x] <= SumFunctionOnSet(f, S)
    <2>1. \A y \in S : f[y] \in Int OBVIOUS
    <2>2. SumFunctionOnSet(f, S) = f[x] + SumFunctionOnSet(f, S \ {x})
      BY <2>1, SumTakes
    <2>3. SumFunctionOnSet(f, S \ {x}) \in Nat BY <1>2
    <2> QED BY <2>2, <2>3
  <1> QED BY <1>2, <1>3

\* A multiple of every value.
LEMMA SumScaled ==
    ASSUME NEW g, NEW h, NEW S, IsFiniteSet(S), NEW k \in Int,
           Multiple(h, k, g, S)
    PROVE  SumFunctionOnSet(h, S) = k * SumFunctionOnSet(g, S)
  <1> DEFINE zero == [x \in S |-> 0]
  <1>1. \A x \in S : zero[x] = 0 OBVIOUS
  <1> HIDE DEF zero
  <1>x. \A x \in S : g[x] \in Int /\ h[x] = k * g[x] BY DEF Multiple
  <1>2. Linear(h, zero, k, g, S)
    <2> SUFFICES ASSUME NEW x \in S
                 PROVE  zero[x] \in Int /\ g[x] \in Int /\ h[x] = zero[x] + k * g[x]
      BY DEF Linear
    <2>1. g[x] \in Int /\ h[x] = k * g[x] /\ zero[x] = 0 BY <1>x, <1>1
    <2>2. k * g[x] \in Int BY <2>1
    <2> QED BY <2>1, <2>2
  <1>3. SumFunctionOnSet(h, S)
           = SumFunctionOnSet(zero, S) + k * SumFunctionOnSet(g, S)
    BY <1>2, SumLinear
  <1>4. 0 \in Int OBVIOUS
  <1>5. SumFunctionOnSet(zero, S) = 0 * Cardinality(S) BY <1>1, <1>4, SumConstant
  <1>6. Cardinality(S) \in Nat /\ SumFunctionOnSet(g, S) \in Int
    BY <1>x, FS_CardinalityType, SumType
  <1> QED BY <1>3, <1>5, <1>6

\* The sum of two functions.
LEMMA SumPlus ==
    ASSUME NEW f, NEW g, NEW h, NEW S, IsFiniteSet(S),
           Together(h, f, g, S)
    PROVE  SumFunctionOnSet(h, S)
              = SumFunctionOnSet(f, S) + SumFunctionOnSet(g, S)
  <1>1. 1 \in Int OBVIOUS
  <1>2. Linear(h, f, 1, g, S) BY DEF Linear, Together
  <1>3. SumFunctionOnSet(h, S)
           = SumFunctionOnSet(f, S) + 1 * SumFunctionOnSet(g, S)
    BY <1>1, <1>2, SumLinear
  <1>4. SumFunctionOnSet(g, S) \in Int BY SumType DEF Together
  <1> QED BY <1>3, <1>4

\* A characteristic function counts its set.
LEMMA SumCounts ==
    ASSUME NEW f, NEW S, IsFiniteSet(S), NEW T \in SUBSET S,
           \A x \in S : f[x] = IF x \in T THEN 1 ELSE 0
    PROVE  SumFunctionOnSet(f, S) = Cardinality(T)
  <1>1. IsFiniteSet(T) /\ IsFiniteSet(S \ T) /\ T \cap (S \ T) = {}
        /\ T \cup (S \ T) = S
    BY FS_Subset
  <1>2. \A x \in T \cup (S \ T) : f[x] \in Int OBVIOUS
  <1>3. SumFunctionOnSet(f, T \cup (S \ T))
           = SumFunctionOnSet(f, T) + SumFunctionOnSet(f, S \ T)
    BY <1>1, <1>2, SumUnion
  <1>4. 0 \in Int /\ 1 \in Int OBVIOUS
  <1>5. \A x \in T : f[x] = 1 OBVIOUS
  <1>6. \A x \in S \ T : f[x] = 0 OBVIOUS
  <1>7. SumFunctionOnSet(f, T) = 1 * Cardinality(T)
    BY <1>1, <1>4, <1>5, SumConstant
  <1>8. SumFunctionOnSet(f, S \ T) = 0 * Cardinality(S \ T)
    BY <1>1, <1>4, <1>6, SumConstant
  <1>9. Cardinality(T) \in Nat /\ Cardinality(S \ T) \in Nat
    BY <1>1, FS_CardinalityType
  <1>10. SumFunctionOnSet(f, S)
            = SumFunctionOnSet(f, T) + SumFunctionOnSet(f, S \ T)
    BY <1>1, <1>3
  <1> QED BY <1>7, <1>8, <1>9, <1>10

-----------------------------------------------------------------------------
(* Places in an order.                                                     *)

\* The members of S before each one, in a strict total order.
Orders(before, S) ==
    /\ \A p \in S : before[p] \subseteq S \ {p}
    /\ \A p \in S : \A q \in S : p # q => p \in before[q] \/ q \in before[p]
    /\ \A p \in S : \A q \in before[p] : before[q] \subseteq before[p]

Place(before, p) == Cardinality(before[p])

\* Every member has a place of its own, and every place has a member.
LEMMA Places ==
    ASSUME NEW S, IsFiniteSet(S), NEW before, Orders(before, S)
    PROVE  /\ \A p \in S : /\ Place(before, p) \in Nat
                           /\ Place(before, p) < Cardinality(S)
           /\ \A p \in S : \A q \in S :
                 Place(before, p) = Place(before, q) => p = q
           /\ \A k \in Nat : k < Cardinality(S) =>
                 \E p \in S : Place(before, p) = k
  <1> DEFINE N == 0..(Cardinality(S) - 1)
             f == [p \in S |-> Place(before, p)]
  <1>1. Cardinality(S) \in Nat BY FS_CardinalityType
  <1>2. \A p \in S : /\ IsFiniteSet(before[p]) /\ before[p] \subseteq S
                     /\ p \notin before[p]
    BY FS_Subset DEF Orders
  <1>3. ASSUME NEW p \in S
        PROVE  Place(before, p) \in Nat /\ Place(before, p) < Cardinality(S)
    <2>1. Cardinality(before[p]) <= Cardinality(S) /\ Cardinality(before[p]) \in Nat
          /\ Cardinality(before[p]) # Cardinality(S)
      BY <1>2, FS_Subset, FS_CardinalityType
    <2> QED BY <1>1, <2>1 DEF Place
  <1>4. ASSUME NEW p \in S, NEW q \in S, q \in before[p]
        PROVE  Place(before, p) # Place(before, q)
    <2>1. before[q] \subseteq before[p] /\ before[q] # before[p]
      BY <1>2, <1>4 DEF Orders
    <2>2. Cardinality(before[p]) # Cardinality(before[q])
      BY <1>2, <2>1, FS_Subset
    <2> QED BY <2>2 DEF Place
  <1>5. \A p \in S : \A q \in S : Place(before, p) = Place(before, q) => p = q
    BY <1>4 DEF Orders
  <1>6. f \in Injection(S, N)
    <2>1. f \in [S -> N] BY <1>1, <1>3
    <2> QED BY <1>5, <2>1 DEF Injection, IsInjective
  <1>7. IsFiniteSet(N) /\ Cardinality(N) = Cardinality(S)
    BY <1>1, FS_Interval
  <1>8. f \in Surjection(S, N) BY <1>6, <1>7, FS_Injection
  <1>9. ASSUME NEW k \in Nat, k < Cardinality(S)
        PROVE  \E p \in S : Place(before, p) = k
    <2>1. k \in N BY <1>1, <1>9
    <2>2. \E p \in S : f[p] = k BY <1>8, <2>1 DEF Surjection
    <2> QED BY <2>2
  <1> QED BY <1>3, <1>5, <1>9

\* As many members have their place in a stretch as the stretch is long.
LEMMA PlacesBetween ==
    ASSUME NEW S, IsFiniteSet(S), NEW before, Orders(before, S),
           NEW a \in Nat, NEW b \in Nat, a <= b, b <= Cardinality(S)
    PROVE  LET T == {p \in S : a <= Place(before, p) /\ Place(before, p) < b}
           IN  IsFiniteSet(T) /\ Cardinality(T) = b - a
  <1> DEFINE T == {p \in S : a <= Place(before, p) /\ Place(before, p) < b}
             N == a..(b - 1)
             f == [p \in T |-> Place(before, p)]
  <1>1. IsFiniteSet(T) BY FS_Subset
  <1>2. f \in [T -> N] BY Places
  <1>3. f \in Injection(T, N)
    BY <1>2, Places DEF Injection, IsInjective
  <1>4. ASSUME NEW k \in N PROVE \E p \in T : f[p] = k
    <2>1. k \in Nat /\ k < Cardinality(S) /\ a <= k /\ k < b
      BY FS_CardinalityType
    <2>2. PICK p \in S : Place(before, p) = k BY <2>1, Places
    <2> QED BY <2>1, <2>2
  <1>5. f \in Surjection(T, N) BY <1>2, <1>4 DEF Surjection
  <1>6. IsFiniteSet(N) /\ Cardinality(N) = b - a
    <2>1. a \in Int /\ b - 1 \in Int OBVIOUS
    <2>2. /\ IsFiniteSet(N)
          /\ Cardinality(N) = IF a > b - 1 THEN 0 ELSE (b - 1) - a + 1
      BY <2>1, FS_Interval
    <2> HIDE DEF N
    <2> QED BY <2>2
  <1>7. Cardinality(T) = Cardinality(N)
    <2> HIDE DEF T, N, f
    <2> QED BY <1>3, <1>5, <1>6, FS_Injection
  <1> QED BY <1>1, <1>6, <1>7

-----------------------------------------------------------------------------
(* allocate_weighted_amounts.                                              *)

\* The quotient of a division, and that there is a remainder.
LEMMA Division ==
    ASSUME NEW a \in Nat, NEW b \in Nat, b > 0
    PROVE  /\ a \div b \in Nat /\ a % b \in Nat
           /\ b * (a \div b) <= a /\ a < b * (a \div b) + b
  OBVIOUS

\* A multiple of w below w times n has a factor below n.
LEMMA Factor ==
    ASSUME NEW w \in Nat, w > 0, NEW n \in Nat, NEW s \in Int,
           0 <= w * s, w * s < w * n
    PROVE  s \in Nat /\ s < n
  <1>1. CASE s < 0
    <2>1. w * s <= w * (-1) BY <1>1
    <2> QED BY <2>1
  <1>2. CASE s >= n
    <2>1. w * n <= w * s BY <1>2
    <2> QED BY <2>1
  <1> QED BY <1>1, <1>2

\* A product divided by a factor.
LEMMA Quotient ==
    ASSUME NEW b \in Nat, b > 0, NEW w \in Nat
    PROVE  (b * w) \div b = w
  <1> DEFINE a == b * w
             q == a \div b
  <1>1. a \in Nat OBVIOUS
  <1>2. q \in Nat /\ b * q <= a /\ a < b * q + b
    <2> HIDE DEF a
    <2> QED BY <1>1, Division
  <1> HIDE DEF q
  <1>3. b * (w - q) = b * w - b * q BY <1>2
  <1>4. 0 <= b * (w - q) /\ b * (w - q) < b * 1 BY <1>2, <1>3
  <1>5. w - q \in Int BY <1>2
  <1>6. w - q \in Nat /\ w - q < 1 BY <1>4, <1>5, Factor
  <1>7. w = q BY <1>2, <1>6
  <1> QED BY <1>7 DEF q

\* The largest amounts or remainders first, ties in account order.
LargestFirst(rest, S) ==
    [p \in S |-> {q \in S : \/ rest[q] > rest[p]
                            \/ (rest[q] = rest[p] /\ q < p)}]

\* That is a strict total order.
LEMMA LargestOrders ==
    ASSUME NEW S \in SUBSET Nat, NEW rest, \A p \in S : rest[p] \in Nat
    PROVE  Orders(LargestFirst(rest, S), S)
  <1> DEFINE before == LargestFirst(rest, S)
  <1>1. \A p \in S : before[p] = {q \in S : \/ rest[q] > rest[p]
                                            \/ (rest[q] = rest[p] /\ q < p)}
    BY DEF LargestFirst
  <1>2. \A p \in S : p \in Nat OBVIOUS
  <1> HIDE DEF before
  <1>3. \A p \in S : before[p] \subseteq S \ {p} BY <1>1, <1>2
  <1>4. \A p \in S : \A q \in S : p # q => p \in before[q] \/ q \in before[p]
    BY <1>1, <1>2
  <1>5. ASSUME NEW p \in S, NEW q \in before[p]
        PROVE  q \in S /\ (rest[q] > rest[p] \/ (rest[q] = rest[p] /\ q < p))
    <2>1. q \in {x \in S : \/ rest[x] > rest[p]
                           \/ (rest[x] = rest[p] /\ x < p)}
      BY <1>1
    <2> QED BY <2>1
  <1>6. ASSUME NEW p \in S, NEW q \in before[p], NEW r \in before[q]
        PROVE  r \in before[p]
    <2>1. q \in S /\ (rest[q] > rest[p] \/ (rest[q] = rest[p] /\ q < p))
      BY <1>5
    <2>2. r \in S /\ (rest[r] > rest[q] \/ (rest[r] = rest[q] /\ r < q))
      BY <1>5, <2>1
    <2>3. rest[r] > rest[p] \/ (rest[r] = rest[p] /\ r < p)
      <3>1. rest[p] \in Nat /\ rest[q] \in Nat /\ rest[r] \in Nat
        BY <2>1, <2>2
      <3> QED BY <1>2, <2>1, <2>2, <3>1
    <2> QED BY <1>1, <2>2, <2>3
  <1> QED BY <1>3, <1>4, <1>6 DEF Orders, before

\* The split, with the places the spare units go by.
Base(total, weight) ==
    [p \in DOMAIN weight |-> (total * weight[p]) \div SumFunction(weight)]
Remainder(total, weight) ==
    [p \in DOMAIN weight |-> (total * weight[p]) % SumFunction(weight)]
Spare(total, weight) == total - SumFunction(Base(total, weight))
Bump(total, weight) ==
    [p \in DOMAIN weight |->
        IF Place(LargestFirst(Remainder(total, weight), DOMAIN weight), p)
              < Spare(total, weight)
        THEN 1 ELSE 0]

\* The split of Allocate is these two parts.
LEMMA AllocateForm ==
    ASSUME NEW total, NEW weight
    PROVE  Allocate(total, weight) =
              [p \in DOMAIN weight |->
                  Base(total, weight)[p] + Bump(total, weight)[p]]
  <1> DEFINE S == DOMAIN weight
             rest == Remainder(total, weight)
  <1>1. Allocate(total, weight) =
          [p \in S |-> Base(total, weight)[p]
              + IF Cardinality({q \in S : \/ rest[q] > rest[p]
                                          \/ (rest[q] = rest[p] /\ q < p)})
                     < Spare(total, weight)
                THEN 1 ELSE 0]
    BY DEF Allocate, Base, Remainder, Spare
  <1> HIDE DEF rest
  <1>2. \A p \in S : LargestFirst(rest, S)[p]
           = {q \in S : \/ rest[q] > rest[p]
                        \/ (rest[q] = rest[p] /\ q < p)}
    BY DEF LargestFirst
  <1>3. \A p \in S : Bump(total, weight)[p] =
           IF Cardinality(LargestFirst(rest, S)[p]) < Spare(total, weight)
           THEN 1 ELSE 0
    BY DEF Bump, Place, rest
  <1> HIDE DEF S
  <1>4. \A p \in S : Bump(total, weight)[p] =
           IF Cardinality({q \in S : \/ rest[q] > rest[p]
                                     \/ (rest[q] = rest[p] /\ q < p)})
                < Spare(total, weight)
           THEN 1 ELSE 0
    BY <1>2, <1>3
  <1> QED BY <1>1, <1>4 DEF S

\* The amounts are natural numbers and add up to the total.
LEMMA AllocateExact ==
    ASSUME NEW S \in SUBSET Nat, IsFiniteSet(S), S # {}, NEW total \in Nat,
           NEW weight \in [S -> Nat], \A p \in S : weight[p] > 0
    PROVE  /\ Allocate(total, weight) \in [S -> Nat]
           /\ SumFunctionOnSet(Allocate(total, weight), S) = total
  <1> DEFINE Sum(f) == SumFunctionOnSet(f, S)
             whole == Sum(weight)
             base == Base(total, weight)
             rest == Remainder(total, weight)
             spare == Spare(total, weight)
             bump == Bump(total, weight)
             product == [p \in S |-> total * weight[p]]
             over == [p \in S |-> total * weight[p] - whole * base[p]]
             n == Cardinality(S)
  <1>1. n \in Nat /\ n > 0 BY FS_CardinalityType, FS_EmptySet
  <1>2. whole \in Nat /\ whole > 0
    <2>1. whole \in Nat /\ \A p \in S : weight[p] <= whole BY SumNatural
    <2>2. PICK p \in S : TRUE OBVIOUS
    <2>3. weight[p] \in Nat /\ weight[p] > 0 OBVIOUS
    <2> HIDE DEF whole
    <2> QED BY <2>1, <2>3
  <1>3. DOMAIN weight = S /\ DOMAIN base = S BY DEF Base
  <1>4. total \in Int /\ whole \in Int
    <2> HIDE DEF whole
    <2> QED BY <1>2
  <1>5. SumFunction(weight) = whole /\ spare = total - Sum(base)
    BY <1>3 DEF SumFunction, Spare
  <1>6. \A p \in S : /\ base[p] = (total * weight[p]) \div whole
                     /\ rest[p] = (total * weight[p]) % whole
                     /\ product[p] = total * weight[p]
                     /\ over[p] = product[p] - whole * base[p]
                     /\ bump[p] = IF Place(LargestFirst(rest, S), p) < spare
                                  THEN 1 ELSE 0
    <2> HIDE DEF whole
    <2> QED BY <1>3, <1>5 DEF Base, Remainder, Bump
  <1> HIDE DEF whole, base, rest, spare, bump, product, over
  <1>7. ASSUME NEW p \in S
        PROVE  /\ base[p] \in Nat /\ rest[p] \in Nat /\ product[p] \in Nat
               /\ over[p] \in Nat /\ over[p] <= whole - 1
               /\ product[p] = over[p] + whole * base[p]
    <2>1. product[p] \in Nat BY <1>6
    <2>2. base[p] = product[p] \div whole /\ rest[p] = product[p] % whole BY <1>6
    <2>3. /\ base[p] \in Nat /\ rest[p] \in Nat
          /\ whole * base[p] <= product[p] /\ product[p] < whole * base[p] + whole
      BY <1>2, <2>1, <2>2, Division
    <2>4. whole * base[p] \in Nat BY <1>2, <2>3
    <2> QED BY <1>2, <1>6, <2>1, <2>3, <2>4
  <1>8. Sum(base) \in Int /\ Sum(over) \in Nat
    <2>1. \A p \in S : base[p] \in Int BY <1>7
    <2> QED BY <1>7, <2>1, SumType, SumNatural
  <1>9. Sum(over) = whole * spare
    <2>1. Sum(product) = total * whole
      <3>1. Multiple(product, total, weight, S) BY <1>6 DEF Multiple
      <3>2. Sum(product) = total * Sum(weight) BY <1>4, <3>1, SumScaled
      <3> QED BY <3>2 DEF whole
    <2>2. Sum(product) = Sum(over) + whole * Sum(base)
      <3>1. Linear(product, over, whole, base, S) BY <1>7 DEF Linear
      <3> QED BY <1>4, <3>1, SumLinear
    <2> DEFINE b == Sum(base)
               o == Sum(over)
    <2>3. total * whole = o + whole * b BY <2>1, <2>2
    <2>4. b \in Int /\ o \in Int BY <1>8
    <2> HIDE DEF b, o
    <2>5. whole * (total - b) = total * whole - whole * b BY <1>2, <2>4
    <2>6. total * whole \in Int /\ whole * b \in Int BY <1>2, <2>4
    <2>7. whole * (total - b) = o BY <2>3, <2>4, <2>5, <2>6
    <2>8. spare = total - b BY <1>5 DEF b
    <2> QED BY <2>7, <2>8 DEF o
  <1>10. Sum(over) <= (whole - 1) * n
    <2> DEFINE most == [p \in S |-> whole - 1]
    <2>1. \A p \in S : most[p] = whole - 1 OBVIOUS
    <2> HIDE DEF most
    <2>2. \A p \in S : over[p] \in Int /\ most[p] \in Int /\ over[p] <= most[p]
      BY <1>2, <1>7, <2>1
    <2>3. Sum(over) <= Sum(most) BY <2>2, SumMonotone
    <2>4. whole - 1 \in Int BY <1>2
    <2>5. Sum(most) = (whole - 1) * n BY <2>1, <2>4, SumConstant
    <2> QED BY <2>3, <2>5
  <1>11. spare \in Nat /\ spare < n
    <2>1. spare \in Int BY <1>5, <1>8
    <2>2. (whole - 1) * n = whole * n - n /\ whole * n \in Nat BY <1>1, <1>2
    <2> DEFINE o == Sum(over)
    <2>3. o = whole * spare /\ o \in Nat /\ o <= (whole - 1) * n
      BY <1>8, <1>9, <1>10
    <2> HIDE DEF o, n, spare
    <2>4. 0 <= whole * spare /\ whole * spare < whole * n
      BY <1>1, <2>2, <2>3
    <2> QED BY <1>1, <1>2, <2>1, <2>4, Factor
  <1>12. Sum(bump) = spare
    <2> DEFINE before == LargestFirst(rest, S)
               first == {p \in S : 0 <= Place(before, p) /\ Place(before, p) < spare}
    <2>1. Orders(before, S) BY <1>7, LargestOrders
    <2>2. \A p \in S : bump[p] = IF Place(before, p) < spare THEN 1 ELSE 0
      BY <1>6
    <2> HIDE DEF before, spare
    <2>3. \A p \in S : Place(before, p) \in Nat BY <2>1, Places
    <2>4. \A p \in S : 0 <= Place(before, p) BY <2>3
    <2>5. \A p \in S : bump[p] = IF p \in first THEN 1 ELSE 0
      BY <2>2, <2>4
    <2>6. first \in SUBSET S OBVIOUS
    <2>7. Cardinality(first) = spare - 0
      <3>1. 0 \in Nat /\ 0 <= spare /\ spare <= n BY <1>1, <1>11
      <3> QED BY <1>11, <2>1, <3>1, PlacesBetween
    <2> HIDE DEF first
    <2>8. Sum(bump) = Cardinality(first) BY <2>5, <2>6, SumCounts
    <2> QED BY <1>11, <2>7, <2>8
  <1>13. \A p \in S : bump[p] \in Nat BY <1>6
  <1>18. Allocate(total, weight) = [p \in S |-> base[p] + bump[p]]
    BY <1>3, AllocateForm DEF base, bump
  <1> DEFINE a == Allocate(total, weight)
  <1>14. a \in [S -> Nat] BY <1>7, <1>13, <1>18
  <1>15. Together(a, base, bump, S) BY <1>7, <1>13, <1>18 DEF Together
  <1> HIDE DEF a
  <1>16. Sum(a) = Sum(base) + Sum(bump) BY <1>15, SumPlus
  <1>17. Sum(a) = total BY <1>5, <1>8, <1>11, <1>12, <1>16
  <1> QED BY <1>14, <1>17 DEF a

\* Weights that add up to the total are the amounts.
LEMMA AllocateSame ==
    ASSUME NEW S \in SUBSET Nat, IsFiniteSet(S), NEW total \in Nat, total > 0,
           NEW weight \in [S -> Nat], SumFunctionOnSet(weight, S) = total
    PROVE  Allocate(total, weight) = weight
  <1> DEFINE base == Base(total, weight)
             rest == Remainder(total, weight)
             spare == Spare(total, weight)
             bump == Bump(total, weight)
  <1>1. DOMAIN weight = S /\ SumFunction(weight) = total BY DEF SumFunction
  <1>2. \A p \in S : (total * weight[p]) \div total = weight[p] BY Quotient
  <1>3. base = weight BY <1>1, <1>2 DEF Base
  <1>4. ASSUME NEW p \in S PROVE rest[p] \in Nat
    <2>1. total * weight[p] \in Nat OBVIOUS
    <2>2. (total * weight[p]) % total \in Nat BY <2>1, Division
    <2> QED BY <1>1, <2>2 DEF Remainder
  <1>5. spare = 0
    <2> HIDE DEF base
    <2>1. spare = total - SumFunction(base) BY DEF Spare, base
    <2> QED BY <1>1, <1>3, <2>1
  <1>6. \A p \in S : bump[p] = IF Place(LargestFirst(rest, S), p) < spare
                               THEN 1 ELSE 0
    BY <1>1 DEF Bump
  <1>7. Allocate(total, weight) = [p \in S |-> base[p] + bump[p]]
    BY <1>1, AllocateForm
  <1> HIDE DEF base, rest, spare, bump
  <1>8. \A p \in S : Place(LargestFirst(rest, S), p) \in Nat
    BY <1>4, LargestOrders, Places
  <1>9. \A p \in S : bump[p] = 0 BY <1>5, <1>6, <1>8
  <1>10. \A p \in S : weight[p] \in Nat OBVIOUS
  <1> QED BY <1>3, <1>7, <1>9, <1>10

-----------------------------------------------------------------------------
(* The share window.                                                       *)

\* The eligible shares from i on, what they weigh, and what they leave.
From(log, anchor, i) == {j \in Eligible(log, anchor) : j >= i}
Difficulties(log) == [j \in DOMAIN log |-> log[j].difficulty]
Taken(log, anchor, i) ==
    SumFunctionOnSet(Difficulties(log), From(log, anchor, i))
Remains(log, anchor, i) == Larger(Requested - Taken(log, anchor, i), 0)

\* The equation of the fold.
Leaves(left, log, anchor) ==
    left = [i \in 1..(Len(log) + 1) |->
              IF i = Len(log) + 1 THEN Requested
              ELSE IF i \in Eligible(log, anchor)
                   THEN left[i + 1] - Smaller(log[i].difficulty, left[i + 1])
                   ELSE left[i + 1]]

\* The window asks for a number.
LEMMA RequestedType == Requested \in Nat
  BY PolicyAssumption DEF Requested

\* What is taken from a share on is what is taken from the next one on, and it.
LEMMA TakenFacts ==
    ASSUME NEW log \in Seq(Share), NEW anchor, NEW i \in Nat
    PROVE  /\ Taken(log, anchor, i) \in Nat
           /\ i > Len(log) => Taken(log, anchor, i) = 0
           /\ i \in DOMAIN log =>
                 /\ log[i].difficulty \in Nat
                 /\ Taken(log, anchor, i) = Taken(log, anchor, i + 1)
                       + IF i \in Eligible(log, anchor)
                         THEN log[i].difficulty ELSE 0
  <1> DEFINE E == Eligible(log, anchor)
             d == Difficulties(log)
  <1>1. DOMAIN log = 1..Len(log) /\ Len(log) \in Nat OBVIOUS
  <1>2. IsFiniteSet(DOMAIN log) BY <1>1, FS_Interval
  <1>3. E \subseteq DOMAIN log BY DEF Eligible
  <1>4. \A j \in DOMAIN log : d[j] = log[j].difficulty /\ d[j] \in Nat
    <2>1. \A j \in DOMAIN log : log[j] \in Share OBVIOUS
    <2>2. \A j \in DOMAIN log : log[j].difficulty \in Nat BY <2>1 DEF Share
    <2> QED BY <2>2 DEF Difficulties
  <1>5. ASSUME NEW k \in Nat
        PROVE  /\ From(log, anchor, k) \subseteq DOMAIN log
               /\ IsFiniteSet(From(log, anchor, k))
    <2>1. From(log, anchor, k) \subseteq DOMAIN log BY <1>3 DEF From
    <2> QED BY <1>2, <2>1, FS_Subset
  <1> HIDE DEF d, E
  <1>6. Taken(log, anchor, i) \in Nat
    <2>1. \A j \in From(log, anchor, i) : d[j] \in Nat BY <1>4, <1>5
    <2>2. SumFunctionOnSet(d, From(log, anchor, i)) \in Nat
      BY <1>5, <2>1, SumNatural
    <2> QED BY <2>2 DEF Taken, d
  <1>7. ASSUME i > Len(log) PROVE Taken(log, anchor, i) = 0
    <2>1. From(log, anchor, i) = {}
      <3> SUFFICES ASSUME NEW j \in From(log, anchor, i) PROVE FALSE OBVIOUS
      <3>1. j \in DOMAIN log /\ j >= i BY <1>5 DEF From
      <3> QED BY <1>1, <1>7, <3>1
    <2> QED BY <2>1, SumEmpty DEF Taken
  <1>8. ASSUME i \in DOMAIN log, i \notin E
        PROVE  Taken(log, anchor, i) = Taken(log, anchor, i + 1)
    <2>1. From(log, anchor, i) = From(log, anchor, i + 1)
      <3>1. \A j \in E : j \in Nat BY <1>1, <1>3
      <3>2. \A j \in E : j >= i <=> j >= i + 1 BY <1>8, <3>1
      <3> QED BY <3>2 DEF From, E
    <2> QED BY <2>1 DEF Taken
  <1>9. ASSUME i \in E
        PROVE  Taken(log, anchor, i) = log[i].difficulty + Taken(log, anchor, i + 1)
    <2> DEFINE T == From(log, anchor, i + 1)
    <2>1. \A j \in E : j \in Nat BY <1>1, <1>3
    <2>2. From(log, anchor, i) = T \cup {i} /\ i \notin T
      <3>1. \A j \in E : j >= i <=> (j >= i + 1 \/ j = i) BY <2>1
      <3>2. ~(i >= i + 1) OBVIOUS
      <3> QED BY <1>9, <3>1, <3>2 DEF From, E
    <2>3. i + 1 \in Nat OBVIOUS
    <2>4. IsFiniteSet(T) /\ T \subseteq DOMAIN log BY <1>5, <2>3
    <2>5. i \in DOMAIN log BY <1>3, <1>9
    <2>6. \A j \in T \cup {i} : d[j] \in Int
      <3>1. \A j \in DOMAIN log : d[j] \in Int BY <1>4
      <3> QED BY <2>4, <2>5, <3>1
    <2> HIDE DEF T
    <2>7. SumFunctionOnSet(d, T \cup {i}) = d[i] + SumFunctionOnSet(d, T)
      BY <2>2, <2>4, <2>6, SumAdds
    <2>8. d[i] = log[i].difficulty BY <1>4, <2>5
    <2> QED BY <2>2, <2>7, <2>8 DEF Taken, d, T
  <1>10. ASSUME i \in DOMAIN log
         PROVE  /\ log[i].difficulty \in Nat
                /\ Taken(log, anchor, i) = Taken(log, anchor, i + 1)
                     + IF i \in E THEN log[i].difficulty ELSE 0
    <2>1. log[i].difficulty \in Nat BY <1>4, <1>10
    <2>2. i + 1 \in Nat OBVIOUS
    <2>3. Taken(log, anchor, i + 1) \in Nat
      <3>1. \A j \in From(log, anchor, i + 1) : d[j] \in Nat
        BY <1>4, <1>5, <2>2
      <3>2. SumFunctionOnSet(d, From(log, anchor, i + 1)) \in Nat
        BY <1>5, <2>2, <3>1, SumNatural
      <3> QED BY <3>2 DEF Taken, d
    <2>4. CASE i \in E BY <1>9, <2>1, <2>3, <2>4
    <2>5. CASE i \notin E BY <1>8, <1>10, <2>1, <2>3, <2>5
    <2> QED BY <2>4, <2>5
  <1> QED BY <1>6, <1>7, <1>10 DEF E

\* What the shares leave solves the equation.
LEMMA RemainsLeaves ==
    ASSUME NEW log \in Seq(Share), NEW anchor
    PROVE  Leaves([i \in 1..(Len(log) + 1) |-> Remains(log, anchor, i)],
                  log, anchor)
  <1> DEFINE n == Len(log) + 1
             left == [i \in 1..n |-> Remains(log, anchor, i)]
  <1>1. DOMAIN log = 1..Len(log) /\ Len(log) \in Nat OBVIOUS
  <1>2. ASSUME NEW i \in 1..n
        PROVE  left[i] = IF i = n THEN Requested
                         ELSE IF i \in Eligible(log, anchor)
                              THEN left[i + 1]
                                     - Smaller(log[i].difficulty, left[i + 1])
                              ELSE left[i + 1]
    <2>1. i \in Nat /\ n \in Nat BY <1>1
    <2>2. left[i] = Remains(log, anchor, i) OBVIOUS
    <2>3. CASE i = n
      <3>1. Taken(log, anchor, i) = 0
        <4>1. i > Len(log) BY <1>1, <2>3
        <4> QED BY <2>1, <4>1, TakenFacts
      <3> QED BY <2>2, <2>3, <3>1, RequestedType DEF Remains, Larger
    <2>4. CASE i # n
      <3>1. i \in DOMAIN log /\ i + 1 \in 1..n /\ i + 1 \in Nat BY <1>1, <2>4
      <3>2. left[i + 1] = Remains(log, anchor, i + 1) BY <3>1
      <3> DEFINE t == Taken(log, anchor, i + 1)
                 w == log[i].difficulty
      <3>3. t \in Nat /\ w \in Nat
        BY <2>1, <3>1, TakenFacts
      <3>4. Taken(log, anchor, i) = t + IF i \in Eligible(log, anchor)
                                        THEN w ELSE 0
        BY <2>1, <3>1, TakenFacts
      <3> HIDE DEF t, w, left
      <3>5. CASE i \in Eligible(log, anchor)
        <4>1. Larger(Requested - (t + w), 0)
                = Larger(Requested - t, 0) - Smaller(w, Larger(Requested - t, 0))
          BY <3>3, RequestedType DEF Larger, Smaller
        <4>2. left[i] = left[i + 1] - Smaller(w, left[i + 1])
          BY <2>2, <3>2, <3>4, <3>5, <4>1 DEF Remains, t
        <4> QED BY <2>4, <3>5, <4>2 DEF w
      <3>6. CASE i \notin Eligible(log, anchor)
        <4>1. left[i] = left[i + 1] BY <2>2, <3>2, <3>3, <3>4, <3>6 DEF Remains, t
        <4> QED BY <2>4, <3>6, <4>1
      <3> QED BY <3>5, <3>6
    <2> QED BY <2>3, <2>4
  <1>3. left = [i \in 1..n |->
                  IF i = n THEN Requested
                  ELSE IF i \in Eligible(log, anchor)
                       THEN left[i + 1] - Smaller(log[i].difficulty, left[i + 1])
                       ELSE left[i + 1]]
    <2>1. left = [i \in 1..n |-> left[i]] OBVIOUS
    <2> HIDE DEF left, n
    <2> QED BY <1>2, <2>1
  <1> QED BY <1>3 DEF Leaves

\* Nothing else does.
LEMMA LeavesUnique ==
    ASSUME NEW log \in Seq(Share), NEW anchor, NEW left, NEW g,
           Leaves(left, log, anchor), Leaves(g, log, anchor)
    PROVE  \A i \in 1..(Len(log) + 1) : left[i] = g[i]
  <1> DEFINE n == Len(log) + 1
             P == {k \in Nat : k < n => left[n - k] = g[n - k]}
  <1>1. n \in Nat OBVIOUS
  <1>2. \A i \in 1..n :
           /\ left[i] = IF i = n THEN Requested
                        ELSE IF i \in Eligible(log, anchor)
                             THEN left[i + 1] - Smaller(log[i].difficulty, left[i + 1])
                             ELSE left[i + 1]
           /\ g[i] = IF i = n THEN Requested
                     ELSE IF i \in Eligible(log, anchor)
                          THEN g[i + 1] - Smaller(log[i].difficulty, g[i + 1])
                          ELSE g[i + 1]
    BY DEF Leaves
  <1>3. n > 0 OBVIOUS
  <1> HIDE DEF n
  <1>4. 0 \in P
    <2>1. n - 0 = n /\ n \in 1..n BY <1>1, <1>3
    <2>2. left[n] = g[n] BY <1>2, <2>1
    <2> QED BY <2>1, <2>2
  <1>5. ASSUME NEW k \in Nat, k \in P PROVE k + 1 \in P
    <2> SUFFICES ASSUME k + 1 < n PROVE left[n - (k + 1)] = g[n - (k + 1)]
      OBVIOUS
    <2> DEFINE i == n - (k + 1)
    <2>1. i \in 1..n /\ i # n /\ i + 1 = n - k BY <1>1
    <2>2. left[i + 1] = g[i + 1]
      <3>1. k < n BY <1>1
      <3>2. left[n - k] = g[n - k] BY <1>5, <3>1
      <3> QED BY <2>1, <3>2
    <2> HIDE DEF i
    <2>3. left[i] = g[i] BY <1>2, <2>1, <2>2
    <2> QED BY <2>3 DEF i
  <1>6. Nat \subseteq P
    <2> HIDE DEF P
    <2> QED BY <1>4, <1>5, FromZero
  <1>7. ASSUME NEW i \in 1..n PROVE left[i] = g[i]
    <2>1. n - i \in Nat /\ n - i < n /\ n - (n - i) = i BY <1>1
    <2>2. n - i \in P BY <1>6, <2>1
    <2> QED BY <2>1, <2>2
  <1> QED BY <1>7 DEF n

\* Each share counts with what the newer eligible ones leave of it.
LEMMA CountedForm ==
    ASSUME NEW log \in Seq(Share), NEW anchor, NEW i \in DOMAIN log
    PROVE  Counted(log, anchor)[i] =
              IF i \in Eligible(log, anchor)
              THEN Smaller(log[i].difficulty, Remains(log, anchor, i + 1))
              ELSE 0
  <1> DEFINE left == CHOOSE left : Leaves(left, log, anchor)
             closed == [k \in 1..(Len(log) + 1) |-> Remains(log, anchor, k)]
  <1>1. Leaves(closed, log, anchor) BY RemainsLeaves
  <1>2. Leaves(left, log, anchor)
    <2> HIDE DEF closed
    <2> QED BY <1>1
  <1>3. Counted(log, anchor) = [k \in DOMAIN log |-> left[k + 1] - left[k]]
    BY DEF Counted, Leaves
  <1>4. i \in 1..(Len(log) + 1) /\ i + 1 \in 1..(Len(log) + 1) /\ i \in Nat
        /\ i + 1 \in Nat
    OBVIOUS
  <1>5. left[i] = closed[i] /\ left[i + 1] = closed[i + 1]
    <2> HIDE DEF left, closed
    <2> QED BY <1>1, <1>2, <1>4, LeavesUnique
  <1>6. Counted(log, anchor)[i] = left[i + 1] - left[i] BY <1>3
  <1>7. closed[i] = Remains(log, anchor, i)
        /\ closed[i + 1] = Remains(log, anchor, i + 1)
    BY <1>4
  <1> HIDE DEF left, closed
  <1> DEFINE t == Taken(log, anchor, i + 1)
             w == log[i].difficulty
  <1>8. t \in Nat /\ w \in Nat
        /\ Taken(log, anchor, i) = t + IF i \in Eligible(log, anchor) THEN w ELSE 0
    BY <1>4, TakenFacts
  <1>9. Counted(log, anchor)[i]
           = Larger(Requested - t, 0) - Larger(Requested - Taken(log, anchor, i), 0)
    BY <1>5, <1>6, <1>7 DEF Remains
  <1> HIDE DEF t, w
  <1>10. Larger(Requested - t, 0) - Larger(Requested - (t + w), 0)
           = Smaller(w, Larger(Requested - t, 0))
         /\ Larger(Requested - t, 0) - Larger(Requested - (t + 0), 0) = 0
    BY <1>8, RequestedType DEF Larger, Smaller
  <1>11. Counted(log, anchor)[i] = IF i \in Eligible(log, anchor)
                                   THEN Smaller(w, Larger(Requested - t, 0)) ELSE 0
    BY <1>8, <1>9, <1>10
  <1> QED BY <1>11 DEF Remains, t, w

\* Weights are natural numbers.
LEMMA WeightsType ==
    ASSUME NEW log \in Seq(Share), NEW anchor
    PROVE  Weights(log, anchor) \in [Program -> Nat]
  <1> SUFFICES ASSUME NEW p \in Program
               PROVE  SumFunctionOnSet(Counted(log, anchor),
                                       {i \in DOMAIN log : log[i].program = p}) \in Nat
    BY DEF Weights
  <1> DEFINE T == {i \in DOMAIN log : log[i].program = p}
  <1>1. DOMAIN log = 1..Len(log) /\ Len(log) \in Nat OBVIOUS
  <1>2. IsFiniteSet(T)
    <2>1. IsFiniteSet(DOMAIN log) BY <1>1, FS_Interval
    <2>2. T \subseteq DOMAIN log OBVIOUS
    <2> QED BY <2>1, <2>2, FS_Subset
  <1>3. ASSUME NEW i \in T PROVE Counted(log, anchor)[i] \in Nat
    <2>1. i \in DOMAIN log /\ i \in Nat /\ i + 1 \in Nat BY <1>1
    <2>2. log[i].difficulty \in Nat /\ Taken(log, anchor, i + 1) \in Nat
      BY <2>1, TakenFacts
    <2>3. Smaller(log[i].difficulty, Remains(log, anchor, i + 1)) \in Nat
      BY <2>2, RequestedType DEF Smaller, Remains, Larger
    <2> QED BY <2>1, <2>3, CountedForm
  <1> HIDE DEF T
  <1>4. SumFunctionOnSet(Counted(log, anchor), T) \in Nat BY <1>2, <1>3, SumNatural
  <1> QED BY <1>4 DEF T

-----------------------------------------------------------------------------
(* The payout policy.                                                      *)

\* The fee and what it leaves of the coinbase.
LEMMA RewardType == EarnedFee \in Nat /\ MinerReward \in Nat
  <1> DEFINE all == CoinbaseValue * FeeBps
  <1>1. CoinbaseValue \in Nat /\ FeeBps \in Nat /\ FeeBps <= 10000
    BY PolicyAssumption
  <1>2. all \in Nat /\ all <= CoinbaseValue * 10000 BY <1>1
  <1> HIDE DEF all
  <1>3. all \div 10000 \in Nat /\ 10000 * (all \div 10000) <= all
    BY <1>2, Division
  <1>4. all \div 10000 <= CoinbaseValue BY <1>1, <1>2, <1>3
  <1> QED BY <1>1, <1>3, <1>4 DEF EarnedFee, MinerReward, all

\* The programs of a set, and their order.
LEMMA ProgramsFinite ==
    ASSUME NEW S \in SUBSET Program
    PROVE  IsFiniteSet(S) /\ S \in SUBSET Nat
  BY ProgramAssumption, FS_Subset

\* A function that is zero outside a set adds up to its sum over the set.
LEMMA SumOutside ==
    ASSUME NEW P, IsFiniteSet(P), NEW S \in SUBSET P, NEW f, NEW h,
           \A x \in S : f[x] \in Int /\ h[x] = f[x],
           \A x \in P \ S : h[x] = 0
    PROVE  SumFunctionOnSet(h, P) = SumFunctionOnSet(f, S)
  <1>1. IsFiniteSet(S) /\ IsFiniteSet(P \ S) BY FS_Subset
  <1>2. S \cap (P \ S) = {} /\ S \cup (P \ S) = P OBVIOUS
  <1>3. \A x \in S \cup (P \ S) : h[x] \in Int OBVIOUS
  <1>4. SumFunctionOnSet(h, S \cup (P \ S))
           = SumFunctionOnSet(h, S) + SumFunctionOnSet(h, P \ S)
    BY <1>1, <1>2, <1>3, SumUnion
  <1>5. SumFunctionOnSet(f, S) = SumFunctionOnSet(h, S) BY <1>1, SumSame
  <1>6. SumFunctionOnSet(h, P \ S) = 0
    <2>1. 0 \in Int OBVIOUS
    <2>2. SumFunctionOnSet(h, P \ S) = 0 * Cardinality(P \ S)
      BY <1>1, <2>1, SumConstant
    <2>3. Cardinality(P \ S) \in Nat BY <1>1, FS_CardinalityType
    <2> QED BY <2>2, <2>3
  <1>7. SumFunctionOnSet(f, S) \in Int BY <1>1, SumType
  <1> QED BY <1>2, <1>4, <1>5, <1>6, <1>7

\* The reward is split without loss among the programs with weight.
LEMMA GrossExact ==
    ASSUME NEW weight \in [Program -> Nat], \E p \in Program : weight[p] > 0
    PROVE  /\ Gross(weight) \in [Program -> Nat]
           /\ SumFunction(Gross(weight)) = MinerReward
  <1> DEFINE miners == {p \in Program : weight[p] > 0}
             w == Restrict(weight, miners)
             amount == Allocate(MinerReward, w)
             gross == Gross(weight)
  <1>1. miners \in SUBSET Nat /\ IsFiniteSet(miners) /\ miners # {}
        /\ IsFiniteSet(Program) /\ miners \in SUBSET Program
    BY ProgramsFinite
  <1>2. gross = [p \in Program |-> IF p \in miners THEN amount[p] ELSE 0]
    BY DEF Gross
  <1>3. w \in [miners -> Nat] /\ \A p \in miners : w[p] > 0 BY DEF Restrict
  <1> HIDE DEF miners, w, gross
  <1>4. amount \in [miners -> Nat] /\ SumFunctionOnSet(amount, miners) = MinerReward
    BY <1>1, <1>3, RewardType, AllocateExact
  <1> HIDE DEF amount
  <1>5. gross \in [Program -> Nat] BY <1>2, <1>4
  <1>6. ASSUME NEW p \in miners PROVE amount[p] \in Int /\ gross[p] = amount[p]
    <2>1. p \in Program BY <1>1
    <2>2. amount[p] \in Nat BY <1>4
    <2> QED BY <1>2, <2>1, <2>2
  <1>7. \A p \in Program \ miners : gross[p] = 0 BY <1>2
  <1>8. SumFunctionOnSet(gross, Program) = MinerReward
    <2>1. miners \in SUBSET Program /\ IsFiniteSet(Program) BY <1>1
    <2>2. SumFunctionOnSet(gross, Program) = SumFunctionOnSet(amount, miners)
      BY <1>6, <1>7, <2>1, SumOutside
    <2> QED BY <1>4, <2>2
  <1>9. SumFunction(gross) = SumFunctionOnSet(gross, Program)
    BY <1>2 DEF SumFunction
  <1> QED BY <1>5, <1>8, <1>9 DEF gross

\* A function of sets that either answers or asks about a smaller set.
Descends(g, S, stop, leaf, next) ==
    g = [T \in SUBSET S |-> IF T \in stop THEN leaf[T] ELSE g[next[T]]]

\* There is such a function, as the sets cannot shrink for ever.
LEMMA DescentExists ==
    ASSUME NEW S, IsFiniteSet(S), NEW stop, NEW leaf, NEW next,
           \A T \in SUBSET S :
              T \in stop \/ (next[T] \subseteq T /\ next[T] # T)
    PROVE  \E g : Descends(g, S, stop, leaf, next)
  <1> DEFINE Upto(n) == {s \in SUBSET S : Cardinality(s) <= n}
             Ask(g, s) == IF s \in stop THEN leaf[s] ELSE g[next[s]]
             Solved(n) == \E g : g = [s \in Upto(n) |-> Ask(g, s)]
             P == {n \in Nat : Solved(n)}
  <1>1. \A s \in SUBSET S : IsFiniteSet(s) /\ Cardinality(s) \in Nat
          /\ Cardinality(s) <= Cardinality(S)
    BY FS_Subset, FS_CardinalityType
  <1>2. ASSUME NEW s \in SUBSET S, s \notin stop
        PROVE  next[s] \in SUBSET S /\ Cardinality(next[s]) < Cardinality(s)
               /\ Cardinality(next[s]) \in Nat
    <2>1. next[s] \subseteq s /\ next[s] # s BY <1>2
    <2> QED BY <1>1, <2>1, FS_Subset
  <1>3. 0 \in P
    <2>1. \A s \in Upto(0) : s \in stop
      <3> SUFFICES ASSUME NEW s \in Upto(0), s \notin stop PROVE FALSE OBVIOUS
      <3>1. Cardinality(next[s]) < Cardinality(s) /\ Cardinality(next[s]) \in Nat
        BY <1>2
      <3> QED BY <1>1, <3>1
    <2> DEFINE g == [s \in Upto(0) |-> leaf[s]]
    <2>2. g = [s \in Upto(0) |-> Ask(g, s)] BY <2>1
    <2> QED BY <2>2
  <1>4. ASSUME NEW n \in Nat, n \in P PROVE n + 1 \in P
    <2>1. PICK g : g = [s \in Upto(n) |-> Ask(g, s)] BY <1>4
    <2> DEFINE h == [s \in Upto(n + 1) |-> Ask(g, s)]
    <2>2. \A s \in Upto(n) : s \in Upto(n + 1) /\ h[s] = g[s]
      <3>1. \A s \in Upto(n) : s \in Upto(n + 1) BY <1>1
      <3> QED BY <2>1, <3>1
    <2>3. ASSUME NEW s \in Upto(n + 1), s \notin stop PROVE next[s] \in Upto(n)
      BY <1>1, <1>2, <2>3
    <2>4. \A s \in Upto(n + 1) : Ask(g, s) = Ask(h, s)
      BY <2>2, <2>3
    <2>5. h = [s \in Upto(n + 1) |-> Ask(h, s)] BY <2>4
    <2>6. Solved(n + 1)
      <3> HIDE DEF h
      <3> QED BY <2>5
    <2> HIDE DEF Solved
    <2> QED BY <2>6
  <1>5. Cardinality(S) \in P
    <2> HIDE DEF P
    <2> QED BY <1>1, <1>3, <1>4, FromZero
  <1>6. Upto(Cardinality(S)) = SUBSET S BY <1>1
  <1>7. PICK g : g = [s \in Upto(Cardinality(S)) |-> Ask(g, s)] BY <1>5
  <1>8. g = [s \in SUBSET S |-> IF s \in stop THEN leaf[s] ELSE g[next[s]]]
    <2> HIDE DEF Upto
    <2> QED BY <1>6, <1>7
  <1> QED BY <1>8 DEF Descends

\* The accounts whose part of the reward is under the floor, and the recursion
\* that drops them.
Under(candidate, S) ==
    {p \in S : Allocate(MinerReward, Restrict(candidate, S))[p] < MinOutput}
Refused(candidate, S) ==
    S = {} \/ SumFunctionOnSet(candidate, S) < MinerReward
Selects(select, candidate) ==
    select = [S \in SUBSET EligibleAccounts(candidate) |->
                IF Refused(candidate, S) THEN {}
                ELSE IF Under(candidate, S) = {} THEN S
                     ELSE select[S \ Under(candidate, S)]]

\* The recursion has a solution, and SelectOnchain is its answer.
LEMMA SelectSolves ==
    ASSUME NEW candidate
    PROVE  \E select : /\ Selects(select, candidate)
                       /\ SelectOnchain(candidate)
                             = select[EligibleAccounts(candidate)]
  <1> DEFINE E == EligibleAccounts(candidate)
             stop == {T \in SUBSET E : \/ Refused(candidate, T)
                                       \/ Under(candidate, T) = {}}
             leaf == [T \in SUBSET E |-> IF Refused(candidate, T) THEN {} ELSE T]
             next == [T \in SUBSET E |-> T \ Under(candidate, T)]
             select == CHOOSE select : Selects(select, candidate)
  <1>1. IsFiniteSet(E) BY ProgramsFinite DEF EligibleAccounts
  <1>2. \A T \in SUBSET E : T \in stop \/ (next[T] \subseteq T /\ next[T] # T)
    BY DEF Under
  <1>3. \E g : Selects(g, candidate)
    <2> HIDE DEF E
    <2>1. \A T \in SUBSET E :
             /\ T \in stop <=> \/ Refused(candidate, T)
                               \/ Under(candidate, T) = {}
             /\ leaf[T] = IF Refused(candidate, T) THEN {} ELSE T
             /\ next[T] = T \ Under(candidate, T)
      OBVIOUS
    <2> HIDE DEF stop, leaf, next
    <2>2. PICK g : Descends(g, E, stop, leaf, next) BY <1>1, <1>2, DescentExists
    <2>3. g = [T \in SUBSET E |-> IF T \in stop THEN leaf[T] ELSE g[next[T]]]
      BY <2>2 DEF Descends
    <2>4. g = [T \in SUBSET E |-> IF Refused(candidate, T) THEN {}
                                  ELSE IF Under(candidate, T) = {} THEN T
                                       ELSE g[T \ Under(candidate, T)]]
      BY <2>1, <2>3
    <2> QED BY <2>4 DEF Selects, E
  <1>4. Selects(select, candidate) BY <1>3
  <1>5. SelectOnchain(candidate) = select[E]
    BY DEF SelectOnchain, Selects, Refused, Under
  <1> QED BY <1>4, <1>5

\* Only eligible accounts are selected.
LEMMA SelectWithin ==
    ASSUME NEW candidate
    PROVE  SelectOnchain(candidate) \subseteq EligibleAccounts(candidate)
  <1> DEFINE E == EligibleAccounts(candidate)
  <1>1. PICK select : /\ Selects(select, candidate)
                      /\ SelectOnchain(candidate) = select[E]
    BY SelectSolves
  <1> DEFINE P == {T \in SUBSET E : select[T] \subseteq T}
  <1>2. IsFiniteSet(E) BY ProgramsFinite DEF EligibleAccounts
  <1>3. ASSUME NEW T \in SUBSET E, \A U \in SUBSET T : U # T => U \in P
        PROVE  T \in P
    <2>1. select[T] = IF Refused(candidate, T) THEN {}
                      ELSE IF Under(candidate, T) = {} THEN T
                           ELSE select[T \ Under(candidate, T)]
      BY <1>1 DEF Selects
    <2>2. CASE ~Refused(candidate, T) /\ Under(candidate, T) # {}
      <3> DEFINE U == T \ Under(candidate, T)
      <3>1. U \subseteq T /\ U # T BY <2>2 DEF Under
      <3>2. select[U] \subseteq U BY <1>3, <3>1
      <3> QED BY <2>1, <2>2, <3>1, <3>2
    <2> QED BY <2>1, <2>2
  <1>4. \A T \in SUBSET E : T \in P
    <2> HIDE DEF P, E
    <2> QED BY <1>2, <1>3, SubsetInduction
  <1> QED BY <1>1, <1>4

\* The accounts selected when none of the eligible ones is under the floor.
LEMMA SelectAll ==
    ASSUME NEW candidate, ~Refused(candidate, EligibleAccounts(candidate)),
           Under(candidate, EligibleAccounts(candidate)) = {}
    PROVE  SelectOnchain(candidate) = EligibleAccounts(candidate)
  <1>1. PICK select : /\ Selects(select, candidate)
                      /\ SelectOnchain(candidate)
                            = select[EligibleAccounts(candidate)]
    BY SelectSolves
  <1> QED BY <1>1 DEF Selects

\* The reward covers the balances at or above the floor.
Covered(candidate) ==
    SumFunctionOnSet(candidate, EligibleAccounts(candidate)) < MinerReward

\* Every account at or above the floor, when the reward covers them all.
LEMMA OnchainCovered ==
    ASSUME NEW candidate \in [Program -> Int], Covered(candidate)
    PROVE  /\ Onchain(candidate) \in [Program -> Nat]
           /\ Swept(Onchain(candidate)) \in Nat
           /\ \A p \in Program :
                 Onchain(candidate)[p] = IF candidate[p] >= MinOutput
                                         THEN candidate[p] ELSE 0
  <1> DEFINE E == EligibleAccounts(candidate)
             onchain == Onchain(candidate)
  <1>1. /\ E \in SUBSET Program /\ IsFiniteSet(E) /\ IsFiniteSet(Program)
        /\ MinOutput \in Nat /\ \A p \in Program : p \in E <=> candidate[p] >= MinOutput
    BY ProgramsFinite, PolicyAssumption DEF EligibleAccounts
  <1>2. onchain = [p \in Program |-> IF p \in DOMAIN Restrict(candidate, E)
                                     THEN Restrict(candidate, E)[p] ELSE 0]
    BY DEF Onchain, Covered
  <1>3. \A p \in Program : onchain[p] = IF p \in E THEN candidate[p] ELSE 0
    BY <1>2 DEF Restrict
  <1>4. DOMAIN onchain = Program BY <1>2
  <1>5. onchain \in [Program -> Nat]
    <2>1. \A p \in Program : onchain[p] \in Nat BY <1>1, <1>3
    <2>2. onchain = [p \in Program |-> onchain[p]] BY <1>2
    <2> HIDE DEF onchain
    <2> QED BY <2>1, <2>2
  <1>6. SumFunction(onchain) = SumFunctionOnSet(candidate, E)
    <2> HIDE DEF onchain, E
    <2>1. \A p \in E : candidate[p] \in Int /\ onchain[p] = candidate[p]
      BY <1>1, <1>3
    <2>2. \A p \in Program \ E : onchain[p] = 0 BY <1>3
    <2>3. SumFunctionOnSet(onchain, Program) = SumFunctionOnSet(candidate, E)
      BY <1>1, <2>1, <2>2, SumOutside
    <2> QED BY <1>4, <2>3 DEF SumFunction
  <1>7. SumFunctionOnSet(candidate, E) \in Int /\ SumFunctionOnSet(candidate, E) < MinerReward
    <2>1. \A p \in E : candidate[p] \in Int BY <1>1
    <2> QED BY <1>1, <2>1, SumType DEF Covered
  <1>8. Swept(onchain) \in Nat BY <1>6, <1>7, RewardType DEF Swept
  <1> QED BY <1>1, <1>3, <1>5, <1>8

\* The whole reward, when it does not and accounts can share it.
LEMMA OnchainShared ==
    ASSUME NEW candidate \in [Program -> Int], ~Covered(candidate),
           SelectOnchain(candidate) # {}
    PROVE  /\ Onchain(candidate) \in [Program -> Nat]
           /\ Swept(Onchain(candidate)) = 0
  <1> DEFINE S == SelectOnchain(candidate)
             w == Restrict(candidate, S)
             amount == Allocate(MinerReward, w)
             onchain == Onchain(candidate)
  <1>1. S \in SUBSET Program /\ S \in SUBSET Nat /\ IsFiniteSet(S) /\ IsFiniteSet(Program)
    BY SelectWithin, ProgramsFinite DEF EligibleAccounts
  <1>2. \A p \in S : candidate[p] \in Nat /\ candidate[p] > 0
    BY SelectWithin, PolicyAssumption DEF EligibleAccounts
  <1>3. onchain = [p \in Program |-> IF p \in DOMAIN amount THEN amount[p] ELSE 0]
    BY DEF Onchain, Covered
  <1>4. S # {} OBVIOUS
  <1> HIDE DEF S, onchain
  <1>5. w \in [S -> Nat] /\ \A p \in S : w[p] > 0 BY <1>2 DEF Restrict
  <1> HIDE DEF w
  <1>6. amount \in [S -> Nat] /\ SumFunctionOnSet(amount, S) = MinerReward
    BY <1>1, <1>4, <1>5, RewardType, AllocateExact
  <1> HIDE DEF amount
  <1>7. onchain = [p \in Program |-> IF p \in S THEN amount[p] ELSE 0]
    BY <1>3, <1>6
  <1>8. onchain \in [Program -> Nat] BY <1>6, <1>7
  <1>9. SumFunctionOnSet(onchain, Program) = SumFunctionOnSet(amount, S)
    <2>1. ASSUME NEW p \in S PROVE amount[p] \in Int /\ onchain[p] = amount[p]
      <3>1. p \in Program BY <1>1
      <3>2. amount[p] \in Nat BY <1>6
      <3> QED BY <1>7, <3>1, <3>2
    <2>2. \A p \in Program \ S : onchain[p] = 0 BY <1>7
    <2>3. S \in SUBSET Program /\ IsFiniteSet(Program) BY <1>1
    <2> QED BY <2>1, <2>2, <2>3, SumOutside
  <1>10. SumFunction(onchain) = MinerReward BY <1>6, <1>7, <1>9 DEF SumFunction
  <1>11. Swept(onchain) = 0 BY <1>10, RewardType DEF Swept
  <1> QED BY <1>8, <1>11 DEF onchain

\* Nothing at all, when the policy refuses.
LEMMA OnchainRefused ==
    ASSUME NEW candidate \in [Program -> Int], ~Covered(candidate),
           SelectOnchain(candidate) = {}
    PROVE  Onchain(candidate) = [p \in Program |-> 0]
  <1>1. DOMAIN Allocate(MinerReward, Restrict(candidate, {})) = {}
    BY DEF Allocate, Restrict
  <1> QED BY <1>1 DEF Onchain, Covered

\* A reward that carries nothing is paid without an error.
LEMMA FreshPays ==
    ASSUME NEW gross \in [Program -> Nat], SumFunction(gross) = MinerReward,
           MinerReward >= MinOutput
    PROVE  Pays(gross)
  <1> DEFINE E == EligibleAccounts(gross)
             Sum(T) == SumFunctionOnSet(gross, T)
  <1>1. /\ E \in SUBSET Program /\ IsFiniteSet(E) /\ IsFiniteSet(Program)
        /\ E \in SUBSET Nat /\ MinOutput \in Nat /\ MinOutput > 0
        /\ \A p \in Program : p \in E <=> gross[p] >= MinOutput
    BY ProgramsFinite, PolicyAssumption DEF EligibleAccounts
  <1>2. gross \in [Program -> Int] OBVIOUS
  <1>3. \A p \in Program : gross[p] \in Nat OBVIOUS
  <1>4. CASE Covered(gross)
    <2>1. \A p \in Program : Onchain(gross)[p] = IF gross[p] >= MinOutput
                                                 THEN gross[p] ELSE 0
      BY <1>2, <1>4, OnchainCovered
    <2>2. \A p \in Program : Onchain(gross)[p] = 0
                              \/ Onchain(gross)[p] \in MinOutput..gross[p]
      BY <1>1, <1>3, <2>1
    <2>3. Sum(E) \in Int
      <3>1. \A p \in E : gross[p] \in Int BY <1>1, <1>3
      <3> QED BY <1>1, <3>1, SumType
    <2>4. ~(Sum(E) >= MinerReward) BY <1>4, <2>3, RewardType DEF Covered
    <2> QED BY <2>2, <2>4 DEF Pays
  <1>5. CASE ~Covered(gross)
    <2> DEFINE w == Restrict(gross, E)
    <2>1. Sum(Program) = MinerReward BY DEF SumFunction
    <2>2. Sum(E) \in Int /\ Sum(Program \ E) \in Nat
          /\ Sum(Program) = Sum(E) + Sum(Program \ E)
      <3>1. IsFiniteSet(Program \ E) /\ E \cap (Program \ E) = {}
            /\ E \cup (Program \ E) = Program
        BY <1>1, FS_Subset
      <3>2. \A p \in E \cup (Program \ E) : gross[p] \in Int BY <1>1, <1>3
      <3>3. \A p \in E : gross[p] \in Int BY <3>2
      <3>4. \A p \in Program \ E : gross[p] \in Nat BY <1>3
      <3>5. Sum(E \cup (Program \ E)) = Sum(E) + Sum(Program \ E)
        BY <1>1, <3>1, <3>2, SumUnion
      <3>6. Sum(E) \in Int BY <1>1, <3>3, SumType
      <3>7. Sum(Program \ E) \in Nat BY <3>1, <3>4, SumNatural
      <3> HIDE DEF Sum
      <3> QED BY <3>1, <3>5, <3>6, <3>7
    <2>3. Sum(E) = MinerReward
      BY <1>5, <2>1, <2>2, RewardType DEF Covered
    <2>4. w \in [E -> Nat] /\ \A p \in E : w[p] = gross[p] BY <1>1, <1>3 DEF Restrict
    <2> HIDE DEF E, w
    <2>5. SumFunctionOnSet(w, E) = MinerReward
      <3>1. \A p \in E : gross[p] \in Int /\ gross[p] = w[p] BY <1>1, <1>3, <2>4
      <3>2. SumFunctionOnSet(gross, E) = SumFunctionOnSet(w, E)
        BY <1>1, <3>1, SumSame
      <3> QED BY <2>3, <3>2
    <2>6. MinerReward \in Nat /\ MinerReward > 0 BY <1>1, RewardType
    <2>7. Allocate(MinerReward, w) = w
      BY <1>1, <2>4, <2>5, <2>6, AllocateSame
    <2>8. Under(gross, E) = {}
      <3>1. \A p \in E : ~(w[p] < MinOutput) BY <1>1, <1>3, <2>4
      <3> QED BY <2>7, <3>1 DEF Under, w
    <2>9. E # {}
      <3>1. ASSUME E = {} PROVE FALSE
        <4>1. Sum(E) = 0 BY <3>1, SumEmpty
        <4> QED BY <2>3, <2>6, <4>1
      <3> QED BY <3>1
    <2>10. ~Refused(gross, E) BY <2>3, <2>6, <2>9 DEF Refused
    <2>11. SelectOnchain(gross) = E BY <2>8, <2>10, SelectAll DEF E
    <2>12. DOMAIN w = E BY <2>4
    <2>13. \A p \in Program : Onchain(gross)[p] = IF p \in E THEN w[p] ELSE 0
      BY <1>5, <2>7, <2>11, <2>12 DEF Onchain, Covered, w, E
    <2>14. ASSUME NEW p \in Program
           PROVE  Onchain(gross)[p] = 0 \/ Onchain(gross)[p] \in MinOutput..gross[p]
      <3>1. CASE p \in E
        <4>1. Onchain(gross)[p] = gross[p] BY <2>4, <2>13, <3>1
        <4> QED BY <1>1, <1>3, <3>1, <4>1
      <3>2. CASE p \notin E BY <2>13, <3>2
      <3> QED BY <3>1, <3>2
    <2> QED BY <2>9, <2>11, <2>14 DEF Pays
  <1> QED BY <1>4, <1>5

\* Whatever is carried, the policy pays out the reward and nothing more.
LEMMA PolicyPays ==
    ASSUME NEW candidate \in [Program -> Int], Pays(candidate)
    PROVE  /\ Onchain(candidate) \in [Program -> Nat]
           /\ Swept(Onchain(candidate)) \in Nat
           /\ \A p \in Program : Onchain(candidate)[p] <= Larger(candidate[p], 0)
           /\ Swept(Onchain(candidate)) > 0 =>
                 \A p \in Program : \/ Onchain(candidate)[p] = candidate[p]
                                    \/ candidate[p] < MinOutput
  <1> DEFINE onchain == Onchain(candidate)
  <1>1. MinOutput \in Nat /\ \A p \in Program : candidate[p] \in Int
    BY PolicyAssumption
  <1>2. ASSUME NEW p \in Program PROVE onchain[p] <= Larger(candidate[p], 0)
    <2>1. onchain[p] = 0 \/ onchain[p] \in MinOutput..candidate[p] BY DEF Pays
    <2> HIDE DEF onchain
    <2> QED BY <1>1, <2>1 DEF Larger
  <1>3. CASE Covered(candidate)
    <2>1. /\ onchain \in [Program -> Nat] /\ Swept(onchain) \in Nat
          /\ \A p \in Program : onchain[p] = IF candidate[p] >= MinOutput
                                             THEN candidate[p] ELSE 0
      BY <1>3, OnchainCovered
    <2> HIDE DEF onchain
    <2>2. \A p \in Program : onchain[p] = candidate[p] \/ candidate[p] < MinOutput
      BY <1>1, <2>1
    <2> QED BY <1>2, <2>1, <2>2 DEF onchain
  <1>4. CASE ~Covered(candidate)
    <2>1. SumFunctionOnSet(candidate, EligibleAccounts(candidate)) \in Int
      <3>1. IsFiniteSet(EligibleAccounts(candidate))
            /\ EligibleAccounts(candidate) \subseteq Program
        BY ProgramsFinite DEF EligibleAccounts
      <3>2. \A p \in EligibleAccounts(candidate) : candidate[p] \in Int
        BY <1>1, <3>1
      <3> QED BY <3>1, <3>2, SumType
    <2>2. SelectOnchain(candidate) # {}
      BY <1>4, <2>1, RewardType DEF Pays, Covered
    <2>3. onchain \in [Program -> Nat] /\ Swept(onchain) = 0
      BY <1>4, <2>2, OnchainShared
    <2> QED BY <1>2, <2>3
  <1> QED BY <1>3, <1>4

-----------------------------------------------------------------------------
(* Settlement.                                                             *)

\* A quotient is determined by its bounds.
LEMMA QuotientIs ==
    ASSUME NEW n \in Nat, NEW b \in Nat, b > 0, NEW c \in Nat
    PROVE  n \div b = c <=> (b * c <= n /\ n < b * c + b)
  <1> DEFINE q == n \div b
  <1>1. q \in Nat /\ b * q <= n /\ n < b * q + b BY Division
  <1> HIDE DEF q
  <1>2. ASSUME b * c <= n, n < b * c + b PROVE q = c
    <2>1. b * (q - c) = b * q - b * c /\ b * (c - q) = b * c - b * q BY <1>1
    <2>2. b * q \in Nat /\ b * c \in Nat BY <1>1
    <2>3. b * (q - c) < b * 1 /\ b * (c - q) < b * 1 BY <1>1, <1>2, <2>1, <2>2
    <2>4. CASE q >= c
      <3>1. q - c \in Int /\ 0 <= b * (q - c) BY <1>1, <2>4
      <3>2. q - c \in Nat /\ q - c < 1 BY <2>3, <3>1, Factor
      <3> QED BY <1>1, <3>2
    <2>5. CASE q < c
      <3>1. c - q \in Int /\ 0 <= b * (c - q) BY <1>1, <2>5
      <3>2. c - q \in Nat /\ c - q < 1 BY <2>3, <3>1, Factor
      <3> QED BY <1>1, <2>5, <3>2
    <2> QED BY <1>1, <2>4, <2>5
  <1> QED BY <1>1, <1>2 DEF q

\* A nonempty bounded set of numbers has a largest one.
LEMMA MaxIs ==
    ASSUME NEW k \in Int, NEW S \in SUBSET (0..k), S # {}
    PROVE  Max(S) \in S /\ \A n \in S : n <= Max(S)
  <1> DEFINE gaps == {k - n : n \in S}
  <1>1. gaps \in SUBSET Nat /\ gaps # {}
    <2>1. \A n \in S : n \in 0..k OBVIOUS
    <2>2. \A n \in S : k - n \in Nat BY <2>1
    <2> QED BY <2>2
  <1>2. PICK g \in gaps : \A h \in gaps : g <= h
    <2> HIDE DEF gaps
    <2> QED BY <1>1, LeastNumber
  <1>3. PICK m \in S : g = k - m OBVIOUS
  <1>4. ASSUME NEW n \in S PROVE m >= n
    <2>1. k - n \in gaps OBVIOUS
    <2>2. k - m <= k - n BY <1>2, <1>3, <2>1
    <2>3. n \in Int /\ m \in Int OBVIOUS
    <2> QED BY <2>2, <2>3
  <1>5. \E x \in S : \A y \in S : x >= y BY <1>4
  <1>6. Max(S) \in S /\ \A y \in S : Max(S) >= y BY <1>5 DEF Max
  <1> QED BY <1>6

\* An earlier member is in an earlier place.
LEMMA PlaceGrows ==
    ASSUME NEW S, IsFiniteSet(S), NEW before, Orders(before, S),
           NEW p \in S, NEW q \in before[p]
    PROVE  q \in S /\ Place(before, q) < Place(before, p)
  <1>1. /\ q \in S /\ before[q] \subseteq before[p]
        /\ before[p] \subseteq S /\ q \notin before[q]
    BY DEF Orders
  <1>2. IsFiniteSet(before[p]) BY <1>1, FS_Subset
  <1>3. /\ Cardinality(before[q]) <= Cardinality(before[p])
        /\ Cardinality(before[q]) # Cardinality(before[p])
    BY <1>1, <1>2, FS_Subset
  <1>4. Place(before, q) \in Nat /\ Place(before, p) \in Nat BY <1>1, Places
  <1> QED BY <1>1, <1>3, <1>4 DEF Place

\* The amounts of a settlement: positive, of programs and the pool fee.
LEMMA AmountsType ==
    ASSUME NEW onchain \in [Program -> Nat]
    PROVE  /\ DOMAIN Amounts(onchain) \in SUBSET Nat
           /\ IsFiniteSet(DOMAIN Amounts(onchain))
           /\ Amounts(onchain) \in [DOMAIN Amounts(onchain) -> Nat]
           /\ \A r \in DOMAIN Amounts(onchain) : Amounts(onchain)[r] > 0
  <1> DEFINE all == [r \in Program \cup {Fee} |->
                       IF r = Fee THEN EarnedFee + Swept(onchain) ELSE onchain[r]]
             R == {r \in Program \cup {Fee} : all[r] > 0}
             amount == Amounts(onchain)
  <1>1. /\ Program \cup {Fee} \in SUBSET Nat /\ IsFiniteSet(Program)
        /\ IsFiniteSet(Program \cup {Fee})
    BY ProgramAssumption, FS_AddElement DEF Fee
  <1>2. SumFunction(onchain) \in Int
    <2>1. DOMAIN onchain = Program /\ \A p \in Program : onchain[p] \in Int OBVIOUS
    <2> QED BY <1>1, <2>1, SumType DEF SumFunction
  <1>3. EarnedFee + Swept(onchain) \in Int BY <1>2, RewardType DEF Swept
  <1>4. \A r \in Program \cup {Fee} : all[r] \in Int
    <2>1. \A p \in Program : onchain[p] \in Int OBVIOUS
    <2> QED BY <1>3, <2>1
  <1>5. amount = Restrict(all, R) BY DEF Amounts
  <1> HIDE DEF all, amount
  <1>6. amount = [r \in R |-> all[r]] BY <1>5 DEF Restrict
  <1>7. R \in SUBSET Nat /\ IsFiniteSet(R) BY <1>1, FS_Subset
  <1>8. \A r \in R : all[r] \in Nat /\ all[r] > 0 BY <1>4
  <1> HIDE DEF R
  <1>9. DOMAIN amount = R BY <1>6
  <1>10. amount \in [R -> Nat] /\ \A r \in R : amount[r] > 0 BY <1>6, <1>8
  <1> QED BY <1>7, <1>9, <1>10 DEF amount

\* The recipients a coinbase output can be chosen for.
Candidates(amount) == {r \in DOMAIN amount \ Pinned(amount) :
                          amount[r] >= DirectFloor}
Direction(amount) == LargestFirst(amount, Candidates(amount))

\* The direct outputs: the pinned one and the largest candidates, as many as
\* there is room for.
LEMMA DirectFacts ==
    ASSUME NEW R \in SUBSET Nat, IsFiniteSet(R), NEW amount \in [R -> Nat],
           DirectCounts(amount) # {}
    PROVE  LET count == Max(DirectCounts(amount))
               pinned == Cardinality(Pinned(amount))
           IN  /\ count \in Nat /\ pinned \in Nat
               /\ Cardinality(R) - pinned - count \in Nat
               /\ pinned + count + Chunks(Cardinality(R) - pinned - count)
                     <= MaxOutputs
               /\ Direct(amount) =
                     Pinned(amount) \cup
                        {r \in Candidates(amount) :
                            Place(Direction(amount), r) < count}
               /\ Cardinality(Direct(amount)) = pinned + count
               /\ Direct(amount) \subseteq R
               /\ Orders(Direction(amount), Candidates(amount))
               /\ IsFiniteSet(Candidates(amount))
  <1> DEFINE C == Candidates(amount)
             D == DirectCounts(amount)
             count == Max(D)
             P == Pinned(amount)
             pinned == Cardinality(P)
             before == Direction(amount)
             first == {r \in C : Place(before, r) < count}
             room == Smaller(Cardinality(C), Larger(MaxDirect - pinned, 0))
  <1>1. /\ DOMAIN amount = R /\ C \in SUBSET R /\ P \in SUBSET R /\ P \cap C = {}
        /\ C \in SUBSET Nat
    BY DEF Candidates, Pinned
  <1>2. /\ IsFiniteSet(C) /\ IsFiniteSet(P)
        /\ Cardinality(C) \in Nat /\ pinned \in Nat
    BY <1>1, FS_Subset, FS_CardinalityType
  <1>3. D = {n \in 0..room :
               pinned + n + Chunks(Cardinality(R) - pinned - n) <= MaxOutputs}
    BY <1>1 DEF DirectCounts, Candidates
  <1> HIDE DEF P, pinned, D, C, before
  <1>4. room \in Int /\ room <= Cardinality(C)
    BY <1>2, SettlementAssumption DEF Larger, Smaller
  <1> HIDE DEF room
  <1>5. count \in D
    <2>1. D # {} BY DEF D
    <2>2. D \in SUBSET (0..room) BY <1>3
    <2> QED BY <1>4, <2>1, <2>2, MaxIs
  <1> HIDE DEF count
  <1>6. /\ count \in Nat /\ count <= Cardinality(C)
        /\ pinned + count + Chunks(Cardinality(R) - pinned - count) <= MaxOutputs
    BY <1>2, <1>3, <1>4, <1>5
  <1>7. Orders(before, C)
    <2>1. \A r \in C : amount[r] \in Nat BY <1>1
    <2> QED BY <1>1, <2>1, LargestOrders DEF before, Direction, C
  <1>8. Direct(amount) = P \cup first
    <2>1. \A r \in C : before[r] = {q \in C : \/ amount[q] > amount[r]
                                              \/ (amount[q] = amount[r] /\ q < r)}
      BY DEF before, Direction, LargestFirst, C
    <2>2. Direct(amount) =
             P \cup {r \in C : Cardinality({q \in C :
                                  \/ amount[q] > amount[r]
                                  \/ (amount[q] = amount[r] /\ q < r)}) < count}
      BY DEF Direct, C, P, count, D, Candidates
    <2> QED BY <2>1, <2>2 DEF Place
  <1>9. IsFiniteSet(first) /\ Cardinality(first) = count /\ first \subseteq C
    <2> DEFINE T == {r \in C : 0 <= Place(before, r) /\ Place(before, r) < count}
    <2>1. \A r \in C : Place(before, r) \in Nat BY <1>2, <1>7, Places
    <2>2. first = T BY <2>1
    <2>3. 0 \in Nat /\ 0 <= count BY <1>6
    <2>4. IsFiniteSet(T) /\ Cardinality(T) = count - 0
      BY <1>2, <1>6, <1>7, <2>3, PlacesBetween
    <2>5. first \subseteq C OBVIOUS
    <2> HIDE DEF first, T
    <2> QED BY <1>6, <2>2, <2>4, <2>5
  <1> HIDE DEF first
  <1>10. P \cap first = {} /\ P \cup first \subseteq R BY <1>1, <1>9
  <1>11. Cardinality(P \cup first) = pinned + count
    <2>1. Cardinality(P \cup first)
             = Cardinality(P) + Cardinality(first) - Cardinality(P \cap first)
      BY <1>2, <1>9, FS_Union
    <2>2. Cardinality(P \cap first) = 0 BY <1>10, FS_EmptySet
    <2> QED BY <1>2, <1>6, <1>9, <2>1, <2>2 DEF pinned
  <1>12. Cardinality(R) - pinned - count \in Nat
    <2>1. Cardinality(P \cup first) <= Cardinality(R) /\ Cardinality(R) \in Nat
      BY <1>10, FS_Subset, FS_CardinalityType
    <2> QED BY <1>2, <1>6, <1>11, <2>1
  <1> QED BY <1>2, <1>6, <1>7, <1>8, <1>10, <1>11, <1>12
          DEF first, before, C, P, pinned, count, D

\* No recipient waits for a fanout while a smaller one is paid directly.
LEMMA LargestDirect ==
    ASSUME NEW R \in SUBSET Nat, IsFiniteSet(R), NEW amount \in [R -> Nat],
           DirectCounts(amount) # {},
           NEW r \in Direct(amount) \ Pinned(amount),
           NEW q \in R \ Direct(amount)
    PROVE  amount[q] <= amount[r]
  <1> DEFINE C == Candidates(amount)
             before == Direction(amount)
             count == Max(DirectCounts(amount))
  <1>1. /\ count \in Nat /\ Orders(before, C) /\ IsFiniteSet(C)
        /\ Direct(amount) = Pinned(amount) \cup {x \in C : Place(before, x) < count}
        /\ Direct(amount) \subseteq R
    BY DirectFacts
  <1> HIDE DEF C, before, count
  <1>2. r \in C /\ Place(before, r) < count /\ r \in R BY <1>1
  <1>3. q \notin Pinned(amount) /\ ~(q \in C /\ Place(before, q) < count) BY <1>1
  <1>4. /\ amount[q] \in Nat /\ amount[r] \in Nat /\ DirectFloor \in Nat
        /\ amount[r] >= DirectFloor
    BY <1>2, SettlementAssumption DEF C, Candidates
  <1>5. CASE q \notin C
    <2>1. ~(amount[q] >= DirectFloor) BY <1>3, <1>5 DEF C, Candidates
    <2> QED BY <1>4, <2>1
  <1>6. CASE q \in C
    <2>1. Place(before, q) \in Nat /\ Place(before, r) \in Nat
      BY <1>1, <1>2, <1>6, Places
    <2>2. ~(Place(before, q) < Place(before, r)) BY <1>1, <1>2, <1>3, <1>6, <2>1
    <2>3. q \notin before[r] BY <1>1, <1>2, <2>2, PlaceGrows
    <2>4. before[r] = {x \in C : \/ amount[x] > amount[r]
                                 \/ (amount[x] = amount[r] /\ x < r)}
      BY <1>2 DEF before, Direction, LargestFirst, C
    <2>5. ~(amount[q] > amount[r]) BY <1>6, <2>3, <2>4
    <2> QED BY <1>4, <2>5
  <1> QED BY <1>5, <1>6

\* The members of a set of numbers before each.
LowestFirst(S) == [r \in S |-> {q \in S : q < r}]

\* That is a strict total order too.
LEMMA LowestOrders ==
    ASSUME NEW S \in SUBSET Nat
    PROVE  Orders(LowestFirst(S), S)
  <1> DEFINE before == LowestFirst(S)
  <1>1. \A r \in S : before[r] = {q \in S : q < r} BY DEF LowestFirst
  <1>2. \A r \in S : r \in Nat OBVIOUS
  <1> HIDE DEF before
  <1>3. \A r \in S : before[r] \subseteq S \ {r} BY <1>1, <1>2
  <1>4. \A r \in S : \A q \in S : r # q => r \in before[q] \/ q \in before[r]
    BY <1>1, <1>2
  <1>5. ASSUME NEW r \in S, NEW q \in before[r], NEW x \in before[q]
        PROVE  x \in before[r]
    <2>1. q \in S /\ q < r BY <1>1
    <2>2. x \in S /\ x < q BY <1>1, <2>1
    <2>3. x < r BY <1>2, <2>1, <2>2
    <2> QED BY <1>1, <2>2, <2>3
  <1> QED BY <1>3, <1>4, <1>5 DEF Orders, before

\* The recipients of the fanouts, chunk by chunk.
LEMMA ChunkFacts ==
    ASSUME NEW R \in SUBSET Nat, IsFiniteSet(R), NEW amount \in [R -> Nat]
    PROVE  LET F == R \ Direct(amount)
               chunks == Chunk(amount)
           IN  /\ DOMAIN chunks = F /\ F \in SUBSET Nat
               /\ IsFiniteSet(F) /\ Cardinality(F) \in Nat
               /\ IsFiniteSet(Range(chunks))
               /\ Cardinality(Range(chunks)) <= Chunks(Cardinality(F))
               /\ \A c \in Range(chunks) :
                     LET members == {r \in F : chunks[r] = c}
                     IN  /\ IsFiniteSet(members) /\ members # {}
                         /\ Cardinality(members) \in 1..ChunkSize
  <1> DEFINE F == R \ Direct(amount)
             chunks == Chunk(amount)
             before == LowestFirst(F)
             n == Cardinality(F)
             k == Chunks(n)
  <1>1. F \in SUBSET Nat /\ IsFiniteSet(F) /\ n \in Nat
    BY FS_Subset, FS_CardinalityType
  <1>2. chunks = [r \in F |-> Cardinality({q \in F : q < r}) \div ChunkSize]
    BY DEF Chunk
  <1> HIDE DEF F, chunks
  <1>3. \A r \in F : Cardinality({q \in F : q < r}) = Place(before, r)
    BY DEF LowestFirst, Place
  <1>4. Orders(before, F) BY <1>1, LowestOrders
  <1>5. ChunkSize \in Nat /\ ChunkSize > 0 BY SettlementAssumption
  <1> HIDE DEF before, n
  <1>6. \A r \in F : Place(before, r) \in Nat /\ Place(before, r) < n
    BY <1>1, <1>4, Places DEF n
  <1>7. DOMAIN chunks = F /\ \A r \in F : chunks[r] = Place(before, r) \div ChunkSize
    BY <1>2, <1>3
  <1>8. k \in Nat /\ n - 1 < ChunkSize * k
    <2> DEFINE m == n + ChunkSize - 1
    <2>1. m \in Nat BY <1>1, <1>5
    <2>2. k = m \div ChunkSize BY DEF Chunks
    <2> HIDE DEF m, k
    <2>3. k \in Nat /\ m < ChunkSize * k + ChunkSize BY <1>5, <2>1, <2>2, Division
    <2>4. ChunkSize * k \in Nat BY <1>5, <2>3
    <2> QED BY <1>1, <1>5, <2>3, <2>4 DEF m
  <1> HIDE DEF k
  <1>9. ASSUME NEW r \in F
        PROVE  chunks[r] \in 0..(k - 1)
    <2> DEFINE q == chunks[r]
               p == Place(before, r)
    <2>1. p \in Nat /\ p < n /\ q = p \div ChunkSize BY <1>6, <1>7
    <2> HIDE DEF p, q
    <2>2. q \in Nat /\ ChunkSize * q <= p BY <1>5, <2>1, Division
    <2>3. ChunkSize * (k - q) = ChunkSize * k - ChunkSize * q BY <1>5, <1>8, <2>2
    <2>4. ChunkSize * q \in Nat /\ ChunkSize * k \in Nat BY <1>5, <1>8, <2>2
    <2>5. 0 < ChunkSize * (k - q) BY <1>1, <1>8, <2>1, <2>2, <2>3, <2>4
    <2>6. k - q > 0
      <3>1. ASSUME k - q <= 0 PROVE FALSE
        <4>1. q - k \in Nat BY <1>8, <2>2, <3>1
        <4>2. ChunkSize * (q - k) \in Nat BY <1>5, <4>1
        <4>3. ChunkSize * (k - q) = -(ChunkSize * (q - k)) BY <1>5, <1>8, <2>2
        <4> QED BY <2>5, <4>2, <4>3
      <3> QED BY <1>8, <2>2, <3>1
    <2> QED BY <1>8, <2>2, <2>6 DEF q
  <1>10. Range(chunks) \in SUBSET (0..(k - 1)) BY <1>7, <1>9 DEF Range
  <1>11. IsFiniteSet(Range(chunks)) /\ Cardinality(Range(chunks)) <= k
    <2>1. 0 \in Int /\ k - 1 \in Int BY <1>8
    <2>2. /\ IsFiniteSet(0..(k - 1))
          /\ Cardinality(0..(k - 1)) = IF 0 > k - 1 THEN 0 ELSE (k - 1) - 0 + 1
      BY <2>1, FS_Interval
    <2>3. Cardinality(0..(k - 1)) = k BY <1>8, <2>2
    <2> QED BY <1>10, <2>2, <2>3, FS_Subset
  <1>12. ASSUME NEW c \in Range(chunks)
         PROVE  LET members == {r \in F : chunks[r] = c}
                IN  /\ IsFiniteSet(members) /\ members # {}
                    /\ Cardinality(members) \in 1..ChunkSize
    <2> DEFINE members == {r \in F : chunks[r] = c}
               a == ChunkSize * c
               b == Smaller(a + ChunkSize, n)
               T == {r \in F : a <= Place(before, r) /\ Place(before, r) < b}
    <2>1. c \in Nat BY <1>10
    <2>2. a \in Nat /\ b \in Nat /\ b <= n /\ b <= a + ChunkSize
      BY <1>1, <1>5, <2>1 DEF Smaller
    <2>3. PICK x \in F : chunks[x] = c BY <1>7 DEF Range
    <2>4. ASSUME NEW r \in F
          PROVE  chunks[r] = c <=> a <= Place(before, r) /\ Place(before, r) < b
      <3>1. Place(before, r) \in Nat /\ Place(before, r) < n BY <1>6
      <3>2. chunks[r] = c <=> a <= Place(before, r) /\ Place(before, r) < a + ChunkSize
        BY <1>5, <1>7, <2>1, <3>1, QuotientIs
      <3> HIDE DEF a
      <3> QED BY <1>1, <1>5, <2>2, <3>1, <3>2 DEF Smaller
    <2>5. members = T BY <2>4
    <2> HIDE DEF a, b
    <2>6. a < b
      <3>1. Place(before, x) \in Nat BY <1>6
      <3>2. a <= Place(before, x) /\ Place(before, x) < b BY <2>3, <2>4
      <3> QED BY <2>2, <3>1, <3>2
    <2>7. IsFiniteSet(T) /\ Cardinality(T) = b - a
      BY <1>1, <1>4, <2>2, <2>6, PlacesBetween DEF n
    <2>8. x \in members BY <2>3
    <2> HIDE DEF members, T
    <2>9. Cardinality(members) \in 1..ChunkSize BY <1>5, <2>2, <2>5, <2>6, <2>7
    <2>10. IsFiniteSet(members) /\ members # {} BY <2>5, <2>7, <2>8
    <2> QED BY <2>9, <2>10 DEF members
  <1> QED BY <1>1, <1>7, <1>11, <1>12 DEF n, k, F, chunks

\* The fee of a chunk is shared without loss.
LEMMA ChunkFeeExact ==
    ASSUME NEW S \in SUBSET Nat, IsFiniteSet(S), S # {}, NEW chunk \in [S -> Nat],
           \A r \in S : chunk[r] > 0
    PROVE  SumFunction(ChunkFee(chunk)) = FanoutFee(Cardinality(S))
  <1> DEFINE n == Cardinality(S)
             fee == FanoutFee(n)
  <1>1. n \in Nat BY FS_CardinalityType
  <1>2. fee \in Nat
    <2> DEFINE size == 91 + 43 * n
               rate == FeeRate * PremiumBps
               all == size * FeeRate * PremiumBps + 9999999
    <2> HIDE DEF n
    <2>1. size \in Nat /\ FeeRate \in Nat /\ PremiumBps \in Nat
      BY <1>1, SettlementAssumption
    <2> HIDE DEF size
    <2>2. size * FeeRate \in Nat BY <2>1
    <2>3. size * FeeRate * PremiumBps \in Nat BY <2>1, <2>2
    <2>4. all \in Nat BY <2>3
    <2> HIDE DEF all
    <2>5. all \div 10000000 \in Nat BY <2>4, Division
    <2> QED BY <2>5 DEF FanoutFee, all, size
  <1>3. DOMAIN chunk = S /\ ChunkFee(chunk) = Allocate(fee, chunk) BY DEF ChunkFee
  <1> HIDE DEF fee
  <1>4. /\ Allocate(fee, chunk) \in [S -> Nat]
        /\ SumFunctionOnSet(Allocate(fee, chunk), S) = fee
    BY <1>2, AllocateExact
  <1>5. DOMAIN ChunkFee(chunk) = S BY <1>3, <1>4
  <1> QED BY <1>3, <1>4, <1>5 DEF SumFunction, fee
=============================================================================
