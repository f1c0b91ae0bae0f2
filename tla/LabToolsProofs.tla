--------------------------- MODULE LabToolsProofs ---------------------------
(***************************************************************************)
(* Theorems about the small programs of the labs, for every value of the   *)
(* constants: quicksort, the wakeup probe, the sandbox benchmark, the      *)
(* cluster scheduler simulator, the fairness scripts, the throttling       *)
(* scripts and the percentile scripts.                                     *)
(***************************************************************************)
EXTENDS MCLabTools, FiniteSetTheorems, WellFoundedInduction, TLAPS

------------------------------------------------------------------------------
(* Sums over finite sets.  The scripts compute with sums, which the        *)
(* community modules define as folds of a recursive function; Sum is one   *)
(* that can be reasoned about, and FoldIsSum says that they are the same.  *)

(* A set of natural numbers has a least element. *)
LEMMA LeastNat ==
  ASSUME NEW T \in SUBSET Nat, T # {}
  PROVE  \E x \in T : \A y \in T : x <= y
  <1>1. IsWellFoundedOn(OpToRel(<,Nat), Nat)
    BY NatLessThanWellFounded
  <1> DEFINE R == OpToRel(<,Nat)
  <1>2. \A x, y \in Nat : <<y, x>> \in R <=> y < x
    BY DEF OpToRel
  <1> HIDE DEF R
  <1>3. IsWellFoundedOn(R, Nat)
    BY <1>1 DEF R
  <1>4. PICK x \in T : \A y \in T : ~ (<<y, x>> \in R)
    BY <1>3, WFMin
  <1>5. \A y \in T : ~(y < x)
    BY <1>2, <1>4
  <1>6. \A y \in T : y \in Nat /\ x \in Nat
    OBVIOUS
  <1> QED
    BY <1>5, <1>6

(* Induction: what holds of 0 and of k + 1 if of k holds of them all. *)
LEMMA NatInd ==
  ASSUME NEW T, 0 \in T, \A k \in Nat : k \in T => k + 1 \in T
  PROVE  Nat \subseteq T
  <1> DEFINE U == {k \in Nat : k \notin T}
  <1> SUFFICES ASSUME U # {} PROVE FALSE
    OBVIOUS
  <1>1. PICK x \in U : \A y \in U : x <= y
    <2>1. U \in SUBSET Nat /\ U # {}
      OBVIOUS
    <2> HIDE DEF U
    <2> QED BY <2>1, LeastNat
  <1>2. x \in Nat /\ x # 0
    OBVIOUS
  <1>3. x - 1 \in Nat /\ ~(x <= x - 1)
    BY <1>2
  <1>4. x - 1 \in T
    BY <1>1, <1>3
  <1>5. (x - 1) + 1 = x
    BY <1>2
  <1> QED BY <1>3, <1>4, <1>5

(* Induction on the subsets of a finite set. *)
LEMMA SetInd ==
  ASSUME NEW D, IsFiniteSet(D), NEW T, {} \in T,
         \A S \in SUBSET D, x \in D : S \in T /\ x \notin S => S \cup {x} \in T
  PROVE  SUBSET D \subseteq T
  <1> DEFINE N == {k \in Nat : \A S \in SUBSET D : Cardinality(S) = k => S \in T}
  <1>0. \A S \in SUBSET D : IsFiniteSet(S) /\ Cardinality(S) \in Nat
    BY FS_Subset, FS_CardinalityType
  <1>1. 0 \in N
    BY <1>0, FS_EmptySet
  <1>2. ASSUME NEW k \in Nat, k \in N PROVE k + 1 \in N
    <2> SUFFICES ASSUME NEW S \in SUBSET D, Cardinality(S) = k + 1 PROVE S \in T
      OBVIOUS
    <2>1. S # {}
      <3>1. Cardinality(S) # 0
        OBVIOUS
      <3> QED BY <3>1, FS_EmptySet
    <2>2. PICK x \in S : TRUE
      BY <2>1
    <2>3. Cardinality(S \ {x}) = k /\ S \ {x} \in SUBSET D /\ x \in D
      <3>1. Cardinality(S \ {x}) = Cardinality(S) - 1
        BY <1>0, <2>2, FS_RemoveElement
      <3> QED BY <3>1, <2>2
    <2>4. S \ {x} \in T
      BY <1>2, <2>3
    <2>5. (S \ {x}) \cup {x} = S /\ x \notin S \ {x}
      BY <2>2
    <2> QED BY <2>3, <2>4, <2>5
  <1> HIDE DEF N
  <1>3. Nat \subseteq N
    BY <1>1, <1>2, NatInd
  <1> QED BY <1>0, <1>3 DEF N

(* V has the sum of the values of f over every subset of D. *)
SumsOf(f, D, V) ==
  /\ V \in [SUBSET D -> Int] /\ V[{}] = 0
  /\ \A S \in SUBSET D : \A x \in S : V[S] = V[S \ {x}] + f[x]

(* There is such a function. *)
LEMMA SumsExist ==
  ASSUME NEW f, NEW D, IsFiniteSet(D), \A x \in D : f[x] \in Int
  PROVE  \E V : SumsOf(f, D, V)
  <1> DEFINE T == {S \in SUBSET D : \E V : SumsOf(f, S, V)}
  <1>1. {} \in T
    <2>1. SumsOf(f, {}, [S \in SUBSET {} |-> 0])
      BY DEF SumsOf
    <2> QED BY <2>1
  <1>2. ASSUME NEW S \in SUBSET D, NEW x \in D, S \in T, x \notin S PROVE S \cup {x} \in T
    <2>1. PICK V : SumsOf(f, S, V)
      BY <1>2
    <2> DEFINE R == S \cup {x}
               W == [U \in SUBSET R |-> V[U \ {x}] + (IF x \in U THEN f[x] ELSE 0)]
    <2>2. f[x] \in Int /\ \A U \in SUBSET R : U \ {x} \in SUBSET S /\ V[U \ {x}] \in Int
      BY <2>1 DEF SumsOf
    <2>3. W \in [SUBSET R -> Int]
      BY <2>2
    <2>4. W[{}] = 0
      <3>1. {} \ {x} = {} /\ {} \in SUBSET R /\ V[{}] = 0
        BY <2>1 DEF SumsOf
      <3> QED BY <3>1
    <2>5. ASSUME NEW U \in SUBSET R, NEW y \in U PROVE W[U] = W[U \ {y}] + f[y]
      <3>1. U \ {y} \in SUBSET R
        OBVIOUS
      <3>2. CASE y = x
        <4>1. (U \ {y}) \ {x} = U \ {x} /\ x \notin U \ {y} /\ x \in U
          BY <3>2
        <4>2. W[U] = V[U \ {x}] + f[x] /\ W[U \ {y}] = V[U \ {x}] + 0
          BY <3>1, <4>1
        <4>3. \A a, b \in Int : a + b = (a + 0) + b
          OBVIOUS
        <4> HIDE DEF W
        <4> QED BY <2>2, <3>2, <4>2, <4>3
      <3>3. CASE y # x
        <4>1. (U \ {y}) \ {x} = (U \ {x}) \ {y} /\ y \in U \ {x} /\ y \in D
              /\ (x \in U \ {y} <=> x \in U)
          BY <3>3
        <4>2. V[U \ {x}] = V[(U \ {y}) \ {x}] + f[y]
          BY <2>1, <2>2, <4>1 DEF SumsOf
        <4>3. f[y] \in Int /\ V[(U \ {y}) \ {x}] \in Int
          BY <2>2, <3>1, <4>1
        <4>4. W[U] = V[U \ {x}] + (IF x \in U THEN f[x] ELSE 0)
              /\ W[U \ {y}] = V[(U \ {y}) \ {x}] + (IF x \in U THEN f[x] ELSE 0)
          BY <3>1, <4>1
        <4>5. (IF x \in U THEN f[x] ELSE 0) \in Int
          BY <2>2
        <4> DEFINE c == IF x \in U THEN f[x] ELSE 0
        <4>6. \A a, b, d \in Int : (a + b) + d = (a + d) + b
          OBVIOUS
        <4> HIDE DEF W, c
        <4>7. W[U] = (V[(U \ {y}) \ {x}] + f[y]) + c
              /\ W[U \ {y}] = V[(U \ {y}) \ {x}] + c /\ c \in Int
          BY <4>2, <4>4, <4>5 DEF c
        <4> QED BY <4>3, <4>6, <4>7
      <3> QED BY <3>2, <3>3
    <2> HIDE DEF W
    <2>6. SumsOf(f, R, W)
      BY <2>3, <2>4, <2>5 DEF SumsOf
    <2> QED BY <2>6
  <1> HIDE DEF T
  <1>3. SUBSET D \subseteq T
    BY <1>1, <1>2, SetInd
  <1> QED BY <1>3 DEF T

(* The sums over the subsets of S. *)
Adds(f, S) == CHOOSE V : SumsOf(f, S, V)

(* The sum of f over S. *)
Sum(f, S) == Adds(f, S)[S]

(* The sum over a set is the same among those over the subsets of more. *)
LEMMA SumsRestrict ==
  ASSUME NEW f, NEW D, NEW V, SumsOf(f, D, V), NEW S \in SUBSET D,
         NEW W, SumsOf(f, S, W), IsFiniteSet(S)
  PROVE  W[S] = V[S]
  <1> DEFINE T == {U \in SUBSET S : W[U] = V[U]}
  <1>1. {} \in T
    BY DEF SumsOf
  <1>2. ASSUME NEW U \in SUBSET S, NEW x \in S, U \in T, x \notin U PROVE U \cup {x} \in T
    <2>1. /\ U \cup {x} \in SUBSET S /\ U \cup {x} \in SUBSET D /\ x \in U \cup {x}
          /\ (U \cup {x}) \ {x} = U
      BY <1>2
    <2>2. W[U \cup {x}] = W[U] + f[x] /\ V[U \cup {x}] = V[U] + f[x]
      BY <2>1 DEF SumsOf
    <2> QED BY <1>2, <2>1, <2>2
  <1> HIDE DEF T
  <1>3. SUBSET S \subseteq T
    BY <1>1, <1>2, SetInd
  <1> QED BY <1>3 DEF T

(* What is added makes the sum so much more. *)
LEMMA SumRule ==
  ASSUME NEW f, NEW D, IsFiniteSet(D), \A x \in D : f[x] \in Int
  PROVE  /\ Sum(f, D) \in Int
         /\ Sum(f, {}) = 0
         /\ \A S \in SUBSET D : \A x \in D : x \notin S => Sum(f, S \cup {x}) = Sum(f, S) + f[x]
  <1>1. \A S \in SUBSET D : IsFiniteSet(S) /\ SumsOf(f, S, Adds(f, S))
    <2> TAKE S \in SUBSET D
    <2>1. IsFiniteSet(S) /\ \A x \in S : f[x] \in Int
      BY FS_Subset
    <2>2. \E V : SumsOf(f, S, V)
      BY <2>1, SumsExist
    <2> QED BY <2>1, <2>2 DEF Adds
  <1>2. \A S \in SUBSET D : Sum(f, S) = Adds(f, D)[S]
    <2> TAKE S \in SUBSET D
    <2>1. IsFiniteSet(S) /\ SumsOf(f, S, Adds(f, S)) /\ SumsOf(f, D, Adds(f, D))
      BY <1>1
    <2>2. Adds(f, S)[S] = Adds(f, D)[S]
      BY <2>1, SumsRestrict
    <2> QED BY <2>2 DEF Sum
  <1>3. Sum(f, D) \in Int /\ Sum(f, {}) = 0
    BY <1>1 DEF Sum, SumsOf
  <1>4. ASSUME NEW S \in SUBSET D, NEW x \in D, x \notin S
        PROVE  Sum(f, S \cup {x}) = Sum(f, S) + f[x]
    <2>1. S \cup {x} \in SUBSET D /\ x \in S \cup {x} /\ (S \cup {x}) \ {x} = S
      BY <1>4
    <2>2. Adds(f, D)[S \cup {x}] = Adds(f, D)[S] + f[x]
      <3> DEFINE V == Adds(f, D)
      <3>1. SumsOf(f, D, V)
        BY <1>1
      <3> HIDE DEF V
      <3>2. V[S \cup {x}] = V[(S \cup {x}) \ {x}] + f[x]
        BY <2>1, <3>1 DEF SumsOf
      <3> QED BY <2>1, <3>2 DEF V
    <2> QED BY <1>2, <2>1, <2>2
  <1> QED BY <1>3, <1>4

(* Of some subsets of a finite set one has the fewest elements. *)
LEMMA Smallest ==
  ASSUME NEW D, IsFiniteSet(D), NEW A \in SUBSET SUBSET D, A # {}
  PROVE  \E S \in A : \A U \in A : Cardinality(S) <= Cardinality(U)
  <1> DEFINE N == {Cardinality(S) : S \in A}
  <1>1. N \in SUBSET Nat /\ N # {}
    BY FS_Subset, FS_CardinalityType
  <1>2. PICK k \in N : \A l \in N : k <= l
    <2> HIDE DEF N
    <2> QED BY <1>1, LeastNat
  <1> QED BY <1>2

(* A fold that adds the values one by one, each time one of those left. *)
LEMMA FoldIsSum ==
  ASSUME NEW f, NEW D, IsFiniteSet(D), \A x \in D : f[x] \in Int, NEW g,
         g = CHOOSE h : h = [S \in SUBSET D |->
                               IF S = {} THEN 0
                               ELSE f[CHOOSE x \in S : TRUE] + h[S \ {CHOOSE x \in S : TRUE}]]
  PROVE  g[D] = Sum(f, D)
  <1> DEFINE pick(S) == CHOOSE x \in S : TRUE
             F(h) == [S \in SUBSET D |-> IF S = {} THEN 0
                                         ELSE f[pick(S)] + h[S \ {pick(S)}]]
             V == Adds(f, D)
             T == {S \in SUBSET D : g[S] = V[S]}
  <1>1. g = CHOOSE h : h = F(h)
    OBVIOUS
  <1>2. SumsOf(f, D, V)
    BY SumsExist DEF Adds
  <1>3. \A S \in SUBSET D : S # {} => pick(S) \in S
    OBVIOUS
  <1> HIDE DEF pick
  <1>4. V = F(V)
    <2>1. ASSUME NEW S \in SUBSET D, S # {} PROVE V[S] = f[pick(S)] + V[S \ {pick(S)}]
      <3>1. pick(S) \in S /\ pick(S) \in D /\ S \ {pick(S)} \in SUBSET D
        BY <1>3, <2>1
      <3>2. V[S] = V[S \ {pick(S)}] + f[pick(S)] /\ V[S \ {pick(S)}] \in Int /\ f[pick(S)] \in Int
        BY <1>2, <3>1 DEF SumsOf
      <3> HIDE DEF V
      <3> QED BY <3>2
    <2>2. V[{}] = 0 /\ V \in [SUBSET D -> Int]
      BY <1>2 DEF SumsOf
    <2> HIDE DEF V
    <2> QED BY <2>1, <2>2
  <1> HIDE DEF V
  <1>5. g = F(g)
    <2> HIDE DEF F
    <2> QED BY <1>1, <1>4
  <1>6. T = SUBSET D
    <2> SUFFICES ASSUME (SUBSET D) \ T # {} PROVE FALSE
      OBVIOUS
    <2>1. PICK S \in (SUBSET D) \ T : \A U \in (SUBSET D) \ T : Cardinality(S) <= Cardinality(U)
      <3> HIDE DEF T
      <3> QED BY Smallest
    <2>0. g[S] # V[S]
      BY <2>1
    <2>2. S # {}
      <3>1. g[{}] = 0 /\ V[{}] = 0
        BY <1>2, <1>5 DEF SumsOf
      <3> QED BY <2>0, <3>1
    <2>3. pick(S) \in S /\ S \ {pick(S)} \in SUBSET D
      BY <1>3, <2>2
    <2>4. ~(Cardinality(S) <= Cardinality(S \ {pick(S)}))
      <3>1. IsFiniteSet(S) /\ Cardinality(S) \in Nat
        BY FS_Subset, FS_CardinalityType
      <3>2. Cardinality(S \ {pick(S)}) = Cardinality(S) - 1
        BY <2>3, <3>1, FS_RemoveElement
      <3> QED BY <3>1, <3>2
    <2>5. S \ {pick(S)} \in T
      BY <2>1, <2>3, <2>4
    <2>6. g[S] = f[pick(S)] + g[S \ {pick(S)}]
      BY <1>5, <2>2
    <2>7. V[S] = f[pick(S)] + V[S \ {pick(S)}]
      BY <1>4, <2>2
    <2>8. g[S \ {pick(S)}] = V[S \ {pick(S)}]
      BY <2>5
    <2> QED BY <2>0, <2>6, <2>7, <2>8
  <1> QED BY <1>6 DEF Sum, V

(* One value more. *)
LEMMA SumAdd ==
  ASSUME NEW S, IsFiniteSet(S), NEW x, x \notin S, NEW f, \A y \in S \cup {x} : f[y] \in Int
  PROVE  Sum(f, S \cup {x}) = Sum(f, S) + f[x]
  <1>1. IsFiniteSet(S \cup {x})
    BY FS_AddElement
  <1>2. S \in SUBSET (S \cup {x}) /\ x \in S \cup {x}
    OBVIOUS
  <1> QED BY <1>1, <1>2, SumRule

(* A sum of integers is one. *)
LEMMA SumInt ==
  ASSUME NEW S, IsFiniteSet(S), NEW f, \A y \in S : f[y] \in Int
  PROVE  Sum(f, S) \in Int
  BY SumRule

(* Nothing adds up to 0. *)
LEMMA SumEmpty ==
  ASSUME NEW f
  PROVE  Sum(f, {}) = 0
  BY SumRule, FS_EmptySet

(* Sums keep an order of the values. *)
LEMMA SumLe ==
  ASSUME NEW S, IsFiniteSet(S), NEW f, NEW g,
         \A x \in S : f[x] \in Int /\ g[x] \in Int /\ f[x] <= g[x]
  PROVE  Sum(f, S) <= Sum(g, S)
  <1> DEFINE T == {U \in SUBSET S : Sum(f, U) <= Sum(g, U)}
  <1>1. {} \in T
    BY SumEmpty
  <1>2. ASSUME NEW U \in SUBSET S, NEW x \in S, U \in T, x \notin U PROVE U \cup {x} \in T
    <2>1. IsFiniteSet(U) /\ (\A y \in U \cup {x} : f[y] \in Int)
          /\ (\A y \in U \cup {x} : g[y] \in Int)
      BY FS_Subset
    <2>2. Sum(f, U \cup {x}) = Sum(f, U) + f[x] /\ Sum(g, U \cup {x}) = Sum(g, U) + g[x]
      BY <1>2, <2>1, SumAdd
    <2>3. Sum(f, U) \in Int /\ Sum(g, U) \in Int
      BY <2>1, SumInt
    <2>4. f[x] \in Int /\ g[x] \in Int /\ f[x] <= g[x] /\ Sum(f, U) <= Sum(g, U)
      BY <1>2
    <2>5. Sum(f, U \cup {x}) <= Sum(g, U \cup {x})
      BY <2>2, <2>3, <2>4
    <2> QED BY <2>5
  <1> HIDE DEF T
  <1>3. SUBSET S \subseteq T
    BY <1>1, <1>2, SetInd
  <1> QED BY <1>3 DEF T

(* Equal values have equal sums. *)
LEMMA SumSame ==
  ASSUME NEW S, IsFiniteSet(S), NEW f, NEW g, \A x \in S : f[x] \in Int /\ g[x] = f[x]
  PROVE  Sum(f, S) = Sum(g, S)
  <1>1. \A x \in S : f[x] \in Int /\ g[x] \in Int /\ f[x] <= g[x] /\ g[x] <= f[x]
    OBVIOUS
  <1>2. Sum(f, S) <= Sum(g, S)
    BY <1>1, SumLe
  <1>3. Sum(g, S) <= Sum(f, S)
    BY <1>1, SumLe
  <1>4. Sum(f, S) \in Int /\ Sum(g, S) \in Int
    BY <1>1, SumInt
  <1> QED BY <1>2, <1>3, <1>4

(* The sum of the sums. *)
LEMMA SumPlus ==
  ASSUME NEW S, IsFiniteSet(S), NEW f, NEW g, NEW h,
         \A x \in S : f[x] \in Int /\ g[x] \in Int /\ h[x] = f[x] + g[x]
  PROVE  Sum(h, S) = Sum(f, S) + Sum(g, S)
  <1> DEFINE T == {U \in SUBSET S : Sum(h, U) = Sum(f, U) + Sum(g, U)}
  <1>1. {} \in T
    BY SumEmpty
  <1>2. ASSUME NEW U \in SUBSET S, NEW x \in S, U \in T, x \notin U PROVE U \cup {x} \in T
    <2>1. IsFiniteSet(U) /\ (\A y \in U \cup {x} : f[y] \in Int)
          /\ (\A y \in U \cup {x} : g[y] \in Int) /\ (\A y \in U \cup {x} : h[y] \in Int)
      BY FS_Subset
    <2>2. /\ Sum(f, U \cup {x}) = Sum(f, U) + f[x] /\ Sum(g, U \cup {x}) = Sum(g, U) + g[x]
          /\ Sum(h, U \cup {x}) = Sum(h, U) + h[x]
      BY <1>2, <2>1, SumAdd
    <2>3. Sum(f, U) \in Int /\ Sum(g, U) \in Int
      BY <2>1, SumInt
    <2>4. /\ f[x] \in Int /\ g[x] \in Int /\ h[x] = f[x] + g[x]
          /\ Sum(h, U) = Sum(f, U) + Sum(g, U)
      BY <1>2
    <2>5. Sum(h, U \cup {x}) = Sum(f, U \cup {x}) + Sum(g, U \cup {x})
      BY <2>2, <2>3, <2>4
    <2> QED BY <2>5
  <1> HIDE DEF T
  <1>3. SUBSET S \subseteq T
    BY <1>1, <1>2, SetInd
  <1> QED BY <1>3 DEF T

(* A factor of every value. *)
LEMMA SumTimes ==
  ASSUME NEW S, IsFiniteSet(S), NEW f, NEW g, NEW c \in Int,
         \A x \in S : f[x] \in Int /\ g[x] = c * f[x]
  PROVE  Sum(g, S) = c * Sum(f, S)
  <1> DEFINE T == {U \in SUBSET S : Sum(g, U) = c * Sum(f, U)}
  <1>1. {} \in T
    BY SumEmpty
  <1>2. ASSUME NEW U \in SUBSET S, NEW x \in S, U \in T, x \notin U PROVE U \cup {x} \in T
    <2>1. IsFiniteSet(U) /\ (\A y \in U \cup {x} : f[y] \in Int)
          /\ (\A y \in U \cup {x} : g[y] \in Int)
      BY FS_Subset
    <2>2. Sum(f, U \cup {x}) = Sum(f, U) + f[x] /\ Sum(g, U \cup {x}) = Sum(g, U) + g[x]
      BY <1>2, <2>1, SumAdd
    <2>3. Sum(f, U) \in Int
      BY <2>1, SumInt
    <2>4. f[x] \in Int /\ g[x] = c * f[x] /\ Sum(g, U) = c * Sum(f, U)
      BY <1>2
    <2>5. \A a, b \in Int : c * (a + b) = c * a + c * b
      OBVIOUS
    <2>6. Sum(g, U \cup {x}) = c * Sum(f, U \cup {x})
      BY <2>2, <2>3, <2>4, <2>5
    <2> QED BY <2>6
  <1> HIDE DEF T
  <1>3. SUBSET S \subseteq T
    BY <1>1, <1>2, SetInd
  <1> QED BY <1>3 DEF T

(* As often the same value. *)
LEMMA SumConst ==
  ASSUME NEW S, IsFiniteSet(S), NEW f, NEW c \in Int, \A x \in S : f[x] = c
  PROVE  Sum(f, S) = Cardinality(S) * c
  <1> DEFINE T == {U \in SUBSET S : Sum(f, U) = Cardinality(U) * c}
  <1>1. {} \in T
    BY SumEmpty, FS_EmptySet
  <1>2. ASSUME NEW U \in SUBSET S, NEW x \in S, U \in T, x \notin U PROVE U \cup {x} \in T
    <2>1. IsFiniteSet(U) /\ (\A y \in U \cup {x} : f[y] \in Int)
      BY FS_Subset
    <2>2. Sum(f, U \cup {x}) = Sum(f, U) + f[x]
      BY <1>2, <2>1, SumAdd
    <2>3. Cardinality(U \cup {x}) = Cardinality(U) + 1 /\ Cardinality(U) \in Nat
      BY <1>2, <2>1, FS_AddElement, FS_CardinalityType
    <2>4. \A a \in Nat : (a + 1) * c = a * c + c
      OBVIOUS
    <2>5. f[x] = c /\ Sum(f, U) = Cardinality(U) * c
      BY <1>2
    <2>6. Sum(f, U \cup {x}) = Cardinality(U \cup {x}) * c
      BY <2>2, <2>3, <2>4, <2>5
    <2> QED BY <2>6
  <1> HIDE DEF T
  <1>3. SUBSET S \subseteq T
    BY <1>1, <1>2, SetInd
  <1> QED BY <1>3 DEF T

(* What is added outside of S is nothing. *)
LEMMA SumOutside ==
  ASSUME NEW D, IsFiniteSet(D), NEW S \in SUBSET D, NEW f,
         \A x \in D : f[x] \in Int, \A x \in D \ S : f[x] = 0
  PROVE  Sum(f, D) = Sum(f, S)
  <1> DEFINE E == D \ S
             T == {U \in SUBSET E : Sum(f, S \cup U) = Sum(f, S)}
  <1>0. IsFiniteSet(E)
    BY FS_Difference
  <1>1. {} \in T
    <2>1. S \cup {} = S
      OBVIOUS
    <2> QED BY <2>1
  <1>2. ASSUME NEW U \in SUBSET E, NEW x \in E, U \in T, x \notin U PROVE U \cup {x} \in T
    <2>1. /\ S \cup U \in SUBSET D /\ x \in D /\ x \notin S \cup U
          /\ S \cup (U \cup {x}) = (S \cup U) \cup {x} /\ f[x] = 0
          /\ U \cup {x} \in SUBSET E
      BY <1>2
    <2>2. Sum(f, S \cup U) = Sum(f, S)
      BY <1>2
    <2> DEFINE R == S \cup U
    <2>3. IsFiniteSet(R) /\ x \notin R /\ \A y \in R \cup {x} : f[y] \in Int
      BY <2>1, FS_Subset
    <2> HIDE DEF R, T
    <2>4. Sum(f, R \cup {x}) = Sum(f, R) + f[x]
      BY <2>3, SumAdd
    <2>5. Sum(f, R) \in Int
      BY <2>3, SumInt
    <2>6. Sum(f, R \cup {x}) = Sum(f, R)
      BY <2>1, <2>4, <2>5
    <2>7. Sum(f, S \cup (U \cup {x})) = Sum(f, S)
      BY <2>1, <2>2, <2>6 DEF R
    <2> QED BY <2>1, <2>7 DEF T
  <1> HIDE DEF T, E
  <1>3. SUBSET E \subseteq T
    BY <1>0, <1>1, <1>2, SetInd
  <1>4. S \cup E = D /\ E \in T
    BY <1>3 DEF E
  <1> QED BY <1>4 DEF T

(* A sum of natural numbers is one. *)
LEMMA SumNat ==
  ASSUME NEW S, IsFiniteSet(S), NEW f, \A x \in S : f[x] \in Nat
  PROVE  Sum(f, S) \in Nat
  <1> DEFINE g == [x \in S |-> 0]
  <1>1. Sum(g, S) = Cardinality(S) * 0 /\ Cardinality(S) \in Nat
    BY SumConst, FS_CardinalityType
  <1>2. Sum(g, S) <= Sum(f, S)
    BY SumLe
  <1>3. Sum(f, S) \in Int
    BY SumInt
  <1> HIDE DEF g
  <1> QED BY <1>1, <1>2, <1>3

(* Of natural numbers, some add up to no more than all. *)
LEMMA SumSubset ==
  ASSUME NEW D, IsFiniteSet(D), NEW S \in SUBSET D, NEW f, \A x \in D : f[x] \in Nat
  PROVE  Sum(f, S) <= Sum(f, D)
  <1> DEFINE g == [x \in D |-> IF x \in S THEN f[x] ELSE 0]
  <1>1. /\ \A x \in D : g[x] \in Int /\ f[x] \in Int /\ g[x] <= f[x]
        /\ \A x \in D \ S : g[x] = 0
        /\ \A x \in S : g[x] \in Int /\ g[x] = f[x] /\ f[x] \in Int
    OBVIOUS
  <1> HIDE DEF g
  <1>2. Sum(g, D) = Sum(g, S)
    BY <1>1, SumOutside
  <1>3. IsFiniteSet(S)
    BY FS_Subset
  <1>4. Sum(f, S) = Sum(g, S)
    BY <1>1, <1>3, SumSame
  <1>5. Sum(g, D) <= Sum(f, D)
    BY <1>1, SumLe
  <1> QED BY <1>2, <1>4, <1>5

(* Of finitely many numbers one is the greatest. *)
LEMMA Largest ==
  ASSUME NEW S, IsFiniteSet(S), S # {}, NEW f, \A x \in S : f[x] \in Int
  PROVE  \E x \in S : \A y \in S : f[y] <= f[x]
  <1> DEFINE T == {U \in SUBSET S : U # {} => \E x \in U : \A y \in U : f[y] <= f[x]}
  <1>1. {} \in T
    OBVIOUS
  <1>2. ASSUME NEW U \in SUBSET S, NEW z \in S, U \in T, z \notin U PROVE U \cup {z} \in T
    <2>1. CASE U = {}
      <3>1. z \in U \cup {z} /\ \A y \in U \cup {z} : f[y] <= f[z]
        BY <2>1
      <3> QED BY <3>1
    <2>2. CASE U # {}
      <3>1. PICK x \in U : \A y \in U : f[y] <= f[x]
        BY <1>2, <2>2
      <3>2. CASE f[x] <= f[z]
        <4>1. \A y \in U \cup {z} : f[y] <= f[z]
          BY <3>1, <3>2
        <4> QED BY <4>1
      <3>3. CASE ~(f[x] <= f[z])
        <4>1. \A y \in U \cup {z} : f[y] <= f[x]
          BY <3>1, <3>3
        <4> QED BY <4>1
      <3> QED BY <3>2, <3>3
    <2> QED BY <2>1, <2>2
  <1> HIDE DEF T
  <1>3. SUBSET S \subseteq T
    BY <1>1, <1>2, SetInd
  <1>4. S \in T
    BY <1>3
  <1> QED BY <1>4 DEF T

(* The image of a finite set is finite. *)
LEMMA ImageFinite ==
  ASSUME NEW S, IsFiniteSet(S), NEW f
  PROVE  IsFiniteSet({f[x] : x \in S})
  <1> DEFINE T == {U \in SUBSET S : IsFiniteSet({f[x] : x \in U})}
  <1>1. {} \in T
    <2>1. {f[x] : x \in {}} = {}
      OBVIOUS
    <2> QED BY <2>1, FS_EmptySet
  <1>2. ASSUME NEW U \in SUBSET S, NEW z \in S, U \in T, z \notin U PROVE U \cup {z} \in T
    <2>1. {f[x] : x \in U \cup {z}} = {f[x] : x \in U} \cup {f[z]}
      OBVIOUS
    <2>2. IsFiniteSet({f[x] : x \in U} \cup {f[z]})
      BY <1>2, FS_AddElement
    <2> QED BY <2>1, <2>2
  <1> HIDE DEF T
  <1>3. SUBSET S \subseteq T
    BY <1>1, <1>2, SetInd
  <1> QED BY <1>3 DEF T

(* Two sets that share nothing. *)
LEMMA SumDisjoint ==
  ASSUME NEW A, NEW B, IsFiniteSet(A), IsFiniteSet(B), A \cap B = {},
         NEW f, \A x \in A \cup B : f[x] \in Int
  PROVE  Sum(f, A \cup B) = Sum(f, A) + Sum(f, B)
  <1> DEFINE D == A \cup B
             g == [x \in D |-> IF x \in A THEN f[x] ELSE 0]
             h == [x \in D |-> IF x \in B THEN f[x] ELSE 0]
  <1>1. IsFiniteSet(D) /\ A \in SUBSET D /\ B \in SUBSET D
    BY FS_Union
  <1>2. /\ \A x \in D : g[x] \in Int /\ h[x] \in Int /\ f[x] = g[x] + h[x]
        /\ \A x \in D \ A : g[x] = 0
        /\ \A x \in D \ B : h[x] = 0
        /\ \A x \in A : f[x] \in Int /\ g[x] = f[x]
        /\ \A x \in B : f[x] \in Int /\ h[x] = f[x]
    OBVIOUS
  <1> HIDE DEF D, g, h
  <1>3. Sum(f, D) = Sum(g, D) + Sum(h, D)
    BY <1>1, <1>2, SumPlus
  <1>4. Sum(g, D) = Sum(g, A)
    BY <1>1, <1>2, SumOutside
  <1>5. Sum(h, D) = Sum(h, B)
    BY <1>1, <1>2, SumOutside
  <1>6. Sum(f, A) = Sum(g, A)
    BY <1>2, SumSame
  <1>7. Sum(f, B) = Sum(h, B)
    BY <1>2, SumSame
  <1> QED BY <1>3, <1>4, <1>5, <1>6, <1>7 DEF D

(* What has the key u. *)
Group(D, key, u) == {x \in D : key[x] = u}

(* What is added up group by group makes up the whole. *)
LEMMA SumGroups ==
  ASSUME NEW D, IsFiniteSet(D), NEW f, \A x \in D : f[x] \in Int, NEW key,
         NEW U, IsFiniteSet(U), \A x \in D : key[x] \in U,
         NEW g, \A u \in U : g[u] = Sum(f, Group(D, key, u))
  PROVE  Sum(g, U) = Sum(f, D) /\ \A u \in U : g[u] \in Int
  <1> DEFINE Of(V) == {x \in D : key[x] \in V}
             T == {V \in SUBSET U : Sum(g, V) = Sum(f, Of(V))}
  <1>1. IsFiniteSet(U)
    OBVIOUS
  <1>2. ASSUME NEW V PROVE IsFiniteSet(Of(V)) /\ Of(V) \subseteq D
    <2>1. Of(V) \in SUBSET D
      OBVIOUS
    <2> QED BY <2>1, FS_Subset
  <1>3. ASSUME NEW u \in U
        PROVE  g[u] = Sum(f, Of({u})) /\ g[u] \in Int
    <2>1. Group(D, key, u) = Of({u})
      BY DEF Group
    <2>2. IsFiniteSet(Of({u})) /\ \A x \in Of({u}) : f[x] \in Int
      BY <1>2
    <2> HIDE DEF Of
    <2>3. Sum(f, Of({u})) \in Int
      BY <2>2, SumInt
    <2> QED BY <2>1, <2>3
  <1>4. {} \in T
    <2>1. Of({}) = {}
      OBVIOUS
    <2> QED BY <2>1, SumEmpty
  <1>5. ASSUME NEW V \in SUBSET U, NEW u \in U, V \in T, u \notin V PROVE V \cup {u} \in T
    <2>1. /\ Of(V \cup {u}) = Of(V) \cup Of({u}) /\ Of(V) \cap Of({u}) = {}
      BY <1>5
    <2>2. /\ IsFiniteSet(Of(V)) /\ IsFiniteSet(Of({u}))
          /\ \A x \in Of(V) \cup Of({u}) : f[x] \in Int
      BY <1>2
    <2>3. Sum(g, V) = Sum(f, Of(V))
      BY <1>5
    <2> DEFINE A == Of(V)
               B == Of({u})
    <2>4. IsFiniteSet(A) /\ IsFiniteSet(B) /\ A \cap B = {} /\ \A x \in A \cup B : f[x] \in Int
      BY <2>1, <2>2
    <2> HIDE DEF Of, T, A, B
    <2>5. Sum(f, A \cup B) = Sum(f, A) + Sum(f, B)
      BY <2>4, SumDisjoint
    <2>6. IsFiniteSet(V)
      BY <1>1, FS_Subset
    <2>7. \A v \in V \cup {u} : g[v] \in Int
      BY <1>3
    <2>8. Sum(g, V \cup {u}) = Sum(g, V) + g[u]
      BY <1>5, <2>6, <2>7, SumAdd
    <2>9. Sum(g, V \cup {u}) = Sum(f, Of(V \cup {u}))
      BY <1>3, <2>1, <2>3, <2>5, <2>8 DEF A, B
    <2> QED BY <2>9 DEF T
  <1>6. Of(U) = D
    OBVIOUS
  <1> HIDE DEF T, Of
  <1>7. SUBSET U \subseteq T
    <2>1. \A V \in SUBSET U, u \in U : V \in T /\ u \notin V => V \cup {u} \in T
      BY <1>5
    <2> QED BY <1>1, <1>4, <2>1, SetInd
  <1>8. Sum(g, U) = Sum(f, Of(U))
    BY <1>7 DEF T
  <1> QED BY <1>1, <1>3, <1>6, <1>8

(* No natural number is more than the sum it is part of. *)
LEMMA PartOfSum ==
  ASSUME NEW D, IsFiniteSet(D), NEW f, \A x \in D : f[x] \in Nat, NEW z \in D
  PROVE  f[z] <= Sum(f, D)
  <1>1. Sum(f, {z}) <= Sum(f, D)
    <2>1. {z} \in SUBSET D
      OBVIOUS
    <2> QED BY <2>1, SumSubset
  <1>2. Sum(f, {} \cup {z}) = Sum(f, {}) + f[z]
    <2>1. IsFiniteSet({}) /\ z \notin {} /\ \A y \in {} \cup {z} : f[y] \in Int
      BY FS_EmptySet
    <2> QED BY <2>1, SumAdd
  <1>3. {} \cup {z} = {z} /\ Sum(f, {}) = 0
    BY SumEmpty
  <1> QED BY <1>1, <1>2, <1>3

(* The inequality behind Jain's index: num times the sum of the squares is *)
(* at least the square of the sum, and is it for equal shares only; the    *)
(* squares add up to at most the square of the sum.                        *)
LEMMA Jain ==
  ASSUME NEW U, IsFiniteSet(U), NEW x, \A u \in U : x[u] \in Nat,
         NEW q, \A u \in U : q[u] = x[u] * x[u],
         NEW num \in Nat, num = Cardinality(U), num # 0,
         NEW S, S = Sum(x, U), NEW Q, Q = Sum(q, U)
  PROVE  /\ S * S <= num * Q
         /\ num * Q <= num * (S * S)
         /\ S * S = num * Q <=> \A u, v \in U : x[u] = x[v]
  <1>0. \A a, b \in Int : a * b \in Int
    OBVIOUS
  <1>1. S \in Nat /\ (\A u \in U : x[u] \in Int) /\ \A u \in U : q[u] \in Int
    <2>1. \A u \in U : x[u] \in Int
      OBVIOUS
    <2>2. \A u \in U : q[u] \in Int
      BY <1>0, <2>1
    <2> QED BY <2>1, <2>2, SumNat
  <1>2. Q \in Int
    BY <1>1, SumInt
  <1> DEFINE c == 0 - (2 * num * S)
             nn == num * num
             SS == S * S
             f == [u \in U |-> nn * q[u]]
             g == [u \in U |-> c * x[u]]
             sq == [u \in U |-> SS]
             fg == [u \in U |-> f[u] + g[u]]
             h == [u \in U |-> (num * x[u] - S) * (num * x[u] - S)]
  <1>3. c \in Int /\ nn \in Int /\ SS \in Int
    BY <1>0, <1>1
  <1>4. \A u \in U : f[u] = nn * q[u] /\ g[u] = c * x[u] /\ sq[u] = SS /\ fg[u] = f[u] + g[u]
    OBVIOUS
  <1>5. \A u \in U : h[u] = (num * x[u] - S) * (num * x[u] - S)
    OBVIOUS
  <1>6. \A u \in U : h[u] = fg[u] + sq[u]
    <2> TAKE u \in U
    <2>1. \A y \in Int : (num * y - S) * (num * y - S)
                          = (num * num) * (y * y) + (0 - (2 * num * S)) * y + S * S
      BY <1>1
    <2>2. (num * x[u] - S) * (num * x[u] - S) = nn * (x[u] * x[u]) + c * x[u] + SS
      BY <1>1, <2>1
    <2>3. fg[u] = nn * q[u] + c * x[u]
      BY <1>4
    <2>4. q[u] = x[u] * x[u]
      OBVIOUS
    <2> HIDE DEF f, g, sq, fg, h, c, nn, SS
    <2> QED BY <1>4, <1>5, <2>2, <2>3, <2>4
  <1>7. h \in [U -> Int]
    <2>1. \A u \in U : num * x[u] - S \in Int
      BY <1>0, <1>1
    <2> QED BY <1>0, <2>1
  <1> HIDE DEF f, g, sq, fg, h, c, nn, SS
  <1>8. \A u \in U : f[u] \in Int /\ g[u] \in Int /\ sq[u] \in Int /\ fg[u] \in Int /\ h[u] \in Int
    <2>1. \A u \in U : f[u] \in Int /\ g[u] \in Int /\ sq[u] \in Int
      BY <1>0, <1>1, <1>3, <1>4
    <2> QED BY <1>4, <1>7, <2>1
  <1>9. Sum(f, U) = nn * Q
    BY <1>1, <1>3, <1>4, SumTimes
  <1>10. Sum(g, U) = c * S
    BY <1>1, <1>3, <1>4, SumTimes
  <1>11. Sum(sq, U) = num * SS
    BY <1>3, <1>4, SumConst
  <1>12. Sum(fg, U) = Sum(f, U) + Sum(g, U)
    BY <1>4, <1>8, SumPlus
  <1>13. Sum(h, U) = Sum(fg, U) + Sum(sq, U)
    BY <1>6, <1>8, SumPlus
  <1>14. Sum(h, U) = num * (num * Q - S * S)
    <2>1. Sum(h, U) = nn * Q + c * S + num * SS
      BY <1>9, <1>10, <1>11, <1>12, <1>13
    <2>2. \A a, b, d \in Int :
            (a * a) * d + (0 - (2 * a * b)) * b + a * (b * b) = a * (a * d - b * b)
      OBVIOUS
    <2>3. (num * num) * Q + (0 - (2 * num * S)) * S + num * (S * S) = num * (num * Q - S * S)
      BY <1>1, <1>2, <2>2
    <2> QED BY <2>1, <2>3 DEF nn, c, SS
  <1>15. \A u \in U : h[u] \in Nat /\ (h[u] = 0 <=> num * x[u] = S)
    <2> TAKE u \in U
    <2>1. \A y \in Int : y * y \in Nat /\ (y * y = 0 <=> y = 0)
      OBVIOUS
    <2> DEFINE y == num * x[u] - S
    <2>2. y \in Int /\ num * x[u] \in Int
      BY <1>0, <1>1
    <2>3. h[u] = y * y
      BY <1>5
    <2>4. y = 0 <=> num * x[u] = S
      BY <1>1, <2>2
    <2> HIDE DEF y
    <2> QED BY <2>1, <2>2, <2>3, <2>4
  <1>16. Sum(h, U) \in Nat
    BY <1>15, SumNat
  <1> DEFINE d == num * Q - S * S
  <1>17. d \in Int /\ num * Q \in Int /\ S * S \in Int
    BY <1>0, <1>1, <1>2
  <1>18. num * d \in Nat => d \in Nat
    <2>1. \A a, b \in Int : a > 0 /\ a * b >= 0 => b >= 0
      OBVIOUS
    <2>2. num > 0
      OBVIOUS
    <2> QED BY <1>17, <2>1, <2>2
  <1>19. S * S <= num * Q
    <2>1. d \in Nat
      BY <1>14, <1>16, <1>18
    <2> QED BY <1>17, <2>1
  <1>20. num * Q <= num * (S * S)
    <2> DEFINE k == [u \in U |-> S * x[u]]
    <2>1. \A u \in U : k[u] = S * x[u] /\ k[u] \in Int
      BY <1>0, <1>1
    <2> HIDE DEF k
    <2>2. Sum(k, U) = S * S
      BY <1>1, <2>1, SumTimes
    <2>3. \A u \in U : q[u] <= k[u]
      <3> TAKE u \in U
      <3>1. x[u] <= S
        BY PartOfSum
      <3>2. \A a, b \in Nat : a <= b => a * a <= b * a
        OBVIOUS
      <3>3. x[u] * x[u] <= S * x[u]
        BY <1>1, <3>1, <3>2
      <3> QED BY <2>1, <3>3
    <2>4. \A u \in U : q[u] \in Int /\ k[u] \in Int /\ q[u] <= k[u]
      BY <1>1, <2>1, <2>3
    <2>5. Q <= S * S
      BY <2>2, <2>4, SumLe
    <2>6. \A a, b \in Int : a <= b => num * a <= num * b
      OBVIOUS
    <2> QED BY <1>2, <1>17, <2>5, <2>6
  <1>21. ASSUME S * S = num * Q, NEW u \in U, NEW v \in U PROVE x[u] = x[v]
    <2>1. d = 0
      BY <1>17, <1>21
    <2>2. Sum(h, U) = 0
      BY <1>14, <2>1
    <2>3. h[u] = 0 /\ h[v] = 0
      <3>1. h[u] <= Sum(h, U) /\ h[v] <= Sum(h, U)
        BY <1>15, PartOfSum
      <3> QED BY <1>15, <2>2, <3>1
    <2>4. num * x[u] = S /\ num * x[v] = S
      BY <1>15, <2>3
    <2>5. \A a, b, r \in Nat : r > 0 /\ a < b => r * a < r * b
      OBVIOUS
    <2>6. ~(x[u] < x[v]) /\ ~(x[v] < x[u])
      <3>1. num > 0
        OBVIOUS
      <3>2. \A a \in Nat : ~(a < a)
        OBVIOUS
      <3>3. ~(num * x[u] < num * x[v]) /\ ~(num * x[v] < num * x[u])
        BY <1>1, <2>4, <3>2
      <3>4. x[u] \in Nat /\ x[v] \in Nat
        OBVIOUS
      <3> QED BY <2>5, <3>1, <3>3, <3>4
    <2>7. x[u] \in Nat /\ x[v] \in Nat
      OBVIOUS
    <2> QED BY <2>6, <2>7
  <1>22. ASSUME \A u, v \in U : x[u] = x[v] PROVE S * S = num * Q
    <2>1. PICK w \in U : TRUE
      BY FS_EmptySet
    <2>2. \A u \in U : x[u] = x[w]
      BY <1>22, <2>1
    <2>3. S = num * x[w]
      <3>1. x[w] \in Int
        BY <1>1, <2>1
      <3> QED BY <2>2, <3>1, SumConst
    <2>4. \A u \in U : h[u] = 0
      <3>1. \A u \in U : num * x[u] = S
        BY <2>2, <2>3
      <3> QED BY <1>15, <3>1
    <2>5. Sum(h, U) = num * 0
      BY <2>4, SumConst
    <2>6. num * d = 0
      BY <1>14, <2>5
    <2>7. \A a, b \in Int : a > 0 /\ b > 0 => a * b > 0
      OBVIOUS
    <2>8. \A b \in Nat : num * b = 0 => b = 0
      <3>1. num > 0
        OBVIOUS
      <3> QED BY <2>7, <3>1
    <2>9. d \in Nat
      BY <1>17, <1>19
    <2>10. d = 0
      <3> HIDE DEF d
      <3> QED BY <2>6, <2>8, <2>9
    <2>11. \A a, b \in Int : a - b = 0 => a = b
      OBVIOUS
    <2> QED BY <1>17, <2>10, <2>11
  <1> QED BY <1>19, <1>20, <1>21, <1>22

(* Division rounds down. *)
LEMMA Rounded ==
  ASSUME NEW a \in Nat, NEW num \in Nat, num > 0
  PROVE  /\ a \div num \in Nat
         /\ num * (a \div num) <= a /\ a < num * (a \div num) + num
  OBVIOUS

(* The bar of a job that takes d from s on, in a chart of w columns for M. *)
LEMMA BarInWidth ==
  ASSUME NEW s \in Nat, NEW d \in Nat, d > 0, NEW M \in Nat, s + d <= M, NEW w \in Nat \ {0}
  PROVE  /\ (s * w) \div M \in Nat /\ (d * w) \div M \in Nat
         /\ (s * w) \div M + 1 <= w
         /\ (s * w) \div M + (d * w) \div M <= w
  <1> DEFINE p == (s * w) \div M
             q == (d * w) \div M
  <1>1. M > 0 /\ s * w \in Nat /\ d * w \in Nat
    <2>1. \A a, b \in Nat : a * b \in Nat
      OBVIOUS
    <2> QED BY <2>1
  <1>2. p \in Nat /\ M * p <= s * w
    BY <1>1, Rounded
  <1>3. q \in Nat /\ M * q <= d * w
    BY <1>1, Rounded
  <1> HIDE DEF p, q
  <1>4. \A a, b, sq \in Int : sq > 0 /\ sq * a < sq * b => a < b
    OBVIOUS
  <1>5. \A a, b, sq \in Int : sq > 0 /\ sq * a <= sq * b => a <= b
    OBVIOUS
  <1>6. \A a, b \in Int : a * b \in Int
    OBVIOUS
  <1>7. s * w < M * w
    <2>1. \A a, b, sq \in Nat : a < b /\ sq > 0 => a * sq < b * sq
      OBVIOUS
    <2>2. s < M
      OBVIOUS
    <2> QED BY <2>1, <2>2
  <1>8. p < w
    <2>1. M * p < M * w
      BY <1>1, <1>2, <1>6, <1>7
    <2> QED BY <1>1, <1>2, <1>4, <2>1
  <1>9. (s + d) * w <= M * w
    <2>1. \A a, b, sq \in Nat : a <= b => a * sq <= b * sq
      OBVIOUS
    <2>2. s + d \in Nat
      OBVIOUS
    <2> QED BY <2>1, <2>2
  <1>10. p + q <= w
    <2>1. M * (p + q) = M * p + M * q /\ (s + d) * w = s * w + d * w
      <3>1. \A a, b, sq \in Nat : a * (b + sq) = a * b + a * sq /\ (b + sq) * a = b * a + sq * a
        OBVIOUS
      <3> QED BY <1>2, <1>3, <3>1
    <2>2. M * p \in Int /\ M * q \in Int /\ M * w \in Int
      BY <1>2, <1>3, <1>6
    <2>3. M * (p + q) <= M * w
      BY <1>1, <1>2, <1>3, <1>9, <2>1, <2>2
    <2>4. p + q \in Int
      BY <1>2, <1>3
    <2> QED BY <1>1, <1>5, <2>3, <2>4
  <1>11. p + 1 <= w
    BY <1>2, <1>8
  <1> QED BY <1>2, <1>3, <1>10, <1>11 DEF p, q

------------------------------------------------------------------------------
(* wakeup_lat.c.  The next point of the schedule is a function of how many *)
(* latencies have been logged, whatever the clock says.                    *)

ScheduleInv ==
  /\ pc \in {"args", "start", "next", "sleep", "woke", "exit"}
  /\ clock \in Nat /\ period \in Nat /\ started \in Nat /\ target \in Int /\ done \in Nat
  /\ pc \in {"args", "start"} => done = 0
  /\ log \in Seq(Nat) /\ woken \in Seq(Nat)
  /\ Len(log) = done /\ Len(woken) = done
  /\ pc \in {"next", "sleep", "woke"} =>
       target = started + (10 + done + IF pc = "next" THEN 0 ELSE 1) * Probe!step
  /\ pc = "woke" => clock >= target
  /\ Probe!OnSchedule

LEMMA ProbeConstants ==
  Periods \subseteq Nat /\ Microsecond \in Nat \ {0} /\ MaxClock \in Nat
  BY ToolsAssumption DEF Probe!ProbeAssumption

LEMMA ProbeInit == Probe!Init => ScheduleInv
  BY ProbeConstants DEF Probe!Init, ScheduleInv, Probe!OnSchedule

(* The program between its points: nothing it has logged changes. *)
LEMMA ProbeQuietStep ==
  ASSUME ScheduleInv, \/ Probe!ParseArgs \/ Probe!StartSchedule \/ Probe!NextTarget
                      \/ Probe!Finish \/ Probe!Wake \/ Probe!Signal \/ Probe!Tick
  PROVE  ScheduleInv'
  <1> USE DEF ScheduleInv
  <1>1. CASE Probe!ParseArgs
    <2>1. log = <<>> /\ DOMAIN log = {} /\ log' = log
      BY <1>1 DEF Probe!ParseArgs
    <2>2. Probe!OnSchedule'
      BY <2>1 DEF Probe!OnSchedule
    <2> QED
      BY <1>1, <2>2, ProbeConstants DEF Probe!ParseArgs, Probe!args, Probe!history
  <1>2. CASE Probe!StartSchedule
    <2>1. log = <<>> /\ DOMAIN log = {} /\ log' = log
      BY <1>2 DEF Probe!StartSchedule
    <2>2. Probe!OnSchedule'
      BY <2>1 DEF Probe!OnSchedule
    <2>3. Probe!step \in Nat /\ Probe!step' = Probe!step
      BY <1>2, ProbeConstants DEF Probe!step, Probe!StartSchedule, Probe!args
    <2>4. target' = started' + 10 * Probe!step' /\ target' \in Int
      BY <1>2, <2>3 DEF Probe!StartSchedule
    <2> QED
      BY <1>2, <2>2, <2>3, <2>4 DEF Probe!StartSchedule, Probe!args
  <1>3. CASE Probe!NextTarget
    <2>1. Probe!step \in Nat /\ Probe!step' = Probe!step
      BY <1>3, ProbeConstants DEF Probe!step, Probe!NextTarget, Probe!args
    <2>2. \A s \in Nat : (10 + done + 0) * s + s = (10 + done + 1) * s
      OBVIOUS
    <2>3. target' = started + (10 + done + 1) * Probe!step /\ target' \in Int
      BY <1>3, <2>1, <2>2 DEF Probe!NextTarget
    <2>4. Probe!OnSchedule'
      BY <1>3, <2>1 DEF Probe!NextTarget, Probe!OnSchedule, Probe!history
    <2> QED
      BY <1>3, <2>1, <2>3, <2>4 DEF Probe!NextTarget, Probe!args, Probe!history
  <1>4. CASE Probe!Finish \/ Probe!Wake \/ Probe!Signal \/ Probe!Tick
    <2>1. Probe!step' = Probe!step
      BY <1>4 DEF Probe!step, Probe!Finish, Probe!Wake, Probe!Signal, Probe!Tick,
                  Probe!args, Probe!vars
    <2>2. Probe!OnSchedule'
      BY <1>4, <2>1 DEF Probe!OnSchedule, Probe!Finish, Probe!Wake, Probe!Signal,
                        Probe!Tick, Probe!args, Probe!vars, Probe!history
    <2>3. ASSUME Probe!Finish \/ Probe!Signal PROVE ScheduleInv'
      BY <2>1, <2>2, <2>3 DEF Probe!Finish, Probe!Signal, Probe!args, Probe!vars, Probe!history
    <2>4. ASSUME Probe!Wake PROVE ScheduleInv'
      BY <2>1, <2>2, <2>4 DEF Probe!Wake, Probe!args, Probe!history
    <2>5. ASSUME Probe!Tick PROVE ScheduleInv'
      BY <2>1, <2>2, <2>5 DEF Probe!Tick, Probe!args, Probe!history
    <2> QED
      BY <1>4, <2>3, <2>4, <2>5
  <1> QED
    BY <1>1, <1>2, <1>3, <1>4

LEMMA LogStep ==
  ASSUME ScheduleInv, Probe!Log
  PROVE  ScheduleInv'
  <1> DEFINE delay == Probe!late \div Microsecond
  <1>1. /\ pc = "woke" /\ pc' = "next" /\ done' = done + 1
        /\ log' = Append(log, delay) /\ woken' = Append(woken, clock)
        /\ UNCHANGED <<clock, period, iters, target, status, started>>
    BY DEF Probe!Log, Probe!args
  <1>2. /\ clock \in Nat /\ target \in Int /\ done \in Nat /\ clock >= target
        /\ log \in Seq(Nat) /\ woken \in Seq(Nat) /\ Len(log) = done /\ Len(woken) = done
        /\ target = started + (10 + done + 1) * Probe!step
    BY <1>1 DEF ScheduleInv
  <1>3. Probe!late = clock - target /\ Probe!late \in Nat
    BY <1>2 DEF Probe!late
  <1>4. delay \in Nat
    BY <1>3, ProbeConstants
  <1>5. Probe!step' = Probe!step
    BY <1>1 DEF Probe!step
  <1> HIDE DEF delay
  <1>6. /\ log' \in Seq(Nat) /\ woken' \in Seq(Nat)
        /\ Len(log') = done + 1 /\ Len(woken') = done + 1
        /\ log'[done + 1] = delay /\ woken'[done + 1] = clock
        /\ \A k \in 1 .. done : log'[k] = log[k] /\ woken'[k] = woken[k]
    BY <1>1, <1>2, <1>4
  <1>7. ASSUME NEW k \in DOMAIN log'
        PROVE  LET point == started + (10 + k) * Probe!step
               IN  woken'[k] >= point /\ log'[k] = (woken'[k] - point) \div Microsecond
    <2>1. CASE k = done + 1
      <3>1. 10 + k = 10 + done + 1
        BY <1>2, <2>1
      <3>2. target = started + (10 + k) * Probe!step
        BY <1>2, <3>1
      <3> QED
        BY <1>2, <1>3, <1>6, <2>1, <3>2 DEF delay
    <2>2. CASE k # done + 1
      <3>1. k \in 1 .. done /\ k \in DOMAIN log
        BY <1>2, <1>6, <2>2
      <3> QED
        BY <1>6, <3>1 DEF ScheduleInv, Probe!OnSchedule
    <2> QED
      BY <2>1, <2>2
  <1>8. Probe!OnSchedule'
    BY <1>1, <1>5, <1>7 DEF Probe!OnSchedule
  <1> QED
    BY <1>1, <1>2, <1>5, <1>6, <1>8 DEF ScheduleInv

LEMMA ProbeHolds == Spec => []ScheduleInv
  <1>1. Init => ScheduleInv
    BY ProbeInit DEF Init
  <1>2. ScheduleInv /\ [Next]_vars => ScheduleInv'
    <2>1. ScheduleInv /\ UNCHANGED probe => ScheduleInv'
      BY DEF probe, ScheduleInv, Probe!OnSchedule, Probe!step
    <2>2. ScheduleInv /\ Probe!Next => ScheduleInv'
      BY ProbeQuietStep, LogStep DEF Probe!Next, Probe!Program
    <2> QED
      BY <2>1, <2>2 DEF Next, RunQs, ProbeRuns, RunPercentiles, RunFairness, RunCluster,
                        RunThrottling, RunBenchmark, vars
  <1> QED
    BY <1>1, <1>2, PTL DEF Spec

(* Every latency the probe logs is against the point of a schedule that    *)
(* was laid out at the start, one point per period, and none is logged     *)
(* before its point, whatever preemptions and signals come between.        *)
THEOREM MeasuresAgainstSchedule == Spec => []OnSchedule
  <1>1. ScheduleInv => OnSchedule
    BY DEF ScheduleInv, OnSchedule
  <1> QED
    BY <1>1, ProbeHolds, PTL

------------------------------------------------------------------------------
(* quicksort.  The array holds what was read in some other order; of two   *)
(* elements which no range still to be sorted has both of, the earlier is  *)
(* the smaller.                                                            *)

Token == Ints \cup {Junk}

Places == 0 .. n - 1

(* The numbers before the first other token, as many as the array holds. *)
AllRead == n = MAX_SIZE \/ n = Len(file) \/ file[n + 1] = Junk

Permuted(d) ==
  \E p \in [Places -> 1 .. n] :
    /\ \A k, l \in Places : p[k] = p[l] => k = l
    /\ \A l \in 1 .. n : \E k \in Places : p[k] = l
    /\ \A k \in Places : d[k] = file[p[k]]

(* The calls still to be entered are of ranges from left to right. *)
InOrder(cs) ==
  /\ \A k \in DOMAIN cs : /\ 0 <= cs[k].low
                          /\ cs[k].low <= cs[k].high + 1
                          /\ cs[k].high <= n - 1
  /\ \A k, l \in DOMAIN cs : k < l => cs[k].high < cs[l].low

(* Neither the range lo .. hi nor one of a call has both. *)
Apart(cs, lo, hi, a, b) ==
  /\ ~(a \in lo .. hi /\ b \in lo .. hi)
  /\ \A k \in DOMAIN cs : ~(a \in cs[k].low .. cs[k].high /\ b \in cs[k].low .. cs[k].high)

Outer(d, cs, lo, hi) ==
  \A a, b \in Places : a < b /\ Apart(cs, lo, hi, a, b) => d[a] <= d[b]

(* partition() has looked at what is left of ii and right of jj. *)
Scanned(d, lo, hi, ii, jj) ==
  /\ 0 <= lo /\ lo < hi /\ hi <= n - 1
  /\ lo < ii /\ ii <= jj + 1 /\ lo <= jj /\ jj <= hi
  /\ \A k \in lo + 1 .. ii - 1 : d[k] <= d[lo]
  /\ \A k \in jj + 1 .. hi : d[k] >= d[lo]

QsType ==
  /\ file \in Seq(Token)
  /\ n \in 0 .. MAX_SIZE /\ n <= Len(file)
  /\ data \in [0 .. MAX_SIZE - 1 -> Int]
  /\ at \in {"open", "read", "call", "partition", "exit"}
  /\ calls \in Seq([low : Int, high : Int, depth : Int])
  /\ low \in Int /\ high \in Int /\ depth \in Int /\ i \in Int /\ j \in Int
  /\ \A k \in 1 .. n : file[k] # Junk
  /\ at # "exit" => exit = -1

SortInv ==
  /\ at \in {"open", "read"} => calls = <<>> /\ \A k \in Places : data[k] = file[k + 1]
  /\ at \in {"call", "partition"} => AllRead /\ Permuted(data) /\ InOrder(calls)
  /\ at = "call" => Outer(data, calls, 0, -1)
  /\ at = "partition" =>
       /\ \A k \in DOMAIN calls : high < calls[k].low
       /\ Outer(data, calls, low, high)
       /\ Scanned(data, low, high, i, j)
  /\ exit = 0 =>
       /\ AllRead /\ output \in [1 .. n -> Int]
       /\ Permuted([k \in Places |-> output[k + 1]])
       /\ \A a, b \in 1 .. n : a < b => output[a] <= output[b]

QsInv == QsType /\ SortInv

LEMMA SortConstants ==
  /\ Ints \subseteq Int /\ Junk \notin Ints /\ MAX_SIZE \in Nat \ {0}
  /\ StackDepth \in Nat /\ TailCall \in BOOLEAN
  BY ToolsAssumption DEF Sort!SizeAssumption

LEMMA SortInit == Sort!Init => QsInv
  <1> SUFFICES ASSUME Sort!Init PROVE QsInv
    OBVIOUS
  <1>1. file \in Seq(Token)
    BY DEF Sort!Init, Sort!BoundedSeq, Sort!SeqOf, Token
  <1>2. /\ n = 0 /\ data = [k \in 0 .. MAX_SIZE - 1 |-> 0] /\ at = "open"
        /\ calls = <<>> /\ low = 0 /\ high = 0 /\ depth = 0 /\ i = 0 /\ j = 0 /\ exit = -1
    BY DEF Sort!Init
  <1>3. QsType
    BY <1>1, <1>2, SortConstants DEF QsType
  <1>4. SortInv
    BY <1>2 DEF SortInv, Places
  <1> QED
    BY <1>3, <1>4 DEF QsInv

(* Where the array is not touched. *)
LEMMA ArrayUnchanged ==
  ASSUME UNCHANGED <<file, n, data>>
  PROVE  /\ Places' = Places
         /\ AllRead => AllRead'
         /\ Permuted(data) => Permuted(data)'
  <1>1. Places' = Places
    BY DEF Places
  <1>2. AllRead => AllRead'
    BY DEF AllRead
  <1>3. Permuted(data) => Permuted(data)'
    BY <1>1 DEF Permuted
  <1> QED
    BY <1>1, <1>2, <1>3

LEMMA OpenStep ==
  ASSUME QsInv, Sort!Open
  PROVE  QsInv'
  <1>1. /\ at = "open" /\ exit = -1 /\ at' \in {"read", "exit"} /\ (at' = "exit" => exit' = 1)
        /\ (at' = "read" => exit' = exit)
        /\ UNCHANGED <<file, n, data, calls, low, high, depth, i, j, output>>
    BY DEF Sort!Open, Sort!Exit, Sort!input, Sort!ranges, QsInv, QsType
  <1> QED
    BY <1>1 DEF QsInv, QsType, SortInv, Places

LEMMA ReadTokenStep ==
  ASSUME QsInv, Sort!Read
  PROVE  QsInv'
  <1>0. n \in 0 .. MAX_SIZE /\ file \in Seq(Token) /\ MAX_SIZE \in Nat \ {0}
    BY SortConstants DEF QsInv, QsType
  <1>1. /\ at = "read" /\ at' = "read" /\ n < Len(file) /\ file[n + 1] # Junk /\ n < MAX_SIZE
        /\ data' = [data EXCEPT ![n] = file[n + 1]] /\ n' = n + 1
        /\ UNCHANGED <<file, calls, low, high, depth, i, j, exit, output>>
    BY DEF Sort!Read, Sort!MoreInput, Sort!ranges, Sort!result
  <1>2. /\ n \in Nat /\ file[n + 1] \in Int /\ n \in 0 .. MAX_SIZE - 1
        /\ n' \in 0 .. MAX_SIZE /\ n' <= Len(file)
    <2>1. n \in Nat /\ n \in 0 .. MAX_SIZE - 1 /\ n' \in 0 .. MAX_SIZE /\ n' <= Len(file)
      BY <1>0, <1>1
    <2>2. file[n + 1] \in Token
      BY <1>0, <1>1, <2>1
    <2> QED
      BY <1>1, <2>1, <2>2, SortConstants DEF Token
  <1>3. \A k \in 0 .. n' - 1 : k = n \/ k \in 0 .. n - 1
    BY <1>1, <1>2
  <1>4. \A k \in 1 .. n' : k = n + 1 \/ k \in 1 .. n
    BY <1>1, <1>2
  <1>5. data' \in [0 .. MAX_SIZE - 1 -> Int]
    BY <1>1, <1>2 DEF QsInv, QsType
  <1>6. \A k \in 1 .. n' : file'[k] # Junk
    BY <1>1, <1>4 DEF QsInv, QsType
  <1>7. QsType'
    BY <1>1, <1>2, <1>5, <1>6 DEF QsInv, QsType
  <1>8. \A k \in 0 .. n' - 1 : data'[k] = file'[k + 1]
    <2>1. data \in [0 .. MAX_SIZE - 1 -> Int] /\ \A k \in 0 .. n - 1 : data[k] = file[k + 1]
      BY <1>1 DEF QsInv, QsType, SortInv, Places
    <2>2. \A k \in 0 .. n - 1 : k \in 0 .. MAX_SIZE - 1 /\ k # n
      BY <1>0, <1>2
    <2> QED
      BY <1>1, <1>2, <1>3, <2>1, <2>2
  <1>9. SortInv'
    BY <1>1, <1>8 DEF QsInv, QsType, SortInv, Places
  <1> QED
    BY <1>7, <1>9 DEF QsInv

LEMMA EndReadStep ==
  ASSUME QsInv, Sort!EndRead
  PROVE  QsInv'
  <1>1. /\ at = "read" /\ (~(n < Len(file) /\ file[n + 1] # Junk) \/ n = MAX_SIZE)
        /\ UNCHANGED <<file, n, data, low, high, depth, i, j, output>>
    BY DEF Sort!EndRead, Sort!MoreInput, Sort!input
  <1>2. CASE n = 0
    <2>1. at' = "exit" /\ exit' = 1 /\ calls' = calls
      BY <1>2 DEF Sort!EndRead, Sort!Exit
    <2> QED
      BY <1>1, <2>1 DEF QsInv, QsType, SortInv
  <1>3. CASE n # 0
    <2>1. at' = "call" /\ calls' = <<[low |-> 0, high |-> n - 1, depth |-> 1]>> /\ exit' = exit
      BY <1>3 DEF Sort!EndRead
    <2>2. n \in Nat /\ n <= Len(file) /\ n <= MAX_SIZE /\ exit = -1 /\ Len(file) \in Nat
      BY <1>1, SortConstants DEF QsInv, QsType
    <2>3. AllRead
      BY <1>1, <2>2 DEF AllRead
    <2>4. Permuted(data)
      <3> DEFINE p == [k \in Places |-> k + 1]
      <3>1. p \in [Places -> 1 .. n]
        BY <2>2 DEF Places
      <3>2. \A k, l \in Places : p[k] = p[l] => k = l
        BY <2>2 DEF Places
      <3>3. ASSUME NEW l \in 1 .. n PROVE \E k \in Places : p[k] = l
        <4>1. l - 1 \in Places /\ p[l - 1] = l
          BY <2>2 DEF Places
        <4> QED
          BY <4>1
      <3>4. \A k \in Places : data[k] = file[p[k]]
        BY <1>1 DEF QsInv, SortInv
      <3> HIDE DEF p
      <3> QED
        BY <3>1, <3>2, <3>3, <3>4 DEF Permuted
    <2>5. /\ calls' \in Seq([low : Int, high : Int, depth : Int]) /\ DOMAIN calls' = {1}
          /\ calls'[1] = [low |-> 0, high |-> n - 1, depth |-> 1]
      <3>1. [low |-> 0, high |-> n - 1, depth |-> 1] \in [low : Int, high : Int, depth : Int]
        BY <2>2
      <3> QED
        BY <2>1, <3>1
    <2>6. InOrder(calls')
      BY <1>3, <2>2, <2>5 DEF InOrder
    <2>7. Outer(data, calls', 0, -1)
      <3>1. \A a \in Places : a \in calls'[1].low .. calls'[1].high
        BY <2>5 DEF Places
      <3> QED
        BY <2>5, <3>1 DEF Outer, Apart
    <2>8. QsType'
      BY <1>1, <2>1, <2>5 DEF QsInv, QsType
    <2>9. SortInv'
      <3>1. AllRead' /\ Permuted(data)' /\ InOrder(calls)' /\ Outer(data, calls, 0, -1)'
        <4>1. Places' = Places /\ AllRead' /\ Permuted(data)'
          BY <1>1, <2>3, <2>4, ArrayUnchanged
        <4>2. InOrder(calls)'
          BY <1>1, <2>6 DEF InOrder
        <4>3. Outer(data, calls, 0, -1)'
          BY <1>1, <2>7, <4>1 DEF Outer, Apart
        <4> QED
          BY <4>1, <4>2, <4>3
      <3> QED
        BY <2>1, <2>2, <3>1 DEF SortInv
    <2> QED
      BY <2>8, <2>9 DEF QsInv
  <1> QED
    BY <1>2, <1>3

(* The sequence of calls, and what Call leaves of it. *)
LEMMA CallsShape ==
  ASSUME QsInv, calls # <<>>
  PROVE  /\ Len(calls) \in Nat \ {0} /\ DOMAIN calls = 1 .. Len(calls)
         /\ \A k \in DOMAIN calls : calls[k] \in [low : Int, high : Int, depth : Int]
         /\ \A k \in DOMAIN calls : calls[k].low \in Int /\ calls[k].high \in Int
         /\ Head(calls) = calls[1]
         /\ Tail(calls) \in Seq([low : Int, high : Int, depth : Int])
         /\ DOMAIN Tail(calls) = 1 .. Len(calls) - 1
         /\ \A k \in 1 .. Len(calls) - 1 : Tail(calls)[k] = calls[k + 1]
  <1> DEFINE Ranges == [low : Int, high : Int, depth : Int]
  <1>1. calls \in Seq(Ranges)
    BY DEF QsInv, QsType
  <1>2. \A r \in Ranges : r.low \in Int /\ r.high \in Int
    OBVIOUS
  <1> HIDE DEF Ranges
  <1>3. /\ Len(calls) \in Nat \ {0} /\ DOMAIN calls = 1 .. Len(calls)
        /\ Head(calls) = calls[1] /\ Tail(calls) \in Seq(Ranges)
        /\ Len(Tail(calls)) = Len(calls) - 1
        /\ \A k \in 1 .. Len(calls) - 1 : Tail(calls)[k] = calls[k + 1]
    BY <1>1
  <1>4. DOMAIN Tail(calls) = 1 .. Len(calls) - 1
    BY <1>3
  <1>5. \A k \in DOMAIN calls : calls[k] \in Ranges
    BY <1>1, <1>3
  <1> QED
    BY <1>2, <1>3, <1>4, <1>5 DEF Ranges

LEMMA CallStep ==
  ASSUME QsInv, Sort!Call
  PROVE  QsInv'
  <1> DEFINE c == calls[1]
  <1>1. /\ at = "call" /\ calls # <<>> /\ calls' = Tail(calls) /\ exit = -1
        /\ UNCHANGED <<file, n, data, exit, output>>
    BY DEF Sort!Call, Sort!input, Sort!result, QsInv, QsType
  <1>2. IF c.low < c.high
        THEN /\ low' = c.low /\ high' = c.high /\ depth' = c.depth
             /\ i' = c.low + 1 /\ j' = c.high /\ at' = "partition"
        ELSE /\ low' = low /\ high' = high /\ depth' = depth
             /\ i' = i /\ j' = j /\ at' = "call"
    BY <1>1, CallsShape DEF Sort!Call
  <1>3. /\ Len(calls) \in Nat \ {0} /\ DOMAIN calls = 1 .. Len(calls) /\ 1 \in DOMAIN calls
        /\ \A k \in DOMAIN calls : calls[k].low \in Int /\ calls[k].high \in Int
        /\ calls' \in Seq([low : Int, high : Int, depth : Int])
        /\ DOMAIN calls' = 1 .. Len(calls) - 1
        /\ \A k \in DOMAIN calls' : calls'[k] = calls[k + 1] /\ k + 1 \in DOMAIN calls
    <2>1. /\ Len(calls) \in Nat \ {0} /\ DOMAIN calls = 1 .. Len(calls)
          /\ \A k \in DOMAIN calls : calls[k].low \in Int /\ calls[k].high \in Int
      BY <1>1, CallsShape
    <2>2. /\ Tail(calls) \in Seq([low : Int, high : Int, depth : Int])
          /\ DOMAIN Tail(calls) = 1 .. Len(calls) - 1
          /\ \A k \in 1 .. Len(calls) - 1 : Tail(calls)[k] = calls[k + 1]
      BY <1>1, CallsShape
    <2>3. /\ calls' \in Seq([low : Int, high : Int, depth : Int])
          /\ DOMAIN calls' = 1 .. Len(calls) - 1
          /\ \A k \in 1 .. Len(calls) - 1 : calls'[k] = calls[k + 1]
      BY <1>1, <2>2
    <2>4. 1 \in 1 .. Len(calls) /\ \A k \in 1 .. Len(calls) - 1 : k + 1 \in 1 .. Len(calls)
      BY <2>1
    <2> QED BY <2>1, <2>3, <2>4
  <1>4. c.low \in Int /\ c.high \in Int /\ c.depth \in Int
    <2>1. \A k \in DOMAIN calls : calls[k] \in [low : Int, high : Int, depth : Int]
      BY <1>1, CallsShape
    <2>2. c \in [low : Int, high : Int, depth : Int]
      BY <1>3, <2>1
    <2> HIDE DEF c
    <2> QED BY ONLY <2>2
  <1>5. AllRead /\ Permuted(data) /\ InOrder(calls) /\ Outer(data, calls, 0, -1)
    BY <1>1 DEF QsInv, SortInv
  <1>6. 0 <= c.low /\ c.high <= n - 1
    BY <1>3, <1>5 DEF InOrder
  <1>7. InOrder(calls')
    <2>1. ASSUME NEW k \in DOMAIN calls'
          PROVE  /\ 0 <= calls'[k].low
                 /\ calls'[k].low <= calls'[k].high + 1
                 /\ calls'[k].high <= n - 1
      BY <1>3, <1>5 DEF InOrder
    <2>2. ASSUME NEW k \in DOMAIN calls', NEW l \in DOMAIN calls', k < l
          PROVE  calls'[k].high < calls'[l].low
      <3>1. k + 1 < l + 1 /\ k + 1 \in DOMAIN calls /\ l + 1 \in DOMAIN calls
        BY <1>3, <2>2
      <3> QED
        BY <1>3, <1>5, <3>1 DEF InOrder
    <2> QED
      BY <2>1, <2>2 DEF InOrder
  <1> HIDE DEF c
  <1>8. QsType'
    <2>1. /\ low' \in Int /\ high' \in Int /\ depth' \in Int /\ i' \in Int /\ j' \in Int
          /\ at' \in {"call", "partition"}
      <3>1. low \in Int /\ high \in Int /\ depth \in Int /\ i \in Int /\ j \in Int
        BY DEF QsInv, QsType
      <3> QED
        BY <1>2, <1>4, <3>1
    <2> QED
      BY <1>1, <1>3, <2>1 DEF QsInv, QsType
  <1>9. AllRead' /\ Permuted(data)' /\ InOrder(calls)' /\ Places' = Places
    BY <1>1, <1>5, <1>7 DEF AllRead, Permuted, InOrder, Places
  <1>10. \A k \in DOMAIN calls : k = 1 \/ (k - 1 \in DOMAIN calls' /\ calls'[k - 1] = calls[k])
    <2>1. /\ Len(calls) \in Nat /\ DOMAIN calls = 1 .. Len(calls)
          /\ DOMAIN calls' = 1 .. Len(calls) - 1
          /\ \A k \in DOMAIN calls' : calls'[k] = calls[k + 1]
      BY ONLY <1>3
    <2>2. \A m \in Nat : \A k \in 1 .. m :
            /\ k = 1 \/ k - 1 \in 1 .. m - 1
            /\ (k - 1) + 1 = k
      OBVIOUS
    <2>3. ASSUME NEW k \in DOMAIN calls, k # 1
          PROVE  k - 1 \in DOMAIN calls' /\ calls'[k - 1] = calls[k]
      <3>1. k - 1 \in DOMAIN calls' /\ (k - 1) + 1 = k
        BY ONLY <2>1, <2>2, <2>3
      <3>2. calls'[k - 1] = calls[(k - 1) + 1]
        BY ONLY <2>1, <3>1
      <3> QED
        BY ONLY <3>1, <3>2
    <2> QED
      BY ONLY <2>3
  <1>11. ASSUME c.low < c.high PROVE SortInv'
    <2>1. ASSUME NEW k \in DOMAIN calls' PROVE high' < calls'[k].low
      <3>1. 1 < k + 1 /\ k + 1 \in DOMAIN calls /\ calls'[k] = calls[k + 1]
        BY <1>3
      <3>2. c.high < calls[k + 1].low
        BY <1>3, <1>5, <3>1 DEF InOrder, c
      <3> QED
        BY <1>2, <1>11, <3>1, <3>2
    <2>2. \A a, b : Apart(calls', low', high', a, b) => Apart(calls, 0, -1, a, b)
      BY <1>2, <1>10, <1>11 DEF Apart, c
    <2>3. Outer(data, calls', low', high')
      BY <1>5, <2>2 DEF Outer
    <2>4. Outer(data, calls, low, high)'
      BY <1>1, <1>9, <2>3 DEF Outer
    <2>5. Scanned(data, low', high', i', j')
      BY <1>2, <1>4, <1>6, <1>11 DEF Scanned
    <2>6. Scanned(data, low, high, i, j)'
      BY <1>1, <2>5 DEF Scanned
    <2> QED
      BY <1>1, <1>2, <1>9, <1>11, <2>1, <2>4, <2>6 DEF SortInv
  <1>12. ASSUME ~(c.low < c.high) PROVE SortInv'
    <2>1. ASSUME NEW a \in Places, NEW b \in Places, a < b, Apart(calls', 0, -1, a, b)
          PROVE  Apart(calls, 0, -1, a, b)
      <3>1. ~(a \in c.low .. c.high /\ b \in c.low .. c.high)
        BY <1>4, <1>12, <2>1
      <3> QED
        BY <1>10, <2>1, <3>1 DEF Apart, c
    <2>2. Outer(data, calls', 0, -1)
      BY <1>5, <2>1 DEF Outer
    <2>3. Outer(data, calls, 0, -1)'
      BY <1>1, <1>9, <2>2 DEF Outer
    <2> QED
      BY <1>1, <1>2, <1>9, <1>12, <2>3 DEF SortInv
  <1> QED
    BY <1>8, <1>11, <1>12 DEF QsInv

(* What partition() may rely on. *)
LEMMA Partitioning ==
  ASSUME QsInv, at = "partition"
  PROVE  /\ n \in 0 .. MAX_SIZE /\ n \in Nat /\ MAX_SIZE \in Nat
         /\ data \in [0 .. MAX_SIZE - 1 -> Int]
         /\ low \in Int /\ high \in Int /\ i \in Int /\ j \in Int
         /\ exit = -1
         /\ AllRead /\ Permuted(data) /\ InOrder(calls)
         /\ \A k \in DOMAIN calls : high < calls[k].low
         /\ Outer(data, calls, low, high)
         /\ Scanned(data, low, high, i, j)
         /\ low .. high \subseteq Places /\ Places \subseteq 0 .. MAX_SIZE - 1
         /\ \A k \in Places : data[k] \in Int
  <1>1. /\ n \in 0 .. MAX_SIZE /\ n \in Nat /\ MAX_SIZE \in Nat
        /\ data \in [0 .. MAX_SIZE - 1 -> Int]
        /\ low \in Int /\ high \in Int /\ i \in Int /\ j \in Int
        /\ exit = -1
    BY SortConstants DEF QsInv, QsType
  <1>2. /\ AllRead /\ Permuted(data) /\ InOrder(calls)
        /\ \A k \in DOMAIN calls : high < calls[k].low
        /\ Outer(data, calls, low, high)
        /\ Scanned(data, low, high, i, j)
    BY DEF QsInv, SortInv
  <1>3. low .. high \subseteq Places /\ Places \subseteq 0 .. MAX_SIZE - 1
    BY <1>1, <1>2 DEF Scanned, Places
  <1> QED
    BY <1>1, <1>2, <1>3

LEMMA ScanUpStep ==
  ASSUME QsInv, Sort!ScanUp
  PROVE  QsInv'
  <1>1. /\ at = "partition" /\ i <= high /\ data[i] < data[low] /\ i' = i + 1
        /\ UNCHANGED <<file, n, data, at, calls, low, high, depth, j, exit, output>>
    BY DEF Sort!ScanUp, Sort!BelowPivot, Sort!pivot, Sort!input, Sort!result
  <1>2. /\ low \in Int /\ high \in Int /\ i \in Int /\ j \in Int /\ exit = -1
        /\ Scanned(data, low, high, i, j) /\ low .. high \subseteq Places
        /\ \A k \in Places : data[k] \in Int
    BY <1>1, Partitioning
  <1>3. i \in low .. high /\ low \in low .. high /\ data[i] \in Int /\ data[low] \in Int
    BY <1>1, <1>2 DEF Scanned
  <1>4. i <= j
    BY <1>1, <1>2, <1>3 DEF Scanned
  <1>5. Scanned(data, low, high, i + 1, j)
    <2>1. \A k \in low + 1 .. i + 1 - 1 : k = i \/ k \in low + 1 .. i - 1
      BY <1>2
    <2>2. \A k \in low + 1 .. i + 1 - 1 : data[k] <= data[low]
      BY <1>1, <1>2, <1>3, <2>1 DEF Scanned
    <2> QED
      BY <1>2, <1>4, <2>2 DEF Scanned
  <1>6. QsType'
    BY <1>1, <1>2 DEF QsInv, QsType
  <1>7. /\ AllRead' /\ Permuted(data)' /\ InOrder(calls)' /\ Outer(data, calls, low, high)'
        /\ (\A k \in DOMAIN calls : high < calls[k].low)'
    <2>1. /\ AllRead /\ Permuted(data) /\ InOrder(calls) /\ Outer(data, calls, low, high)
          /\ \A k \in DOMAIN calls : high < calls[k].low
      BY <1>1, Partitioning
    <2>2. Places' = Places /\ AllRead' /\ Permuted(data)'
      BY <1>1, <2>1, ArrayUnchanged
    <2>3. InOrder(calls)' /\ (\A k \in DOMAIN calls : high < calls[k].low)'
      BY <1>1, <2>1 DEF InOrder
    <2>4. Outer(data, calls, low, high)'
      BY <1>1, <2>1, <2>2 DEF Outer, Apart
    <2> QED
      BY <2>2, <2>3, <2>4
  <1>8. Scanned(data, low, high, i, j)'
    BY <1>1, <1>5 DEF Scanned
  <1> QED
    BY <1>1, <1>2, <1>6, <1>7, <1>8 DEF QsInv, SortInv

LEMMA ScanDownStep ==
  ASSUME QsInv, Sort!ScanDown
  PROVE  QsInv'
  <1>1. /\ at = "partition" /\ j >= low + 1 /\ data[j] > data[low] /\ j' = j - 1
        /\ UNCHANGED <<file, n, data, at, calls, low, high, depth, i, exit, output>>
    BY DEF Sort!ScanDown, Sort!AbovePivot, Sort!pivot, Sort!input, Sort!result
  <1>2. /\ low \in Int /\ high \in Int /\ i \in Int /\ j \in Int /\ exit = -1
        /\ Scanned(data, low, high, i, j) /\ low .. high \subseteq Places
        /\ \A k \in Places : data[k] \in Int
    BY <1>1, Partitioning
  <1>3. j \in low .. high /\ low \in low .. high /\ data[j] \in Int /\ data[low] \in Int
    BY <1>1, <1>2 DEF Scanned
  <1>4. i <= j
    BY <1>1, <1>2, <1>3 DEF Scanned
  <1>5. Scanned(data, low, high, i, j - 1)
    <2>1. \A k \in (j - 1) + 1 .. high : k = j \/ k \in j + 1 .. high
      BY <1>2
    <2>2. \A k \in (j - 1) + 1 .. high : data[k] >= data[low]
      BY <1>1, <1>2, <1>3, <2>1 DEF Scanned
    <2> QED
      BY <1>1, <1>2, <1>4, <2>2 DEF Scanned
  <1>6. QsType'
    BY <1>1, <1>2 DEF QsInv, QsType
  <1>7. /\ AllRead' /\ Permuted(data)' /\ InOrder(calls)' /\ Outer(data, calls, low, high)'
        /\ (\A k \in DOMAIN calls : high < calls[k].low)'
    <2>1. /\ AllRead /\ Permuted(data) /\ InOrder(calls) /\ Outer(data, calls, low, high)
          /\ \A k \in DOMAIN calls : high < calls[k].low
      BY <1>1, Partitioning
    <2>2. Places' = Places /\ AllRead' /\ Permuted(data)'
      BY <1>1, <2>1, ArrayUnchanged
    <2>3. InOrder(calls)' /\ (\A k \in DOMAIN calls : high < calls[k].low)'
      BY <1>1, <2>1 DEF InOrder
    <2>4. Outer(data, calls, low, high)'
      BY <1>1, <2>1, <2>2 DEF Outer, Apart
    <2> QED
      BY <2>2, <2>3, <2>4
  <1>8. Scanned(data, low, high, i, j)'
    BY <1>1, <1>5 DEF Scanned
  <1> QED
    BY <1>1, <1>2, <1>6, <1>7, <1>8 DEF QsInv, SortInv

(* A swap moves what it swaps and nothing else: the array holds the same   *)
(* numbers, and outside a range around both the same ones in their places. *)
LEMMA SwapMoves ==
  ASSUME n \in 0 .. MAX_SIZE, MAX_SIZE \in Nat, data \in [0 .. MAX_SIZE - 1 -> Int],
         NEW a \in Places, NEW b \in Places, Sort!swap(a, b)
  PROVE  /\ data' \in [0 .. MAX_SIZE - 1 -> Int]
         /\ data'[a] = data[b] /\ data'[b] = data[a]
         /\ \A k \in Places : k # a /\ k # b => data'[k] = data[k]
  <1>1. a \in 0 .. MAX_SIZE - 1 /\ b \in 0 .. MAX_SIZE - 1 /\ Places \subseteq 0 .. MAX_SIZE - 1
    BY DEF Places
  <1>2. data' = [data EXCEPT ![a] = data[b], ![b] = data[a]]
    BY DEF Sort!swap
  <1>3. data[a] \in Int /\ data[b] \in Int
    BY <1>1
  <1> QED
    BY <1>1, <1>2, <1>3

LEMMA SwapPermutes ==
  ASSUME NEW a \in Places, NEW b \in Places, Permuted(data),
         data'[a] = data[b], data'[b] = data[a],
         \A k \in Places : k # a /\ k # b => data'[k] = data[k]
  PROVE  Permuted(data')
  <1>1. PICK p \in [Places -> 1 .. n] :
          /\ \A k, l \in Places : p[k] = p[l] => k = l
          /\ \A l \in 1 .. n : \E k \in Places : p[k] = l
          /\ \A k \in Places : data[k] = file[p[k]]
    BY DEF Permuted
  <1> DEFINE other(k) == IF k = a THEN b ELSE IF k = b THEN a ELSE k
             q == [k \in Places |-> p[other(k)]]
  <1>2. \A k \in Places : other(k) \in Places /\ other(other(k)) = k
    OBVIOUS
  <1>3. \A k \in Places : data'[k] = data[other(k)]
    OBVIOUS
  <1>4. \A k \in Places : q[k] = p[other(k)]
    OBVIOUS
  <1>5. q \in [Places -> 1 .. n]
    BY <1>2
  <1> HIDE DEF other, q
  <1>6. \A k, l \in Places : q[k] = q[l] => k = l
    BY <1>1, <1>2, <1>4
  <1>7. \A l \in 1 .. n : \E k \in Places : q[k] = l
    BY <1>1, <1>2, <1>4
  <1>8. \A k \in Places : data'[k] = file[q[k]]
    BY <1>1, <1>2, <1>3, <1>4
  <1> QED
    BY <1>5, <1>6, <1>7, <1>8 DEF Permuted

LEMMA SwapKeepsOuter ==
  ASSUME QsInv, at = "partition", NEW a \in low .. high, NEW b \in low .. high, Sort!swap(a, b)
  PROVE  Outer(data', calls, low, high)
  <1>1. /\ n \in 0 .. MAX_SIZE /\ MAX_SIZE \in Nat /\ data \in [0 .. MAX_SIZE - 1 -> Int]
        /\ a \in Places /\ b \in Places /\ low .. high \subseteq Places
        /\ low \in Int /\ high \in Int /\ InOrder(calls)
        /\ Outer(data, calls, low, high) /\ \A k \in DOMAIN calls : high < calls[k].low
    BY Partitioning
  <1>0. Places \subseteq Int
    <2>1. n \in Int
      BY <1>1
    <2> QED
      BY <2>1 DEF Places
  <1>2. /\ data'[a] = data[b] /\ data'[b] = data[a]
        /\ \A k \in Places : k # a /\ k # b => data'[k] = data[k]
    BY <1>1, SwapMoves
  <1>3. \A k \in low .. high : \E l \in low .. high : data'[k] = data[l]
    BY <1>1, <1>2
  <1>4. \A k \in Places : k \notin low .. high => data'[k] = data[k]
    BY <1>1, <1>2
  <1>5. \A k \in DOMAIN calls, l \in low .. high : l \notin calls[k].low .. calls[k].high
    <2>1. \A k \in DOMAIN calls : calls[k].low \in Int /\ calls[k].high \in Int
      BY CallsShape
    <2> QED
      BY <1>1, <2>1
  <1>6. ASSUME NEW k \in Places, NEW l \in Places, k < l, Apart(calls, low, high, k, l)
        PROVE  data'[k] <= data'[l]
    <2>1. CASE k \notin low .. high /\ l \notin low .. high
      BY <1>1, <1>4, <1>6, <2>1 DEF Outer
    <2>2. CASE k \notin low .. high /\ l \in low .. high
      <3>1. PICK m \in low .. high : data'[l] = data[m]
        BY <1>3, <2>2
      <3>2. k < m /\ m \in Places
        <4>1. m \in Places /\ k \in Int /\ l \in Int /\ m \in Int
          BY <1>0, <1>1
        <4>2. k < low
          BY <1>1, <1>6, <2>2, <4>1
        <4> QED
          BY <1>1, <4>1, <4>2
      <3>3. Apart(calls, low, high, k, m)
        BY <1>5, <2>2 DEF Apart
      <3> QED
        BY <1>1, <1>4, <2>2, <3>1, <3>2, <3>3 DEF Outer
    <2>3. CASE k \in low .. high /\ l \notin low .. high
      <3>1. PICK m \in low .. high : data'[k] = data[m]
        BY <1>3, <2>3
      <3>2. m < l /\ m \in Places
        <4>1. m \in Places /\ k \in Int /\ l \in Int /\ m \in Int
          BY <1>0, <1>1
        <4>2. l > high
          BY <1>1, <1>6, <2>3, <4>1
        <4> QED
          BY <1>1, <4>1, <4>2
      <3>3. Apart(calls, low, high, m, l)
        BY <1>5, <2>3 DEF Apart
      <3> QED
        BY <1>1, <1>4, <2>3, <3>1, <3>2, <3>3 DEF Outer
    <2> QED
      BY <1>6, <2>1, <2>2, <2>3 DEF Apart
  <1> QED
    BY <1>6 DEF Outer

LEMMA SwapStep ==
  ASSUME QsInv, Sort!Swap
  PROVE  QsInv'
  <1>1. /\ at = "partition" /\ ~(i <= high /\ data[i] < data[low])
        /\ ~(j >= low + 1 /\ data[j] > data[low]) /\ i < j
        /\ Sort!swap(i, j) /\ i' = i + 1 /\ j' = j - 1
        /\ UNCHANGED <<file, n, at, calls, low, high, depth, exit, output>>
    BY DEF Sort!Swap, Sort!BelowPivot, Sort!AbovePivot, Sort!pivot, Sort!input, Sort!result
  <1>2. /\ n \in 0 .. MAX_SIZE /\ MAX_SIZE \in Nat /\ data \in [0 .. MAX_SIZE - 1 -> Int]
        /\ low \in Int /\ high \in Int /\ i \in Int /\ j \in Int /\ exit = -1
        /\ AllRead /\ Permuted(data) /\ InOrder(calls)
        /\ \A k \in DOMAIN calls : high < calls[k].low
        /\ Scanned(data, low, high, i, j) /\ low .. high \subseteq Places
        /\ \A k \in Places : data[k] \in Int
    BY <1>1, Partitioning
  <1>3. /\ i \in low .. high /\ j \in low .. high /\ low \in low .. high
        /\ low < i /\ i < j /\ j <= high
    <2>1. low < i /\ i < j /\ j <= high
      BY <1>1, <1>2 DEF Scanned
    <2>2. low \in Int /\ high \in Int /\ i \in Int /\ j \in Int
      BY <1>2
    <2> QED
      BY <2>1, <2>2
  <1>4. i \in Places /\ j \in Places /\ low \in Places
    BY <1>2, <1>3
  <1>5. /\ data' \in [0 .. MAX_SIZE - 1 -> Int]
        /\ data'[i] = data[j] /\ data'[j] = data[i]
        /\ \A k \in Places : k # i /\ k # j => data'[k] = data[k]
    BY <1>1, <1>2, <1>4, SwapMoves
  <1>6. data[i] >= data[low] /\ data[j] <= data[low]
    <2>1. i <= high /\ j >= low + 1
      BY <1>2, <1>3
    <2>2. ~(data[i] < data[low]) /\ ~(data[j] > data[low])
      BY <1>1, <2>1
    <2>3. data[i] \in Int /\ data[j] \in Int /\ data[low] \in Int
      BY <1>2, <1>4
    <2> QED
      BY <2>2, <2>3
  <1>7. Scanned(data', low, high, i + 1, j - 1)
    <2>1. data'[low] = data[low]
      BY <1>3, <1>4, <1>5, <1>2
    <2>2. ASSUME NEW k \in low + 1 .. (i + 1) - 1 PROVE data'[k] <= data'[low]
      <3>1. CASE k = i
        BY <1>5, <1>6, <2>1, <3>1
      <3>2. CASE k # i
        <4>1. k \in low + 1 .. i - 1 /\ k \in low .. high /\ k # j
          BY <1>2, <1>3, <3>2
        <4> QED
          BY <1>2, <1>5, <2>1, <3>2, <4>1 DEF Scanned
      <3> QED
        BY <3>1, <3>2
    <2>3. ASSUME NEW k \in (j - 1) + 1 .. high PROVE data'[k] >= data'[low]
      <3>1. CASE k = j
        BY <1>5, <1>6, <2>1, <3>1
      <3>2. CASE k # j
        <4>1. k \in j + 1 .. high /\ k \in low .. high /\ k # i
          BY <1>2, <1>3, <3>2
        <4> QED
          BY <1>2, <1>5, <2>1, <3>2, <4>1 DEF Scanned
      <3> QED
        BY <3>1, <3>2
    <2>4. low < i + 1 /\ i + 1 <= (j - 1) + 1 /\ low <= j - 1 /\ j - 1 <= high
      BY <1>2, <1>3
    <2> QED
      BY <1>2, <2>2, <2>3, <2>4 DEF Scanned
  <1>8. Outer(data', calls, low, high)
    BY <1>1, <1>3, SwapKeepsOuter
  <1>9. Permuted(data')
    BY <1>2, <1>4, <1>5, SwapPermutes
  <1>10. QsType'
    <2>1. i' \in Int /\ j' \in Int
      BY <1>1, <1>2
    <2> QED
      BY <1>1, <1>5, <2>1 DEF QsInv, QsType
  <1>11. /\ AllRead' /\ Permuted(data)' /\ InOrder(calls)' /\ Outer(data, calls, low, high)'
         /\ (\A k \in DOMAIN calls : high < calls[k].low)'
    <2>1. Places' = Places
      BY <1>1 DEF Places
    <2>2. AllRead' /\ InOrder(calls)' /\ (\A k \in DOMAIN calls : high < calls[k].low)'
      BY <1>1, <1>2 DEF AllRead, InOrder
    <2>3. Permuted(data)'
      BY <1>1, <1>9, <2>1 DEF Permuted
    <2>4. Outer(data, calls, low, high)'
      BY <1>1, <1>8, <2>1 DEF Outer, Apart
    <2> QED
      BY <2>2, <2>3, <2>4
  <1>12. Scanned(data, low, high, i, j)'
    BY <1>1, <1>7 DEF Scanned
  <1> QED
    BY <1>1, <1>2, <1>10, <1>11, <1>12 DEF QsInv, SortInv

LEMMA Concatenated ==
  ASSUME NEW S, NEW s \in Seq(S), NEW t \in Seq(S)
  PROVE  /\ s \o t \in Seq(S) /\ Len(s \o t) = Len(s) + Len(t)
         /\ DOMAIN (s \o t) = 1 .. Len(s) + Len(t)
         /\ \A k \in 1 .. Len(s) + Len(t) :
              (s \o t)[k] = IF k <= Len(s) THEN s[k] ELSE t[k - Len(s)]
  OBVIOUS

(* The calls around the pivot, in front of those that were pending. *)
LEMMA AroundPivot ==
  ASSUME QsInv, at = "partition", j \in low .. high, calls' = Sort!Around(j) \o calls
  PROVE  /\ calls' \in Seq([low : Int, high : Int, depth : Int])
         /\ calls'[1].low = low /\ calls'[1].high = j - 1
         /\ calls'[2].low = j + 1 /\ calls'[2].high = high
         /\ calls'[1].depth = depth + 1 /\ calls'[2].depth \in {depth, depth + 1}
         /\ 1 \in DOMAIN calls' /\ 2 \in DOMAIN calls'
         /\ \A k \in DOMAIN calls :
              k \in Nat \ {0} /\ k + 2 \in DOMAIN calls' /\ calls'[k + 2] = calls[k]
         /\ \A k \in DOMAIN calls' :
              k \in {1, 2} \/ (k - 2 \in DOMAIN calls /\ calls'[k] = calls[k - 2])
  <1> DEFINE Ranges == [low : Int, high : Int, depth : Int]
             first == [low |-> low, high |-> j - 1, depth |-> depth + 1]
             second == [low |-> j + 1, high |-> high,
                        depth |-> IF TailCall THEN depth ELSE depth + 1]
  <1>1. /\ calls \in Seq(Ranges) /\ low \in Int /\ high \in Int /\ j \in Int
        /\ depth \in Int
    BY DEF QsInv, QsType
  <1>2. first \in Ranges /\ second \in Ranges
    BY <1>1
  <1>3. /\ first.low = low /\ first.high = j - 1
        /\ second.low = j + 1 /\ second.high = high
        /\ first.depth = depth + 1 /\ second.depth \in {depth, depth + 1}
    OBVIOUS
  <1>4. calls' = <<first, second>> \o calls
    BY DEF Sort!Around
  <1> HIDE DEF Ranges, first, second
  <1>5. <<first, second>> \in Seq(Ranges) /\ Len(<<first, second>>) = 2
        /\ <<first, second>>[1] = first /\ <<first, second>>[2] = second
    BY <1>2
  <1> DEFINE two == <<first, second>>
  <1>6. two \in Seq(Ranges) /\ Len(two) = 2 /\ two[1] = first /\ two[2] = second
        /\ calls' = two \o calls
    BY <1>4, <1>5
  <1> HIDE DEF two
  <1>7. /\ calls' \in Seq(Ranges) /\ Len(calls') = Len(calls) + 2 /\ Len(calls) \in Nat
        /\ DOMAIN calls' = 1 .. Len(calls) + 2 /\ DOMAIN calls = 1 .. Len(calls)
        /\ \A k \in 1 .. Len(calls) + 2 :
             calls'[k] = IF k <= 2 THEN two[k] ELSE calls[k - 2]
    <2>1. Len(calls) \in Nat /\ DOMAIN calls = 1 .. Len(calls) /\ 2 + Len(calls) = Len(calls) + 2
      BY <1>1
    <2>2. /\ two \o calls \in Seq(Ranges) /\ Len(two \o calls) = 2 + Len(calls)
          /\ DOMAIN (two \o calls) = 1 .. 2 + Len(calls)
          /\ \A k \in 1 .. 2 + Len(calls) :
               (two \o calls)[k] = IF k <= 2 THEN two[k] ELSE calls[k - 2]
      <3>1. two \in Seq(Ranges) /\ calls \in Seq(Ranges)
        BY <1>1, <1>6
      <3>2. /\ two \o calls \in Seq(Ranges) /\ Len(two \o calls) = Len(two) + Len(calls)
            /\ DOMAIN (two \o calls) = 1 .. Len(two) + Len(calls)
            /\ \A k \in 1 .. Len(two) + Len(calls) :
                 (two \o calls)[k] = IF k <= Len(two) THEN two[k] ELSE calls[k - Len(two)]
        BY <3>1, Concatenated
      <3> QED
        BY <1>6, <3>2
    <2> QED
      BY <1>6, <2>1, <2>2
  <1>9. calls'[1] = first /\ calls'[2] = second /\ 1 \in DOMAIN calls' /\ 2 \in DOMAIN calls'
    BY <1>6, <1>7
  <1>10. \A k \in DOMAIN calls :
           k \in Nat \ {0} /\ k + 2 \in DOMAIN calls' /\ calls'[k + 2] = calls[k]
    <2> TAKE k \in DOMAIN calls
    <2>1. k \in Nat \ {0} /\ k + 2 \in 1 .. Len(calls) + 2 /\ ~(k + 2 <= 2) /\ (k + 2) - 2 = k
      BY <1>7
    <2> QED
      BY <1>7, <2>1
  <1>11. \A k \in DOMAIN calls' :
           k \in {1, 2} \/ (k - 2 \in DOMAIN calls /\ calls'[k] = calls[k - 2])
    BY <1>7
  <1> QED
    BY <1>3, <1>7, <1>9, <1>10, <1>11 DEF Ranges

LEMMA PlacePivotStep ==
  ASSUME QsInv, Sort!PlacePivot
  PROVE  QsInv'
  <1>1. /\ at = "partition" /\ at' = "call" /\ i >= j
        /\ ~(j >= low + 1 /\ data[j] > data[low])
        /\ Sort!swap(low, j) /\ calls' = Sort!Around(j) \o calls
        /\ UNCHANGED <<file, n, low, high, depth, i, j, exit, output>>
    BY DEF Sort!PlacePivot, Sort!AbovePivot, Sort!pivot, Sort!input, Sort!result
  <1>2. /\ n \in 0 .. MAX_SIZE /\ n \in Nat /\ MAX_SIZE \in Nat
        /\ data \in [0 .. MAX_SIZE - 1 -> Int]
        /\ low \in Int /\ high \in Int /\ i \in Int /\ j \in Int /\ exit = -1
        /\ AllRead /\ Permuted(data) /\ InOrder(calls)
        /\ \A k \in DOMAIN calls : high < calls[k].low
        /\ Scanned(data, low, high, i, j) /\ low .. high \subseteq Places
        /\ \A k \in Places : data[k] \in Int
    BY <1>1, Partitioning
  <1>3. /\ j \in low .. high /\ low \in low .. high /\ 0 <= low /\ low <= j
        /\ j <= high /\ high <= n - 1
    BY <1>2 DEF Scanned
  <1>4. j \in Places /\ low \in Places
    BY <1>2, <1>3
  <1>5. /\ data' \in [0 .. MAX_SIZE - 1 -> Int]
        /\ data'[low] = data[j] /\ data'[j] = data[low]
        /\ \A k \in Places : k # low /\ k # j => data'[k] = data[k]
    BY <1>1, <1>2, <1>4, SwapMoves
  <1>6. data[j] <= data[low]
    <2>1. CASE j = low
      BY <1>2, <1>4, <2>1
    <2>2. CASE j # low
      <3>1. j >= low + 1
        BY <1>2, <1>3, <2>2
      <3>2. ~(data[j] > data[low])
        BY <1>1, <3>1
      <3>3. data[j] \in Int /\ data[low] \in Int
        BY <1>2, <1>4
      <3> QED
        BY <3>2, <3>3
    <2> QED
      BY <2>1, <2>2
  <1>7. ASSUME NEW k \in low .. j PROVE data'[k] <= data'[j]
    <2>1. CASE k = low
      BY <1>2, <1>4, <1>5, <1>6, <2>1
    <2>2. CASE k = j
      BY <1>2, <1>4, <1>5, <2>2
    <2>3. CASE k # low /\ k # j
      <3>1. k \in low + 1 .. i - 1 /\ k \in low .. high
        BY <1>1, <1>2, <1>3, <2>3
      <3>2. data[k] <= data[low]
        BY <1>2, <3>1 DEF Scanned
      <3> QED
        BY <1>2, <1>5, <2>3, <3>1, <3>2
    <2> QED
      BY <2>1, <2>2, <2>3
  <1>8. ASSUME NEW k \in j .. high PROVE data'[j] <= data'[k]
    <2>1. CASE k = j
      BY <1>2, <1>4, <1>5, <2>1
    <2>2. CASE k # j
      <3>1. k \in j + 1 .. high /\ k \in low .. high /\ k # low
        BY <1>2, <1>3, <2>2
      <3>2. data[k] >= data[low]
        BY <1>2, <3>1 DEF Scanned
      <3> QED
        BY <1>2, <1>4, <1>5, <2>2, <3>1, <3>2
    <2> QED
      BY <2>1, <2>2
  <1>9. Outer(data', calls, low, high)
    BY <1>1, <1>3, SwapKeepsOuter
  <1>10. Permuted(data')
    BY <1>2, <1>4, <1>5, SwapPermutes
  <1>11. /\ calls' \in Seq([low : Int, high : Int, depth : Int])
         /\ calls'[1].low = low /\ calls'[1].high = j - 1
         /\ calls'[2].low = j + 1 /\ calls'[2].high = high
         /\ calls'[1].depth = depth + 1 /\ calls'[2].depth \in {depth, depth + 1}
         /\ 1 \in DOMAIN calls' /\ 2 \in DOMAIN calls'
         /\ \A k \in DOMAIN calls :
              k \in Nat \ {0} /\ k + 2 \in DOMAIN calls' /\ calls'[k + 2] = calls[k]
         /\ \A k \in DOMAIN calls' :
              k \in {1, 2} \/ (k - 2 \in DOMAIN calls /\ calls'[k] = calls[k - 2])
    BY <1>1, <1>3, AroundPivot
  <1>12. \A k \in DOMAIN calls :
           k \in Nat \ {0} /\ calls[k].low \in Int /\ calls[k].high \in Int
    <2>1. \A k \in DOMAIN calls : calls[k].low \in Int /\ calls[k].high \in Int
      BY CallsShape
    <2> QED
      BY <1>11, <2>1
  <1>13. InOrder(calls')
    <2>1. ASSUME NEW k \in DOMAIN calls'
          PROVE  /\ 0 <= calls'[k].low
                 /\ calls'[k].low <= calls'[k].high + 1
                 /\ calls'[k].high <= n - 1
      <3>1. CASE k = 1
        <4>1. calls'[k].low = low /\ calls'[k].high = j - 1
          BY <1>11, <3>1
        <4> QED
          BY <1>2, <1>3, <4>1
      <3>2. CASE k = 2
        <4>1. calls'[k].low = j + 1 /\ calls'[k].high = high
          BY <1>11, <3>2
        <4> QED
          BY <1>2, <1>3, <4>1
      <3>3. CASE k \notin {1, 2}
        BY <1>2, <1>11, <3>3 DEF InOrder
      <3> QED
        BY <3>1, <3>2, <3>3
    <2>2. ASSUME NEW k \in DOMAIN calls', NEW l \in DOMAIN calls', k < l
          PROVE  calls'[k].high < calls'[l].low
      <3>0. /\ \A m \in DOMAIN calls' : m = 1 \/ m = 2 \/ (m - 2 \in DOMAIN calls /\ m > 2)
            /\ DOMAIN calls' \subseteq Nat
        <4>1. DOMAIN calls' \subseteq Nat
          <5>1. calls' \in Seq([low : Int, high : Int, depth : Int])
            BY ONLY <1>11
          <5>2. \A R : \A s \in Seq(R) : DOMAIN s \subseteq Nat
            OBVIOUS
          <5> QED
            BY ONLY <5>1, <5>2
        <4>2. \A m \in DOMAIN calls' : m - 2 \in DOMAIN calls => m - 2 \in Nat \ {0}
          BY <1>12
        <4>3. \A m \in Nat : m - 2 \in Nat \ {0} => m > 2
          OBVIOUS
        <4>4. \A m \in DOMAIN calls' : m \in {1, 2} \/ m - 2 \in DOMAIN calls
          BY <1>11
        <4> QED
          BY <4>1, <4>2, <4>3, <4>4
      <3>4. calls'[1].high = j - 1 /\ calls'[2].low = j + 1 /\ calls'[2].high = high
        BY <1>11
      <3>1. CASE k = 1 /\ l = 2
        BY <1>2, <3>1, <3>4
      <3>2. CASE k \in {1, 2} /\ l \notin {1, 2}
        <4>1. l - 2 \in DOMAIN calls /\ calls'[l] = calls[l - 2]
          BY <1>11, <3>2
        <4>2. high < calls'[l].low /\ calls'[l].low \in Int
          BY <1>2, <1>12, <4>1
        <4>3. calls'[k].high = j - 1 \/ calls'[k].high = high
          BY <3>2, <3>4
        <4> QED
          BY <1>2, <1>3, <4>2, <4>3
      <3>3. CASE k \notin {1, 2}
        <4>1. k > 2 /\ l > 2 /\ k \in Nat /\ l \in Nat
          BY <2>2, <3>0, <3>3
        <4>2. /\ k - 2 \in DOMAIN calls /\ calls'[k] = calls[k - 2]
              /\ l - 2 \in DOMAIN calls /\ calls'[l] = calls[l - 2]
          <5>1. k \notin {1, 2} /\ l \notin {1, 2}
            BY <4>1
          <5> QED
            BY <1>11, <5>1
        <4>3. k - 2 < l - 2
          BY <2>2, <4>1
        <4> QED
          BY <1>2, <4>2, <4>3 DEF InOrder
      <3> QED
        BY <2>2, <3>1, <3>2, <3>3
    <2> QED
      BY <2>1, <2>2 DEF InOrder
  <1>14. Outer(data', calls', 0, -1)
    <2>1. ASSUME NEW a \in Places, NEW b \in Places, a < b, Apart(calls', 0, -1, a, b)
          PROVE  data'[a] <= data'[b]
      <3>0. a \in Int /\ b \in Int /\ data'[a] \in Int /\ data'[b] \in Int /\ data'[j] \in Int
        BY <1>2, <1>4, <1>5 DEF Places
      <3>1. /\ ~(a \in low .. j - 1 /\ b \in low .. j - 1)
            /\ ~(a \in j + 1 .. high /\ b \in j + 1 .. high)
        BY <1>11, <2>1 DEF Apart
      <3>2. CASE a \in low .. high /\ b \in low .. high
        <4>1. a \in low .. j /\ b \in j .. high
          BY <1>2, <2>1, <3>0, <3>1, <3>2
        <4> QED
          BY <1>7, <1>8, <3>0, <4>1
      <3>3. CASE ~(a \in low .. high /\ b \in low .. high)
        <4>1. Apart(calls, low, high, a, b)
          BY <1>11, <2>1, <3>3 DEF Apart
        <4> QED
          BY <1>9, <2>1, <4>1 DEF Outer
      <3> QED
        BY <3>2, <3>3
    <2> QED
      BY <2>1 DEF Outer
  <1>15. QsType'
    BY <1>1, <1>5, <1>11 DEF QsInv, QsType
  <1>16. AllRead' /\ Permuted(data)' /\ InOrder(calls)' /\ Outer(data, calls, 0, -1)'
    <2>1. Places' = Places
      BY <1>1 DEF Places
    <2>2. AllRead'
      BY <1>1, <1>2 DEF AllRead
    <2>3. Permuted(data)'
      BY <1>1, <1>10, <2>1 DEF Permuted
    <2>4. InOrder(calls)'
      BY <1>1, <1>13 DEF InOrder
    <2>5. Outer(data, calls, 0, -1)'
      BY <1>14, <2>1 DEF Outer, Apart
    <2> QED
      BY <2>2, <2>3, <2>4, <2>5
  <1> QED
    BY <1>1, <1>2, <1>15, <1>16 DEF QsInv, SortInv

(* The array is written once no range is left. *)
LEMMA WriteStep ==
  ASSUME QsInv, Sort!WriteOutput
  PROVE  QsInv'
  <1>1. /\ at = "call" /\ at' = "exit" /\ calls = <<>> /\ exit' \in {0, 1}
        /\ exit' = 0 => output' = [k \in 1 .. n |-> data[k - 1]]
        /\ UNCHANGED <<file, n, data, calls, low, high, depth, i, j>>
    BY DEF Sort!WriteOutput, Sort!Exit, Sort!input, Sort!ranges
  <1>2. QsType'
    BY <1>1 DEF QsInv, QsType
  <1>3. ASSUME exit' = 0
        PROVE  /\ AllRead' /\ output' \in [1 .. n -> Int]
               /\ Permuted([k \in Places |-> output[k + 1]])'
               /\ \A a, b \in 1 .. n : a < b => output'[a] <= output'[b]
    <2>1. /\ n \in Nat /\ n \in 0 .. MAX_SIZE /\ MAX_SIZE \in Nat
          /\ data \in [0 .. MAX_SIZE - 1 -> Int]
          /\ AllRead /\ Permuted(data) /\ Outer(data, calls, 0, -1)
      BY <1>1, SortConstants DEF QsInv, QsType, SortInv
    <2>2. \A k \in 1 .. n : k - 1 \in Places /\ data[k - 1] \in Int /\ output'[k] = data[k - 1]
      BY <1>1, <1>3, <2>1 DEF Places
    <2>3. output' \in [1 .. n -> Int]
      BY <1>1, <1>3, <2>2
    <2>4. \A k \in Places : k + 1 \in 1 .. n /\ output'[k + 1] = data[k]
      BY <1>1, <1>3, <2>1 DEF Places
    <2>5. Places' = Places /\ file' = file /\ n' = n
      BY <1>1 DEF Places
    <2>6. Permuted([k \in Places |-> output[k + 1]])'
      <3>1. PICK p \in [Places -> 1 .. n] :
              /\ \A k, l \in Places : p[k] = p[l] => k = l
              /\ \A l \in 1 .. n : \E k \in Places : p[k] = l
              /\ \A k \in Places : data[k] = file[p[k]]
        BY <2>1 DEF Permuted
      <3>2. \A k \in Places : [l \in Places |-> output'[l + 1]][k] = file[p[k]]
        BY <2>4, <3>1
      <3> QED
        BY <2>5, <3>1, <3>2 DEF Permuted
    <2>7. ASSUME NEW a \in 1 .. n, NEW b \in 1 .. n, a < b
          PROVE  output'[a] <= output'[b]
      <3>1. a - 1 \in Places /\ b - 1 \in Places
        BY <2>2
      <3>3. a - 1 < b - 1
        BY <2>7
      <3>2. Apart(calls, 0, -1, a - 1, b - 1)
        BY <1>1 DEF Apart
      <3> QED
        BY <2>1, <2>2, <3>1, <3>2, <3>3 DEF Outer
    <2> QED
      BY <1>1, <2>1, <2>3, <2>6, <2>7 DEF AllRead
  <1>4. SortInv'
    BY <1>1, <1>3 DEF SortInv
  <1> QED
    BY <1>2, <1>4 DEF QsInv

LEMMA OverflowStep ==
  ASSUME QsInv, Sort!Overflow
  PROVE  QsInv'
  <1>1. /\ at = "call" /\ at' = "exit" /\ exit' = 139
        /\ UNCHANGED <<file, n, data, calls, low, high, depth, i, j, output>>
    BY DEF Sort!Overflow, Sort!Exit, Sort!input, Sort!ranges
  <1>2. QsType'
    BY <1>1 DEF QsInv, QsType
  <1>3. SortInv'
    BY <1>1 DEF SortInv
  <1> QED
    BY <1>2, <1>3 DEF QsInv

LEMMA SortHolds == Spec => []QsInv
  <1>1. Init => QsInv
    BY SortInit DEF Init
  <1>2. QsInv /\ [Next]_vars => QsInv'
    <2>1. ASSUME QsInv, UNCHANGED sort PROVE QsInv'
      <3>1. UNCHANGED <<file, n, data, at, calls, low, high, depth, i, j, exit, output>>
        BY <2>1 DEF sort
      <3>2. QsType' /\ Places' = Places
        BY <2>1, <3>1 DEF QsInv, QsType, Places
      <3>3. SortInv'
        BY <2>1, <3>1, <3>2 DEF QsInv, SortInv, AllRead, Permuted, InOrder, Outer, Apart, Scanned
      <3> QED
        BY <3>2, <3>3 DEF QsInv
    <2>2. QsInv /\ Sort!Next => QsInv'
      BY OpenStep, ReadTokenStep, EndReadStep, CallStep, OverflowStep, ScanUpStep, ScanDownStep,
         SwapStep, PlacePivotStep, WriteStep DEF Sort!Next
    <2> QED
      BY <2>1, <2>2 DEF Next, RunQs, ProbeRuns, RunPercentiles, RunFairness, RunCluster,
                        RunThrottling, RunBenchmark, vars
  <1> QED
    BY <1>1, <1>2, PTL DEF Spec

(* What was read is what Wanted says can be read. *)
LEMMA ReadIsWanted ==
  ASSUME QsType, AllRead
  PROVE  /\ Len(Sort!Wanted) = n /\ Sort!Wanted \in Seq(Token)
         /\ DOMAIN Sort!Wanted = 1 .. n
         /\ \A k \in 1 .. n : Sort!Wanted[k] = file[k]
  <1> DEFINE whole == Append(file, Junk)
             ends == {k \in 1 .. Len(whole) : whole[k] = Junk}
             first == Sort!Min(ends)
  <1>1. /\ file \in Seq(Token) /\ Len(file) \in Nat /\ n \in Nat /\ n <= Len(file)
        /\ n <= MAX_SIZE /\ MAX_SIZE \in Nat
        /\ \A k \in 1 .. n : file[k] # Junk
    BY SortConstants DEF QsType
  <1>2. /\ Len(whole) = Len(file) + 1 /\ whole[Len(file) + 1] = Junk
        /\ \A k \in 1 .. Len(file) : whole[k] = file[k]
    BY <1>1 DEF Token
  <1> HIDE DEF whole
  <1>3. Len(file) + 1 \in ends /\ ends \in SUBSET Nat
    BY <1>1, <1>2
  <1>4. \A k \in ends : k > n
    BY <1>1, <1>2
  <1>5. first \in ends /\ \A k \in ends : first <= k
    <2>1. \E x \in ends : \A y \in ends : x <= y
      BY <1>3, LeastNat
    <2> QED
      BY <2>1 DEF Sort!Min
  <1>6. Sort!SelectInSeq(whole, LAMBDA t : t = Junk) = first
    BY <1>3 DEF Sort!SelectInSeq
  <1> HIDE DEF ends, first
  <1>7. first \in Nat /\ first > n
    BY <1>3, <1>4, <1>5
  <1>8. n = IF first - 1 < MAX_SIZE THEN first - 1 ELSE MAX_SIZE
    <2>1. CASE n = MAX_SIZE
      BY <1>1, <1>7, <2>1
    <2>2. CASE n # MAX_SIZE
      <3>1. n + 1 \in ends
        BY <1>1, <1>2, <2>2 DEF AllRead, ends
      <3>2. first = n + 1
        BY <1>1, <1>5, <1>7, <3>1
      <3> QED
        BY <1>1, <2>2, <3>2
    <2> QED
      BY <2>1, <2>2
  <1>9. Sort!Wanted = SubSeq(file, 1, n)
    BY <1>6, <1>8 DEF Sort!Wanted, whole
  <1> QED
    BY <1>1, <1>9

LEMMA SameCardinality ==
  ASSUME NEW S
  PROVE  Sort!Cardinality(S) = Cardinality(S)
  BY DEF Sort!Cardinality, Cardinality

(* It is written as often as it was read. *)
LEMMA SameNumbers ==
  ASSUME QsInv, exit = 0
  PROVE  Sort!ToBag(output) = Sort!ToBag(Sort!Wanted)
  <1> DEFINE w == Sort!Wanted
  <1>1. /\ n \in Nat /\ DOMAIN output = 1 .. n
        /\ DOMAIN w = 1 .. n /\ \A k \in 1 .. n : w[k] = file[k]
    BY SortConstants, ReadIsWanted DEF QsInv, QsType, SortInv
  <1> HIDE DEF w
  <1>2. PICK p \in [Places -> 1 .. n] :
          /\ \A k, l \in Places : p[k] = p[l] => k = l
          /\ \A l \in 1 .. n : \E k \in Places : p[k] = l
          /\ \A k \in Places : [l \in Places |-> output[l + 1]][k] = file[p[k]]
    BY DEF QsInv, SortInv, Permuted
  <1> DEFINE q == [k \in 1 .. n |-> p[k - 1]]
  <1>3. \A k \in 1 .. n : k - 1 \in Places /\ (k - 1) + 1 = k
    BY <1>1 DEF Places
  <1>4. /\ q \in [1 .. n -> 1 .. n]
        /\ \A k, l \in 1 .. n : q[k] = q[l] => k = l
        /\ \A k \in 1 .. n : output[k] = w[q[k]]
    <2>1. \A k \in 1 .. n : p[k - 1] \in 1 .. n /\ output[k] = file[p[k - 1]]
      BY <1>2, <1>3
    <2>2. \A k, l \in 1 .. n : p[k - 1] = p[l - 1] => k = l
      BY <1>2, <1>3
    <2> QED
      BY <1>1, <2>1, <2>2
  <1>5. \A l \in 1 .. n : \E k \in 1 .. n : q[k] = l
    <2>1. \A k \in Places : k + 1 \in 1 .. n /\ (k + 1) - 1 = k
      BY <1>1 DEF Places
    <2> QED
      BY <1>2, <2>1
  <1> HIDE DEF q
  <1> DEFINE A(x) == {k \in 1 .. n : output[k] = x}
             B(x) == {k \in 1 .. n : w[k] = x}
  <1>6. ASSUME NEW x PROVE Cardinality(A(x)) = Cardinality(B(x))
    <2>1. IsFiniteSet(A(x))
      <3>1. IsFiniteSet(1 .. n)
        BY <1>1, FS_Interval
      <3> QED
        BY <3>1, FS_Subset
    <2> DEFINE r == [k \in A(x) |-> q[k]]
    <2>2. r \in [A(x) -> B(x)]
      BY <1>4
    <2>3. r \in Injection(A(x), B(x))
      BY <1>4, <2>2 DEF Injection, IsInjective
    <2>4. r \in Surjection(A(x), B(x))
      <3>1. ASSUME NEW l \in B(x) PROVE \E k \in A(x) : r[k] = l
        <4>1. PICK k \in 1 .. n : q[k] = l
          BY <1>5
        <4>2. k \in A(x) /\ r[k] = l
          BY <1>4, <4>1
        <4> QED
          BY <4>2
      <3> QED
        BY <2>2, <3>1 DEF Surjection
    <2>5. ExistsBijection(A(x), B(x))
      BY <2>3, <2>4 DEF ExistsBijection, Bijection
    <2> QED
      BY <2>1, <2>5, FS_Bijection
  <1>7. Sort!Range(output) = Sort!Range(w)
    <2>1. \A k \in 1 .. n : \E l \in 1 .. n : output[k] = w[l]
      BY <1>4
    <2>2. \A l \in 1 .. n : \E k \in 1 .. n : output[k] = w[l]
      BY <1>4, <1>5
    <2>3. /\ \A x : x \in Sort!Range(output) <=> \E k \in 1 .. n : x = output[k]
          /\ \A x : x \in Sort!Range(w) <=> \E k \in 1 .. n : x = w[k]
      BY <1>1 DEF Sort!Range
    <2>4. \A x : x \in Sort!Range(output) <=> x \in Sort!Range(w)
      BY <2>1, <2>2, <2>3
    <2> QED
      BY <2>4
  <1>8. \A x : {k \in DOMAIN output : output[k] = x} = A(x)
    BY <1>1
  <1>9. \A x : {k \in DOMAIN w : w[k] = x} = B(x)
    BY <1>1
  <1> HIDE DEF A, B
  <1>10. \A S : Sort!Cardinality(S) = Cardinality(S)
    BY SameCardinality
  <1>11. Sort!ToBag(output) = [x \in Sort!Range(output) |-> Cardinality(A(x))]
    BY <1>8, <1>10 DEF Sort!ToBag
  <1>12. Sort!ToBag(w) = [x \in Sort!Range(w) |-> Cardinality(B(x))]
    BY <1>9, <1>10 DEF Sort!ToBag
  <1> QED
    BY <1>6, <1>7, <1>11, <1>12 DEF w

(* The ranges are where RangesInPlace wants them. *)
LEMMA RangesStay == QsInv => Sort!RangesInPlace
  <1> SUFFICES ASSUME QsInv, at \in {"call", "partition"}
               PROVE  /\ \A S, T \in Sort!Pending : S = T \/ S \cap T = {}
                      /\ \A a, b \in 0 .. n - 1 :
                           a < b /\ (\A R \in Sort!Pending : {a, b} \cap R # {a, b})
                             => data[a] <= data[b]
    BY DEF Sort!RangesInPlace, Sort!Sorting
  <1>1. InOrder(calls) /\ \A k \in DOMAIN calls : calls[k].low \in Int /\ calls[k].high \in Int
    BY CallsShape DEF QsInv, SortInv
  <1>2. DOMAIN calls \subseteq Int
    BY DEF QsInv, QsType
  <1>3. ASSUME NEW k \in DOMAIN calls, NEW l \in DOMAIN calls, k < l
        PROVE  (calls[k].low .. calls[k].high) \cap (calls[l].low .. calls[l].high) = {}
    BY <1>1, <1>3 DEF InOrder
  <1>4. ASSUME at = "partition", NEW k \in DOMAIN calls
        PROVE  (calls[k].low .. calls[k].high) \cap (low .. high) = {}
    BY <1>1, <1>4, Partitioning
  <1>5. ASSUME NEW S \in Sort!Pending, NEW T \in Sort!Pending PROVE S = T \/ S \cap T = {}
    <2>1. \/ at = "partition" /\ S = low .. high
          \/ \E k \in DOMAIN calls : S = calls[k].low .. calls[k].high
      BY DEF Sort!Pending
    <2>2. \/ at = "partition" /\ T = low .. high
          \/ \E k \in DOMAIN calls : T = calls[k].low .. calls[k].high
      BY DEF Sort!Pending
    <2>3. ASSUME NEW k \in DOMAIN calls, NEW l \in DOMAIN calls,
                 S = calls[k].low .. calls[k].high, T = calls[l].low .. calls[l].high
          PROVE  S = T \/ S \cap T = {}
      <3>1. k = l \/ k < l \/ l < k
        BY <1>2
      <3> QED
        BY <1>3, <2>3, <3>1
    <2> QED
      BY <1>4, <2>1, <2>2, <2>3
  <1>6. ASSUME NEW a \in 0 .. n - 1, NEW b \in 0 .. n - 1, a < b,
               \A R \in Sort!Pending : {a, b} \cap R # {a, b}
        PROVE  data[a] <= data[b]
    <2>1. \A k \in DOMAIN calls : calls[k].low .. calls[k].high \in Sort!Pending
      BY DEF Sort!Pending
    <2>2. \A R \in Sort!Pending : ~(a \in R /\ b \in R)
      BY <1>6
    <2>3. CASE at = "call"
      <3>1. Apart(calls, 0, -1, a, b)
        <4>1. \A k \in DOMAIN calls :
                ~(a \in calls[k].low .. calls[k].high /\ b \in calls[k].low .. calls[k].high)
          BY <2>1, <2>2
        <4>2. ~(a \in 0 .. -1)
          OBVIOUS
        <4> QED
          BY <4>1, <4>2 DEF Apart
      <3> QED
        BY <1>6, <2>3, <3>1 DEF QsInv, SortInv, Outer, Places
    <2>4. CASE at = "partition"
      <3>1. low .. high \in Sort!Pending
        BY <2>4 DEF Sort!Pending
      <3>2. Apart(calls, low, high, a, b)
        BY <2>1, <2>2, <3>1 DEF Apart
      <3> QED
        BY <1>6, <2>4, <3>2 DEF QsInv, SortInv, Outer, Places
    <2> QED
      BY <2>3, <2>4
  <1> QED
    BY <1>5, <1>6

(* A call for m elements has so many calls below it that at most n - m    *)
(* elements are outside its range: one pivot for each.                    *)
Shallow(cs) ==
  \A k \in DOMAIN cs : cs[k].depth <= n /\ cs[k].depth + (cs[k].high - cs[k].low) <= n

StackInv ==
  /\ at = "call" \/ at = "partition" => Shallow(calls)
  /\ at = "partition" => depth + (high - low) <= n
  /\ exit = 139 => n > StackDepth

LEMMA StackStep ==
  ASSUME QsInv, StackInv, Sort!Next
  PROVE  StackInv'
  <1>1. CASE Sort!Open \/ Sort!Read
    <2>1. at' # "call" /\ at' # "partition" /\ exit' # 139
      BY <1>1 DEF Sort!Open, Sort!Read, Sort!Exit, Sort!result, QsInv, QsType
    <2> QED
      BY <2>1 DEF StackInv
  <1>2. CASE Sort!EndRead
    <2>1. exit' # 139 /\ at' # "partition" /\ n' = n /\ n \in Nat
      BY <1>2 DEF Sort!EndRead, Sort!Exit, Sort!input, QsInv, QsType
    <2>2. ASSUME at' = "call" PROVE Shallow(calls')
      <3>1. n # 0 /\ calls' = <<[low |-> 0, high |-> n - 1, depth |-> 1]>>
        BY <1>2, <2>2 DEF Sort!EndRead, Sort!Exit
      <3> QED
        BY <2>1, <3>1 DEF Shallow
    <2> QED
      BY <2>1, <2>2 DEF StackInv, Shallow
  <1>3. CASE Sort!Call
    <2>1. /\ at = "call" /\ calls # <<>> /\ calls' = Tail(calls) /\ n' = n /\ exit' = exit
          /\ at' = "partition" => /\ low' = Head(calls).low /\ high' = Head(calls).high
                                  /\ depth' = Head(calls).depth
      BY <1>3 DEF Sort!Call, Sort!input, Sort!result
    <2>2. /\ 1 \in DOMAIN calls /\ Head(calls) = calls[1]
          /\ \A k \in DOMAIN calls' : k + 1 \in DOMAIN calls /\ calls'[k] = calls[k + 1]
      <3>1. /\ Len(calls) \in Nat \ {0} /\ DOMAIN calls = 1 .. Len(calls)
            /\ Head(calls) = calls[1] /\ DOMAIN calls' = 1 .. Len(calls) - 1
            /\ \A k \in 1 .. Len(calls) - 1 : calls'[k] = calls[k + 1]
        BY <2>1, CallsShape
      <3> QED
        BY <3>1
    <2>3. Shallow(calls)
      BY <2>1 DEF StackInv
    <2>4. Shallow(calls')
      BY <2>2, <2>3 DEF Shallow
    <2>5. at' = "partition" => depth' + (high' - low') <= n
      BY <2>1, <2>2, <2>3 DEF Shallow
    <2> QED
      BY <2>1, <2>4, <2>5 DEF StackInv, Shallow
  <1>4. CASE Sort!Overflow
    <2>1. /\ at = "call" /\ at' = "exit" /\ calls # <<>> /\ n' = n
          /\ Head(calls).depth > StackDepth
      BY <1>4 DEF Sort!Overflow, Sort!Exit, Sort!input
    <2>2. /\ 1 \in DOMAIN calls /\ Head(calls) = calls[1]
          /\ calls[1] \in [low : Int, high : Int, depth : Int]
      BY <2>1, CallsShape
    <2>3. calls[1].depth <= n /\ calls[1].depth \in Int /\ n \in Nat /\ StackDepth \in Nat
      BY <2>1, <2>2, SortConstants DEF StackInv, Shallow, QsInv, QsType
    <2>4. n > StackDepth
      BY <2>1, <2>2, <2>3
    <2> QED
      BY <2>1, <2>4 DEF StackInv
  <1>5. CASE Sort!ScanUp \/ Sort!ScanDown \/ Sort!Swap
    <2>1. /\ at = "partition" /\ at' = "partition"
          /\ UNCHANGED <<n, calls, low, high, depth, exit>>
      BY <1>5 DEF Sort!ScanUp, Sort!ScanDown, Sort!Swap, Sort!input, Sort!result
    <2> QED
      BY <2>1 DEF StackInv, Shallow
  <1>6. CASE Sort!PlacePivot
    <2>1. /\ at = "partition" /\ at' = "call" /\ n' = n /\ exit' = exit
          /\ i >= j /\ calls' = Sort!Around(j) \o calls
      BY <1>6 DEF Sort!PlacePivot, Sort!input, Sort!result
    <2>2. /\ n \in Nat /\ low \in Int /\ high \in Int /\ depth \in Int /\ j \in Int
          /\ Scanned(data, low, high, i, j)
      BY <2>1, Partitioning DEF QsInv, QsType
    <2>3. low <= j /\ j <= high /\ low < high /\ j \in low .. high
      BY <2>2 DEF Scanned
    <2>4. /\ calls'[1].low = low /\ calls'[1].high = j - 1
          /\ calls'[2].low = j + 1 /\ calls'[2].high = high
          /\ calls'[1].depth = depth + 1 /\ calls'[2].depth \in {depth, depth + 1}
          /\ \A k \in DOMAIN calls' :
               k \in {1, 2} \/ (k - 2 \in DOMAIN calls /\ calls'[k] = calls[k - 2])
      BY <2>1, <2>3, AroundPivot
    <2>5. Shallow(calls) /\ depth + (high - low) <= n /\ exit # 139
      BY <2>1, Partitioning DEF StackInv
    <2>6. /\ depth + 1 <= n
          /\ depth + 1 + ((j - 1) - low) <= n
          /\ depth + 1 + (high - (j + 1)) <= n /\ depth + (high - (j + 1)) <= n
      BY <2>2, <2>3, <2>5
    <2>7. Shallow(calls')
      <3>1. calls'[1].depth <= n /\ calls'[1].depth + (calls'[1].high - calls'[1].low) <= n
        BY <2>4, <2>6
      <3>2. calls'[2].depth <= n /\ calls'[2].depth + (calls'[2].high - calls'[2].low) <= n
        BY <2>2, <2>4, <2>6
      <3> QED
        BY <2>4, <2>5, <3>1, <3>2 DEF Shallow
    <2> QED
      BY <2>1, <2>5, <2>7 DEF StackInv, Shallow
  <1>7. CASE Sort!WriteOutput
    <2>1. at' = "exit" /\ exit' # 139
      BY <1>7 DEF Sort!WriteOutput, Sort!Exit
    <2> QED
      BY <2>1 DEF StackInv
  <1> QED
    BY <1>1, <1>2, <1>3, <1>4, <1>5, <1>6, <1>7 DEF Sort!Next

LEMMA StackHolds == Spec => []StackInv
  <1>1. Init => StackInv
    <2>1. Sort!Init => at = "open" /\ exit = -1
      BY DEF Sort!Init
    <2> QED
      BY <2>1 DEF Init, StackInv
  <1>2. QsInv /\ StackInv /\ [Next]_vars => StackInv'
    <2>1. ASSUME StackInv, UNCHANGED sort PROVE StackInv'
      BY <2>1 DEF sort, StackInv, Shallow
    <2> QED
      BY <2>1, StackStep DEF Next, RunQs, ProbeRuns, RunPercentiles, RunFairness, RunCluster,
                             RunThrottling, RunBenchmark, vars
  <1> QED
    BY <1>1, <1>2, SortHolds, PTL DEF Spec

(* Whatever the file, however much of it fits into the array and however   *)
(* deep the stack: the ranges still to be sorted stay in place, elements   *)
(* equal to the pivot or not; a program that succeeds has written the      *)
(* numbers it was to read in ascending order, each as often as it was      *)
(* read; and only more numbers than calls fit on the stack can overflow    *)
(* it.                                                                     *)
THEOREM QuicksortSorts == Spec => []SortsInput
  <1>1. QsInv /\ StackInv => SortsInput
    <2>1. ASSUME QsInv, exit = 0
          PROVE  \A a, b \in DOMAIN output : a < b => output[a] <= output[b]
      BY <2>1 DEF QsInv, SortInv
    <2>2. StackInv => (exit = 139 => n > StackDepth)
      BY DEF StackInv
    <2> QED
      BY <2>1, <2>2, RangesStay, SameNumbers DEF SortsInput, Sort!SortsInput
  <1> QED
    BY <1>1, SortHolds, StackHolds, PTL

------------------------------------------------------------------------------
(* benchmark.py.  The sandboxes are used one after the other; of the calls *)
(* of a sandbox each has one entry for its outcome, until an exception.    *)

InCall == {"checking", "allowed", "tool", "failed"}

Phases == InCall \cup {"new", "idle", "raised", "closed"}

LogEntry ==
  [session : 1 .. 4, id : Nat,
   decision : {"START", "ALLOWED", "BLOCKED", "EXECUTED", "ERROR", "END"}]

BenchType ==
  /\ sandbox \in 1 .. 5
  /\ latencies \in [1 .. 4 -> Nat] /\ silent \in [1 .. 4 -> Nat]
  /\ call_count \in [1 .. 4 -> Nat]
  /\ request_counter \in [1 .. 4 -> Nat]
  /\ session \in [1 .. 4 -> Phases]
  /\ audit \in Seq(LogEntry)
  /\ overhead \subseteq 1 .. 2

InTurn(here, s) ==
  /\ s < sandbox <=> here = "closed"
  /\ s > sandbox => here = "new"

(* A sandbox that is here, has made so many calls and measured so many     *)
(* latencies of results, and whose log has so many entries of each kind.   *)
Measured(here, made, sampled, executed, failed, refused, ended) ==
  /\ sampled = executed /\ refused = 0
  /\ ended = IF here = "closed" THEN 1 ELSE 0
  /\ made <= iterations
  /\ here = "new" => made = 0
  /\ here # "raised" => executed + failed + (IF here \in InCall THEN 1 ELSE 0) = made
  /\ here = "closed" => made = iterations

MeasuredIn(s) ==
  Measured(session[s], call_count[s], latencies[s] - silent[s],
           Bench!Entries(s, "EXECUTED"), Bench!Entries(s, "ERROR"),
           Bench!Entries(s, "BLOCKED"), Bench!Entries(s, "END"))

(* Without a process no call fails without a text. *)
Heard == \A test \in 1 .. 2 : silent[2 * test] = 0

Compared ==
  \A test \in 1 .. 2 :
    test \in overhead <=> /\ session[2 * test] = "closed"
                          /\ latencies[2 * test - 1] > 0
                          /\ latencies[2 * test] > 0

BenchInv ==
  /\ BenchType
  /\ \A s \in 1 .. 4 : InTurn(session[s], s) /\ MeasuredIn(s)
  /\ Heard
  /\ Compared

(* What the assumptions say of the benchmark. *)
LEMMA BenchConstants ==
  /\ Bench!sandboxes = 1 .. 4 /\ DOMAIN Tests = 1 .. 2 /\ iterations \in Nat \ {0}
  /\ \A s : Bench!Sandbox!more_calls(s) <=> call_count[s] < iterations
  /\ \A s : Bench!Sandbox!over_limit(s) <=> call_count[s] > 2 * iterations
  <1>1. Len(Tests) = 2 /\ DOMAIN Tests = 1 .. 2
    BY DEF Tests
  <1>2. Bench!sandboxes = 1 .. 4
    BY <1>1 DEF Bench!sandboxes
  <1>3. iterations \in Nat \ {0}
    BY ToolsAssumption DEF Bench!BenchmarkAssumption
  <1>4. \A s : Bench!Sandbox!more_calls(s) <=> call_count[s] < iterations
    BY DEF Bench!Sandbox!more_calls
  <1>5. \A s : Bench!Sandbox!over_limit(s) <=> call_count[s] > 2 * iterations
    BY DEF Bench!Sandbox!over_limit, policy
  <1> QED
    BY <1>1, <1>2, <1>3, <1>4, <1>5

(* The policy allows what the tests ask for. *)
LEMMA TestsAllowed ==
  ASSUME sandbox \in 1 .. 4
  PROVE  Bench!Sandbox!validate_tool_call(Bench!request)
  <1>1. Bench!request = Tests[1] \/ Bench!request = Tests[2]
    <2>1. (sandbox + 1) \div 2 = 1 \/ (sandbox + 1) \div 2 = 2
      OBVIOUS
    <2> QED
      BY <2>1 DEF Bench!request
  <1>2. CASE Bench!request = Tests[1]
    <2> DEFINE asked == [tool |-> "list_dir", args |-> [path |-> "."]]
               of == [allowed |-> TRUE, allowed_args |-> [path |-> {Pattern(".")}],
                      denied_args |-> [path |-> {Pattern("etc")}]]
    <2>1. Bench!request = asked
      BY <1>2 DEF Tests
    <2>2. "list_dir" \in DOMAIN policy.tools /\ policy.tools["list_dir"] = of
      BY DEF policy
    <2>3. asked.tool = "list_dir" /\ DOMAIN asked.args = {"path"} /\ asked.args["path"] = "."
      OBVIOUS
    <2>4. /\ of.allowed /\ of.allowed_args["path"] = {Pattern(".")}
          /\ of.denied_args["path"] = {Pattern("etc")}
      OBVIOUS
    <2> HIDE DEF asked, of
    <2>5. Bench!Sandbox!argument_ok(of, "path", ".")
      <3>1. /\ ~Bench!Sandbox!matches_pattern(".", {Pattern("etc")})
            /\ Bench!Sandbox!matches_pattern(".", {Pattern(".")})
        BY DEF Bench!Sandbox!matches_pattern, Pattern
      <3> QED
        BY <2>4, <3>1 DEF Bench!Sandbox!argument_ok
    <2> QED
      BY <2>1, <2>2, <2>3, <2>4, <2>5 DEF Bench!Sandbox!validate_tool_call
  <1>3. CASE Bench!request = Tests[2]
    <2> DEFINE asked == [tool |-> "shell_command", args |-> [command |-> "pwd"]]
               of == [allowed |-> TRUE, allowed_args |-> [command |-> {Pattern("pwd")}],
                      denied_args |-> [command |-> {Pattern("rm log")}]]
    <2>1. Bench!request = asked
      BY <1>3 DEF Tests
    <2>2. "shell_command" \in DOMAIN policy.tools /\ policy.tools["shell_command"] = of
      BY DEF policy
    <2>3. asked.tool = "shell_command" /\ DOMAIN asked.args = {"command"}
          /\ asked.args["command"] = "pwd"
      OBVIOUS
    <2>4. /\ of.allowed /\ of.allowed_args["command"] = {Pattern("pwd")}
          /\ of.denied_args["command"] = {Pattern("rm log")}
      OBVIOUS
    <2> HIDE DEF asked, of
    <2>5. Bench!Sandbox!argument_ok(of, "command", "pwd")
      <3>1. /\ ~Bench!Sandbox!matches_pattern("pwd", {Pattern("rm log")})
            /\ Bench!Sandbox!matches_pattern("pwd", {Pattern("pwd")})
        BY DEF Bench!Sandbox!matches_pattern, Pattern
      <3> QED
        BY <2>4, <3>1 DEF Bench!Sandbox!argument_ok
    <2> QED
      BY <2>1, <2>2, <2>3, <2>4, <2>5 DEF Bench!Sandbox!validate_tool_call
  <1> QED
    BY <1>1, <1>2, <1>3

(* How many entries of a kind a session has. *)
LEMMA SameEntries ==
  \A s, d : Bench!Entries(s, d) =
              Cardinality({k \in DOMAIN audit : audit[k].session = s /\ audit[k].decision = d})
  <1>1. ASSUME NEW S PROVE Bench!Cardinality(S) = Cardinality(S)
    BY DEF Bench!Cardinality, Cardinality
  <1> QED
    BY <1>1 DEF Bench!Entries

(* An entry counts for its own session and decision only. *)
LEMMA EntriesAppended ==
  ASSUME audit \in Seq(LogEntry), NEW x \in LogEntry, audit' = Append(audit, x), NEW s, NEW d
  PROVE  /\ Bench!Entries(s, d) \in Nat
         /\ Bench!Entries(s, d)' =
              Bench!Entries(s, d) + (IF x.session = s /\ x.decision = d THEN 1 ELSE 0)
  <1> DEFINE S == {k \in DOMAIN audit : audit[k].session = s /\ audit[k].decision = d}
             T == {k \in DOMAIN audit' : audit'[k].session = s /\ audit'[k].decision = d}
             l == Len(audit) + 1
  <1>1. /\ l \in Nat /\ DOMAIN audit = 1 .. l - 1 /\ DOMAIN audit' = 1 .. l
        /\ audit'[l] = x /\ \A k \in 1 .. l - 1 : audit'[k] = audit[k]
    OBVIOUS
  <1> HIDE DEF l
  <1>2. IsFiniteSet(S) /\ l \notin S
    <2>1. IsFiniteSet(1 .. l - 1)
      <3>1. 1 \in Int /\ l - 1 \in Int
        BY <1>1
      <3> QED
        BY <3>1, FS_Interval
    <2>2. S \in SUBSET (1 .. l - 1)
      BY <1>1
    <2> QED
      BY <1>1, <2>1, <2>2, FS_Subset
  <1>3. \A k \in 1 .. l : k = l \/ k \in 1 .. l - 1
    BY <1>1
  <1>4. T = IF x.session = s /\ x.decision = d THEN S \cup {l} ELSE S
    BY <1>1, <1>3
  <1>5. Cardinality(S) \in Nat /\ Cardinality(S \cup {l}) = Cardinality(S) + 1
    BY <1>2, FS_CardinalityType, FS_AddElement
  <1>6. Bench!Entries(s, d) = Cardinality(S)
    BY SameEntries
  <1>7. Bench!Entries(s, d)' = Cardinality(T)
    <2>1. ASSUME NEW R PROVE Bench!Cardinality(R) = Cardinality(R)
      BY DEF Bench!Cardinality, Cardinality
    <2> QED
      BY <2>1 DEF Bench!Entries
  <1> HIDE DEF S, T
  <1> QED
    BY <1>4, <1>5, <1>6, <1>7

(* They are natural numbers. *)
LEMMA EntriesInNat ==
  ASSUME audit \in Seq(LogEntry)
  PROVE  \A s, kind : Bench!Entries(s, kind) \in Nat
  <1>1. IsFiniteSet(DOMAIN audit)
    <2>1. DOMAIN audit = 1 .. Len(audit) /\ Len(audit) \in Int
      OBVIOUS
    <2> QED
      BY <2>1, FS_Interval
  <1> TAKE s, kind
  <1>2. IsFiniteSet({k \in DOMAIN audit : audit[k].session = s /\ audit[k].decision = kind})
    BY <1>1, FS_Subset
  <1> QED
    BY <1>2, SameEntries, FS_CardinalityType

One(P) == IF P THEN 1 ELSE 0

(* What a step of the sandbox in use does to the log. *)
LEMMA EntriesWritten ==
  ASSUME audit \in Seq(LogEntry), sandbox \in 1 .. 4,
         NEW d \in {"none", "START", "ALLOWED", "EXECUTED", "ERROR", "END"},
         IF d = "none" THEN audit' = audit
         ELSE \E k \in Nat :
                audit' = Append(audit, [session |-> sandbox, id |-> k, decision |-> d])
  PROVE  /\ audit' \in Seq(LogEntry)
         /\ \A s, kind : s # sandbox => Bench!Entries(s, kind)' = Bench!Entries(s, kind)
         /\ \A kind \in {"EXECUTED", "ERROR", "BLOCKED", "END"} :
              \A s : s = sandbox =>
                /\ Bench!Entries(s, kind) \in Nat
                /\ Bench!Entries(s, kind)' = Bench!Entries(s, kind) + One(d = kind)
  <1>0. [session |-> sandbox, id |-> 0, decision |-> "START"] \in LogEntry
    BY DEF LogEntry
  <1>1. \A s, kind : Bench!Entries(s, kind) \in Nat
    BY EntriesInNat
  <1>2. CASE d = "none"
    <2>1. \A s, kind : Bench!Entries(s, kind)' = Bench!Entries(s, kind)
      BY <1>2 DEF Bench!Entries
    <2> QED
      BY <1>1, <1>2, <2>1 DEF One
  <1>3. CASE d # "none"
    <2>1. PICK k \in Nat : audit' = Append(audit, [session |-> sandbox, id |-> k, decision |-> d])
      BY <1>3
    <2> DEFINE x == [session |-> sandbox, id |-> k, decision |-> d]
    <2>2. x \in LogEntry /\ x.session = sandbox /\ x.decision = d
      BY <1>3 DEF LogEntry
    <2>3. audit' = Append(audit, x)
      BY <2>1
    <2> HIDE DEF x
    <2>4. audit' \in Seq(LogEntry)
      BY <2>2, <2>3
    <2>5. ASSUME NEW s, NEW kind
          PROVE  Bench!Entries(s, kind)' =
                   Bench!Entries(s, kind) + (IF s = sandbox /\ kind = d THEN 1 ELSE 0)
      BY <2>2, <2>3, EntriesAppended
    <2> QED
      BY <1>1, <2>4, <2>5 DEF One
  <1> QED
    BY <1>2, <1>3

(* A step of the sandbox in use that does not close it. *)
LEMMA Turn ==
  ASSUME BenchInv, sandbox \in 1 .. 4,
         NEW there \in Phases \ {"new", "closed"}, NEW made \in Nat, NEW sampled \in Nat,
         NEW unheard \in Nat, unheard = silent[sandbox] \/ Bench!use_subprocess,
         NEW d \in {"none", "START", "ALLOWED", "EXECUTED", "ERROR"},
         session' = [session EXCEPT ![sandbox] = there],
         call_count' = [call_count EXCEPT ![sandbox] = made],
         latencies' = [latencies EXCEPT ![sandbox] = sampled],
         silent' = [silent EXCEPT ![sandbox] = unheard],
         request_counter' \in [1 .. 4 -> Nat],
         sandbox' = sandbox, overhead' = overhead,
         IF d = "none" THEN audit' = audit
         ELSE \E k \in Nat :
                audit' = Append(audit, [session |-> sandbox, id |-> k, decision |-> d]),
         Measured(there, made, sampled - unheard,
                  Bench!Entries(sandbox, "EXECUTED") + One(d = "EXECUTED"),
                  Bench!Entries(sandbox, "ERROR") + One(d = "ERROR"),
                  Bench!Entries(sandbox, "BLOCKED"), Bench!Entries(sandbox, "END"))
  PROVE  BenchInv'
  <1>1. /\ latencies \in [1 .. 4 -> Nat] /\ call_count \in [1 .. 4 -> Nat]
        /\ silent \in [1 .. 4 -> Nat] /\ Heard
        /\ session \in [1 .. 4 -> Phases] /\ audit \in Seq(LogEntry) /\ overhead \subseteq 1 .. 2
        /\ \A s \in 1 .. 4 : InTurn(session[s], s) /\ MeasuredIn(s)
    BY DEF BenchInv, BenchType
  <1>2. /\ audit' \in Seq(LogEntry)
        /\ \A s, kind : s # sandbox => Bench!Entries(s, kind)' = Bench!Entries(s, kind)
        /\ \A kind \in {"EXECUTED", "ERROR", "BLOCKED", "END"} :
             \A s : s = sandbox =>
               /\ Bench!Entries(s, kind) \in Nat
               /\ Bench!Entries(s, kind)' = Bench!Entries(s, kind) + One(d = kind)
    <2>1. audit \in Seq(LogEntry) /\ d \in {"none", "START", "ALLOWED", "EXECUTED", "ERROR", "END"}
      BY <1>1
    <2>2. IF d = "none" THEN audit' = audit
          ELSE \E k \in Nat :
                 audit' = Append(audit, [session |-> sandbox, id |-> k, decision |-> d])
      OBVIOUS
    <2> QED
      BY <2>1, <2>2, EntriesWritten
  <1>3. /\ latencies' \in [1 .. 4 -> Nat] /\ call_count' \in [1 .. 4 -> Nat]
        /\ session' \in [1 .. 4 -> Phases] /\ silent' \in [1 .. 4 -> Nat]
    BY <1>1
  <1>4. BenchType'
    <2>1. sandbox' \in 1 .. 5
      OBVIOUS
    <2>2. request_counter' \in [1 .. 4 -> Nat]
      OBVIOUS
    <2>3. overhead' \subseteq 1 .. 2
      BY <1>1
    <2> QED
      BY <1>2, <1>3, <2>1, <2>2, <2>3 DEF BenchType
  <1>5. \A s \in 1 .. 4 :
          IF s = sandbox
          THEN /\ session'[s] = there /\ call_count'[s] = made
               /\ latencies'[s] = sampled /\ silent'[s] = unheard
          ELSE /\ session'[s] = session[s] /\ call_count'[s] = call_count[s]
               /\ latencies'[s] = latencies[s] /\ silent'[s] = silent[s]
    BY <1>1
  <1>6. ASSUME NEW s \in 1 .. 4 PROVE InTurn(session[s], s)'
    <2>1. InTurn(session'[s], s)
      BY <1>1, <1>5 DEF InTurn
    <2> QED
      BY <2>1 DEF InTurn
  <1>7. ASSUME NEW s \in 1 .. 4 PROVE MeasuredIn(s)'
    <2>1. CASE s = sandbox
      <3>1. /\ Bench!Entries(s, "EXECUTED")' = Bench!Entries(s, "EXECUTED") + One(d = "EXECUTED")
            /\ Bench!Entries(s, "ERROR")' = Bench!Entries(s, "ERROR") + One(d = "ERROR")
            /\ Bench!Entries(s, "BLOCKED")' = Bench!Entries(s, "BLOCKED") + One(d = "BLOCKED")
            /\ Bench!Entries(s, "END")' = Bench!Entries(s, "END") + One(d = "END")
            /\ Bench!Entries(s, "BLOCKED") \in Nat /\ Bench!Entries(s, "END") \in Nat
        BY <1>2, <2>1
      <3>2. /\ Bench!Entries(s, "BLOCKED")' = Bench!Entries(s, "BLOCKED")
            /\ Bench!Entries(s, "END")' = Bench!Entries(s, "END")
        BY <3>1 DEF One
      <3>3. Measured(session'[s], call_count'[s], latencies'[s] - silent'[s],
                     Bench!Entries(s, "EXECUTED")', Bench!Entries(s, "ERROR")',
                     Bench!Entries(s, "BLOCKED")', Bench!Entries(s, "END")')
        BY <1>5, <2>1, <3>1, <3>2
      <3> QED
        BY <3>3 DEF MeasuredIn, Measured
    <2>2. CASE s # sandbox
      <3>1. MeasuredIn(s) /\ \A kind : Bench!Entries(s, kind)' = Bench!Entries(s, kind)
        <4>1. MeasuredIn(s)
          BY <1>1
        <4>2. \A kind : Bench!Entries(s, kind)' = Bench!Entries(s, kind)
          BY <1>2, <2>2
        <4> QED
          BY <4>1, <4>2
      <3> QED
        BY <1>5, <2>2, <3>1 DEF MeasuredIn, Measured
    <2> QED
      BY <2>1, <2>2
  <1>8. Compared'
    <2>1. ASSUME NEW test \in 1 .. 2
          PROVE  /\ session'[2 * test] = "closed" <=> session[2 * test] = "closed"
                 /\ session[2 * test] = "closed" =>
                      /\ latencies'[2 * test - 1] = latencies[2 * test - 1]
                      /\ latencies'[2 * test] = latencies[2 * test]
      <3>1. 2 * test \in 1 .. 4 /\ 2 * test - 1 \in 1 .. 4 /\ 2 * test - 1 < 2 * test
        OBVIOUS
      <3>2. session[2 * test] = "closed" <=> 2 * test < sandbox
        BY <1>1, <3>1 DEF InTurn
      <3> QED
        BY <1>5, <3>1, <3>2
    <2> QED
      BY <2>1 DEF BenchInv, Compared
  <1>9. Heard'
    <2>1. ASSUME NEW test \in 1 .. 2 PROVE silent'[2 * test] = 0
      <3>1. 2 * test \in 1 .. 4 /\ silent[2 * test] = 0
        <4>1. silent[2 * test] = 0
          BY <1>1, Zenon DEF Heard
        <4> QED
          BY <4>1
      <3>2. ASSUME sandbox = 2 * test PROVE unheard = 0
        <4>1. sandbox = 2 \/ sandbox = 4
          BY <3>2
        <4>2. ~Bench!use_subprocess
          BY ONLY <4>1 DEF Bench!use_subprocess
        <4> QED
          BY <3>1, <3>2, <4>2
      <3> QED
        BY <1>5, <3>1, <3>2
    <2> QED
      BY <2>1 DEF Heard
  <1> QED
    BY <1>4, <1>6, <1>7, <1>8, <1>9 DEF BenchInv

(* What the invariant says of the sandbox in use. *)
LEMMA InUse ==
  ASSUME BenchInv, sandbox \in 1 .. 4
  PROVE  /\ call_count[sandbox] \in Nat /\ latencies[sandbox] \in Nat
         /\ silent[sandbox] \in Nat
         /\ call_count = [call_count EXCEPT ![sandbox] = call_count[sandbox]]
         /\ latencies = [latencies EXCEPT ![sandbox] = latencies[sandbox]]
         /\ silent = [silent EXCEPT ![sandbox] = silent[sandbox]]
         /\ request_counter \in [1 .. 4 -> Nat] /\ request_counter[sandbox] \in Nat
         /\ session[sandbox] # "closed"
         /\ \A kind : Bench!Entries(sandbox, kind) \in Nat
         /\ Measured(session[sandbox], call_count[sandbox],
                     latencies[sandbox] - silent[sandbox],
                     Bench!Entries(sandbox, "EXECUTED"), Bench!Entries(sandbox, "ERROR"),
                     Bench!Entries(sandbox, "BLOCKED"), Bench!Entries(sandbox, "END"))
  <1>1. /\ call_count \in [1 .. 4 -> Nat] /\ latencies \in [1 .. 4 -> Nat]
        /\ request_counter \in [1 .. 4 -> Nat] /\ audit \in Seq(LogEntry)
        /\ silent \in [1 .. 4 -> Nat]
    BY DEF BenchInv, BenchType
  <1>2. InTurn(session[sandbox], sandbox) /\ MeasuredIn(sandbox)
    BY DEF BenchInv
  <1>3. session[sandbox] # "closed"
    BY <1>2 DEF InTurn
  <1>4. \A kind : Bench!Entries(sandbox, kind) \in Nat
    BY <1>1, EntriesInNat
  <1> QED
    BY <1>1, <1>2, <1>3, <1>4 DEF MeasuredIn

(* A step of execute() that writes no outcome and leaves the counts. *)
LEMMA QuietTurn ==
  ASSUME BenchInv, sandbox \in 1 .. 4,
         NEW here \in Phases, NEW there \in Phases \ {"new", "closed"},
         NEW d \in {"none", "START", "ALLOWED"},
         Bench!Sandbox!At(sandbox, here, there),
         \/ here \in {"new", "idle"} /\ there = "idle"
         \/ here \in InCall /\ there \in InCall \cup {"raised"}
         \/ here = "idle" /\ there = "raised",
         UNCHANGED <<call_count, latencies, silent, sandbox, overhead>>,
         request_counter' \in [1 .. 4 -> Nat],
         IF d = "none" THEN audit' = audit
         ELSE \E k \in Nat :
                audit' = Append(audit, [session |-> sandbox, id |-> k, decision |-> d])
  PROVE  BenchInv'
  <1> DEFINE made == call_count[sandbox]
             sampled == latencies[sandbox]
             unheard == silent[sandbox]
             executed == Bench!Entries(sandbox, "EXECUTED")
             failed == Bench!Entries(sandbox, "ERROR")
             refused == Bench!Entries(sandbox, "BLOCKED")
             ended == Bench!Entries(sandbox, "END")
  <1>1. /\ made \in Nat /\ sampled \in Nat /\ unheard \in Nat
        /\ call_count' = [call_count EXCEPT ![sandbox] = made]
        /\ latencies' = [latencies EXCEPT ![sandbox] = sampled]
        /\ silent' = [silent EXCEPT ![sandbox] = unheard]
        /\ executed \in Nat /\ failed \in Nat /\ refused \in Nat /\ ended \in Nat
        /\ Measured(session[sandbox], made, sampled - unheard, executed, failed, refused, ended)
    BY InUse
  <1>2. /\ session[sandbox] = here /\ session' = [session EXCEPT ![sandbox] = there]
        /\ sandbox' = sandbox /\ overhead' = overhead
    BY DEF Bench!Sandbox!At
  <1>3. d \in {"none", "START", "ALLOWED", "EXECUTED", "ERROR"}
    OBVIOUS
  <1> HIDE DEF made, sampled, unheard, executed, failed, refused, ended
  <1>4. executed + One(d = "EXECUTED") = executed /\ failed + One(d = "ERROR") = failed
    BY <1>1 DEF One
  <1>5. Measured(there, made, sampled - unheard, executed, failed, refused, ended)
    BY <1>1, <1>2 DEF Measured, InCall
  <1>6. Measured(there, made, sampled - unheard, executed + One(d = "EXECUTED"),
                 failed + One(d = "ERROR"), refused, ended)
    BY <1>4, <1>5
  <1>7. Measured(there, made, sampled - unheard,
                 Bench!Entries(sandbox, "EXECUTED") + One(d = "EXECUTED"),
                 Bench!Entries(sandbox, "ERROR") + One(d = "ERROR"),
                 Bench!Entries(sandbox, "BLOCKED"), Bench!Entries(sandbox, "END"))
    BY <1>6 DEF executed, failed, refused, ended
  <1>8. /\ made \in Nat /\ sampled \in Nat /\ unheard \in Nat
        /\ call_count' = [call_count EXCEPT ![sandbox] = made]
        /\ latencies' = [latencies EXCEPT ![sandbox] = sampled]
        /\ silent' = [silent EXCEPT ![sandbox] = unheard]
    BY <1>1
  <1>9. IF d = "none" THEN audit' = audit
        ELSE \E k \in Nat :
               audit' = Append(audit, [session |-> sandbox, id |-> k, decision |-> d])
    OBVIOUS
  <1>10. request_counter' \in [1 .. 4 -> Nat]
    OBVIOUS
  <1>11. unheard = silent[sandbox] \/ Bench!use_subprocess
    BY DEF unheard
  <1>12. BenchInv /\ sandbox \in 1 .. 4 /\ there \in Phases \ {"new", "closed"}
    OBVIOUS
  <1> HIDE DEF Phases
  <1> QED
    BY ONLY <1>2, <1>3, <1>7, <1>8, <1>9, <1>10, <1>11, <1>12, Turn, ZenonT(60)

(* A step inside a call that logs nothing. *)
LEMMA Quiet ==
  ASSUME BenchInv, sandbox \in 1 .. 4,
         NEW here \in InCall, NEW there \in InCall \cup {"raised"},
         Bench!Sandbox!At(sandbox, here, there),
         UNCHANGED <<call_count, latencies, silent, sandbox, overhead, request_counter>>,
         audit' = audit
  PROVE  BenchInv'
  <1>1. here \in Phases /\ there \in Phases \ {"new", "closed"}
    BY DEF Phases, InCall
  <1>2. request_counter' \in [1 .. 4 -> Nat]
    BY InUse
  <1>3. UNCHANGED <<call_count, latencies, silent, sandbox, overhead>>
    OBVIOUS
  <1>4. "none" \in {"none", "START", "ALLOWED"}
    OBVIOUS
  <1>5. IF "none" = "none" THEN audit' = audit
        ELSE \E k \in Nat :
               audit' = Append(audit, [session |-> sandbox, id |-> k, decision |-> "none"])
    OBVIOUS
  <1> HIDE DEF Phases, InCall
  <1> QED
    BY <1>1, <1>2, <1>3, <1>4, <1>5, QuietTurn

(* The sandbox is opened. *)
LEMMA BenchOpen ==
  ASSUME BenchInv, sandbox \in 1 .. 4, UNCHANGED Bench!bench, Bench!Sandbox!Open(sandbox)
  PROVE  BenchInv'
  <1>1. /\ Bench!Sandbox!At(sandbox, "new", "idle")
        /\ audit' = Append(audit, [session |-> sandbox, id |-> 0, decision |-> "START"])
        /\ UNCHANGED <<call_count, latencies, silent, sandbox, overhead>>
        /\ request_counter' = request_counter
    BY DEF Bench!Sandbox!Open, Bench!Sandbox!_write_entry, Bench!Sandbox!counts, Bench!bench
  <1>2. request_counter' \in [1 .. 4 -> Nat]
    BY <1>1, InUse
  <1>3. "new" \in Phases /\ "idle" \in Phases \ {"new", "closed"}
    BY DEF Phases
  <1>4. \E k \in Nat :
          audit' = Append(audit, [session |-> sandbox, id |-> k, decision |-> "START"])
    BY <1>1
  <1>5. "START" \in {"none", "START", "ALLOWED"} /\ "START" # "none"
    OBVIOUS
  <1> HIDE DEF Phases
  <1> QED
    BY <1>1, <1>2, <1>3, <1>4, <1>5, QuietTurn

(* It receives a call. *)
LEMMA BenchReceive ==
  ASSUME BenchInv, sandbox \in 1 .. 4, UNCHANGED Bench!bench, Bench!Sandbox!Receive(sandbox)
  PROVE  BenchInv'
  <1> DEFINE made == call_count[sandbox]
             sampled == latencies[sandbox]
             unheard == silent[sandbox]
             executed == Bench!Entries(sandbox, "EXECUTED")
             failed == Bench!Entries(sandbox, "ERROR")
             refused == Bench!Entries(sandbox, "BLOCKED")
             ended == Bench!Entries(sandbox, "END")
  <1>1. /\ made \in Nat /\ sampled \in Nat /\ unheard \in Nat
        /\ latencies = [latencies EXCEPT ![sandbox] = sampled]
        /\ silent = [silent EXCEPT ![sandbox] = unheard]
        /\ request_counter \in [1 .. 4 -> Nat]
        /\ executed \in Nat /\ failed \in Nat /\ refused \in Nat /\ ended \in Nat
        /\ Measured(session[sandbox], made, sampled - unheard, executed, failed, refused, ended)
    BY InUse
  <1>2. /\ Bench!Sandbox!At(sandbox, "idle", "checking")
        /\ call_count' = Bench!Sandbox!Inc(call_count, sandbox)
        /\ audit' = audit /\ request_counter' = request_counter
        /\ UNCHANGED <<latencies, silent, sandbox, overhead>>
        /\ Bench!Sandbox!more_calls(sandbox)
    BY DEF Bench!Sandbox!Receive, Bench!bench
  <1>3. made < iterations
    BY <1>2, BenchConstants
  <1>4. /\ session[sandbox] = "idle" /\ session' = [session EXCEPT ![sandbox] = "checking"]
        /\ call_count' = [call_count EXCEPT ![sandbox] = made + 1]
    BY <1>2 DEF Bench!Sandbox!At, Bench!Sandbox!Inc
  <1>5. /\ latencies' = [latencies EXCEPT ![sandbox] = sampled]
        /\ silent' = [silent EXCEPT ![sandbox] = unheard]
        /\ request_counter' \in [1 .. 4 -> Nat]
        /\ sandbox' = sandbox /\ overhead' = overhead
    BY <1>1, <1>2
  <1> HIDE DEF made, sampled, unheard, executed, failed, refused, ended
  <1>6. iterations \in Nat
    BY BenchConstants
  <1>7. Measured("checking", made + 1, sampled - unheard, executed + One("none" = "EXECUTED"),
                 failed + One("none" = "ERROR"), refused, ended)
    BY <1>1, <1>3, <1>4, <1>6 DEF Measured, InCall, One
  <1>8. Measured("checking", made + 1, sampled - unheard,
                 Bench!Entries(sandbox, "EXECUTED") + One("none" = "EXECUTED"),
                 Bench!Entries(sandbox, "ERROR") + One("none" = "ERROR"),
                 Bench!Entries(sandbox, "BLOCKED"), Bench!Entries(sandbox, "END"))
    BY <1>7 DEF executed, failed, refused, ended
  <1>9. /\ "checking" \in Phases \ {"new", "closed"} /\ made + 1 \in Nat
        /\ sampled \in Nat /\ unheard \in Nat
        /\ "none" \in {"none", "START", "ALLOWED", "EXECUTED", "ERROR"}
    BY <1>1 DEF Phases, InCall
  <1>10. IF "none" = "none" THEN audit' = audit
         ELSE \E k \in Nat :
                audit' = Append(audit, [session |-> sandbox, id |-> k, decision |-> "none"])
    BY <1>2
  <1>11. unheard = silent[sandbox] \/ Bench!use_subprocess
    BY DEF unheard
  <1> HIDE DEF Phases
  <1> QED
    BY <1>4, <1>5, <1>8, <1>9, <1>10, <1>11, Turn, ZenonT(40)

(* The tests are allowed, so that a call that is not cut off is let through. *)
LEMMA BenchDecide ==
  ASSUME BenchInv, sandbox \in 1 .. 4, UNCHANGED Bench!bench,
         Bench!Sandbox!Decide(sandbox, Bench!request)
  PROVE  BenchInv'
  <1>1. UNCHANGED <<call_count, latencies, silent, sandbox, overhead>>
    BY DEF Bench!Sandbox!Decide, Bench!Sandbox!counts, Bench!bench
  <1>2. CASE Bench!Sandbox!validation_raises(Bench!request)
    <2>1. /\ Bench!Sandbox!At(sandbox, "checking", "raised")
          /\ audit' = audit /\ request_counter' = request_counter
      BY <1>2 DEF Bench!Sandbox!Decide
    <2>2. "checking" \in InCall /\ "raised" \in InCall \cup {"raised"}
      BY DEF InCall
    <2> QED
      BY <1>1, <2>1, <2>2, Quiet
  <1>3. CASE ~Bench!Sandbox!validation_raises(Bench!request)
    <2>1. Bench!Sandbox!validate_tool_call(Bench!request)
      BY TestsAllowed
    <2>2. /\ Bench!Sandbox!log_decision(sandbox, TRUE)
          /\ Bench!Sandbox!At(sandbox, "checking", "allowed")
      BY <1>3, <2>1 DEF Bench!Sandbox!Decide, Bench!Sandbox!log_decision
    <2>3. request_counter \in [1 .. 4 -> Nat]
      BY InUse
    <2>4. /\ request_counter' = [request_counter EXCEPT ![sandbox] = @ + 1]
          /\ audit' = Append(audit, [session |-> sandbox, id |-> request_counter[sandbox] + 1,
                                     decision |-> "ALLOWED"])
      BY <2>2 DEF Bench!Sandbox!log_decision, Bench!Sandbox!_write_entry
    <2>5. /\ request_counter' \in [1 .. 4 -> Nat]
          /\ \E k \in Nat :
               audit' = Append(audit, [session |-> sandbox, id |-> k, decision |-> "ALLOWED"])
      <3>1. request_counter[sandbox] + 1 \in Nat
        BY <2>3
      <3>2. request_counter' \in [1 .. 4 -> Nat]
        BY <2>3, <2>4, <3>1
      <3> QED
        BY <2>4, <3>1, <3>2
    <2>6. /\ "checking" \in Phases /\ "allowed" \in Phases \ {"new", "closed"}
          /\ "checking" \in InCall /\ "allowed" \in InCall \cup {"raised"}
      BY DEF Phases, InCall
    <2>7. "ALLOWED" \in {"none", "START", "ALLOWED"} /\ "ALLOWED" # "none"
      OBVIOUS
    <2> HIDE DEF Phases, InCall
    <2> QED
      BY <1>1, <2>2, <2>5, <2>6, <2>7, QuietTurn
  <1> QED
    BY <1>2, <1>3

(* The tool runs, or does not come back. *)
LEMMA BenchTool ==
  ASSUME BenchInv, sandbox \in 1 .. 4, UNCHANGED Bench!bench,
         \/ Bench!Sandbox!StartTool(sandbox) \/ Bench!Sandbox!Failed(sandbox)
         \/ Bench!Sandbox!TimedOut(sandbox) \/ Bench!Sandbox!Raise(sandbox)
  PROVE  BenchInv'
  <1>1. /\ UNCHANGED <<call_count, latencies, silent, sandbox, overhead, request_counter>>
        /\ audit' = audit
    BY DEF Bench!Sandbox!StartTool, Bench!Sandbox!Failed, Bench!Sandbox!TimedOut,
           Bench!Sandbox!Raise, Bench!Sandbox!counts, Bench!bench
  <1>2. \/ Bench!Sandbox!At(sandbox, "allowed", "tool")
        \/ Bench!Sandbox!At(sandbox, "tool", "failed")
        \/ Bench!Sandbox!At(sandbox, "tool", "raised")
    BY DEF Bench!Sandbox!StartTool, Bench!Sandbox!Failed, Bench!Sandbox!TimedOut,
           Bench!Sandbox!Raise
  <1>3. "allowed" \in InCall /\ "tool" \in InCall /\ "failed" \in InCall
    BY DEF InCall
  <1> QED
    BY <1>1, <1>2, <1>3, Quiet

(* Ctrl-C, in a call or between two. *)
LEMMA BenchInterrupt ==
  ASSUME BenchInv, sandbox \in 1 .. 4, UNCHANGED Bench!bench,
         Bench!Sandbox!Interrupt(sandbox)
  PROVE  BenchInv'
  <1> DEFINE here == session[sandbox]
  <1>1. /\ UNCHANGED <<call_count, latencies, silent, sandbox, overhead, request_counter>>
        /\ audit' = audit
    BY DEF Bench!Sandbox!Interrupt, Bench!Sandbox!counts, Bench!bench
  <1>2. here \in Phases \ {"new", "raised", "closed"}
    BY DEF Bench!Sandbox!Interrupt, BenchInv, BenchType, Phases, InCall
  <1>3. Bench!Sandbox!At(sandbox, here, "raised")
    BY DEF Bench!Sandbox!Interrupt, Bench!Sandbox!At
  <1> HIDE DEF here
  <1>4. CASE here = "idle"
    <2>1. here \in Phases /\ "raised" \in Phases \ {"new", "closed"}
      BY <1>2 DEF Phases
    <2>2. request_counter' \in [1 .. 4 -> Nat]
      BY <1>1, InUse
    <2>3. IF "none" = "none" THEN audit' = audit
          ELSE \E k \in Nat :
                 audit' = Append(audit, [session |-> sandbox, id |-> k, decision |-> "none"])
      BY <1>1
    <2>4. UNCHANGED <<call_count, latencies, silent, sandbox, overhead>>
      BY <1>1
    <2>5. "none" \in {"none", "START", "ALLOWED"}
      OBVIOUS
    <2> HIDE DEF Phases, InCall
    <2> QED
      BY <1>3, <1>4, <2>1, <2>2, <2>3, <2>4, <2>5, QuietTurn
  <1>5. CASE here # "idle"
    <2>1. here \in InCall /\ "raised" \in InCall \cup {"raised"}
      BY <1>2, <1>5 DEF Phases
    <2> QED
      BY <1>1, <1>3, <2>1, Quiet
  <1> QED
    BY <1>4, <1>5

(* No call is refused. *)
LEMMA BenchNotRefused ==
  ASSUME BenchInv, sandbox \in 1 .. 4
  PROVE  ~Bench!Sandbox!RateLimited(sandbox) /\ ~Bench!Sandbox!Blocked(sandbox)
  <1>1. session[sandbox] \notin {"limited", "blocked"}
    BY DEF BenchInv, BenchType, Phases, InCall
  <1>2. ~Bench!Sandbox!over_limit(sandbox)
    <2>1. call_count[sandbox] \in Nat /\ call_count[sandbox] <= iterations
      BY InUse DEF Measured
    <2> QED
      BY <2>1, BenchConstants
  <1> QED
    BY <1>1, <1>2 DEF Bench!Sandbox!RateLimited, Bench!Sandbox!Blocked, Bench!Sandbox!At

(* An outcome is logged, and its latency kept if it is a result. *)
LEMMA BenchSample ==
  ASSUME BenchInv, Bench!Sample
  PROVE  BenchInv'
  <1>0. sandbox \in 1 .. 4
    BY BenchConstants DEF Bench!Sample, Bench!Running
  <1> DEFINE made == call_count[sandbox]
             sampled == latencies[sandbox]
             unheard == silent[sandbox]
             executed == Bench!Entries(sandbox, "EXECUTED")
             failed == Bench!Entries(sandbox, "ERROR")
             refused == Bench!Entries(sandbox, "BLOCKED")
             ended == Bench!Entries(sandbox, "END")
  <1>1. /\ made \in Nat /\ sampled \in Nat /\ unheard \in Nat
        /\ call_count = [call_count EXCEPT ![sandbox] = made]
        /\ request_counter \in [1 .. 4 -> Nat] /\ request_counter[sandbox] \in Nat
        /\ executed \in Nat /\ failed \in Nat /\ refused \in Nat /\ ended \in Nat
        /\ Measured(session[sandbox], made, sampled - unheard, executed, failed, refused, ended)
    BY <1>0, InUse
  <1>2. PICK d \in {"EXECUTED", "ERROR"}, here \in {"tool", "failed"}, textless \in BOOLEAN :
          /\ Bench!Sandbox!At(sandbox, here, "idle")
          /\ Bench!Sandbox!log_execution(sandbox, d)
          /\ UNCHANGED <<call_count, request_counter>>
          /\ Bench!Measure(d = "EXECUTED" \/ textless, textless)
          /\ textless => d = "ERROR" /\ Bench!use_subprocess
    <2>1. CASE Bench!Sandbox!Executed(sandbox) /\ Bench!Measure(TRUE, FALSE)
      <3>1. Bench!Measure("EXECUTED" = "EXECUTED" \/ FALSE, FALSE)
        BY <2>1 DEF Bench!Measure
      <3> QED
        BY <2>1, <3>1 DEF Bench!Sandbox!Executed, Bench!Sandbox!counts
    <2>2. ASSUME NEW textless \in {FALSE, Bench!use_subprocess},
                 Bench!Sandbox!LogError(sandbox), Bench!Measure(textless, textless)
          PROVE  /\ Bench!Sandbox!At(sandbox, "failed", "idle")
                 /\ Bench!Sandbox!log_execution(sandbox, "ERROR")
                 /\ UNCHANGED <<call_count, request_counter>>
                 /\ Bench!Measure("ERROR" = "EXECUTED" \/ textless, textless)
                 /\ textless \in BOOLEAN
                 /\ textless => "ERROR" = "ERROR" /\ Bench!use_subprocess
      <3>1. textless \in BOOLEAN /\ (textless => Bench!use_subprocess)
        BY DEF Bench!use_subprocess
      <3>2. Bench!Measure("ERROR" = "EXECUTED" \/ textless, textless)
        BY <2>2, <3>1 DEF Bench!Measure
      <3> QED
        BY <2>2, <3>1, <3>2 DEF Bench!Sandbox!LogError, Bench!Sandbox!counts
    <2> QED
      BY <2>1, <2>2 DEF Bench!Sample
  <1> DEFINE more == One(d = "EXECUTED" \/ textless)
             mute == One(textless)
  <1>3. /\ session[sandbox] = here /\ session' = [session EXCEPT ![sandbox] = "idle"]
        /\ latencies' = [latencies EXCEPT ![sandbox] = sampled + more]
        /\ silent' = [silent EXCEPT ![sandbox] = unheard + mute]
        /\ sandbox' = sandbox /\ overhead' = overhead
    <2>1. latencies \in [1 .. 4 -> Nat] /\ silent \in [1 .. 4 -> Nat]
      BY DEF BenchInv, BenchType
    <2>2. session[sandbox] = here /\ session' = [session EXCEPT ![sandbox] = "idle"]
      BY <1>2 DEF Bench!Sandbox!At
    <2>3. /\ latencies' = [latencies EXCEPT ![sandbox] =
                             IF d = "EXECUTED" \/ textless THEN @ + 1 ELSE @]
          /\ silent' = [silent EXCEPT ![sandbox] = IF textless THEN @ + 1 ELSE @]
          /\ sandbox' = sandbox /\ overhead' = overhead
      BY <1>2 DEF Bench!Measure
    <2>4. /\ (IF d = "EXECUTED" \/ textless THEN latencies[sandbox] + 1 ELSE latencies[sandbox])
               = sampled + more
          /\ (IF textless THEN silent[sandbox] + 1 ELSE silent[sandbox]) = unheard + mute
      BY <1>1 DEF One
    <2>5. /\ latencies' = [latencies EXCEPT ![sandbox] = sampled + more]
          /\ silent' = [silent EXCEPT ![sandbox] = unheard + mute]
      <3> HIDE DEF sampled, unheard, more, mute
      <3> QED
        BY <1>0, <2>1, <2>3, <2>4
    <2> QED
      BY <2>2, <2>3, <2>5
  <1>4. /\ call_count' = [call_count EXCEPT ![sandbox] = made]
        /\ request_counter' \in [1 .. 4 -> Nat]
    BY <1>1, <1>2
  <1>5. \E k \in Nat : audit' = Append(audit, [session |-> sandbox, id |-> k, decision |-> d])
    BY <1>1, <1>2 DEF Bench!Sandbox!log_execution, Bench!Sandbox!_write_entry
  <1>6. unheard + mute = silent[sandbox] \/ Bench!use_subprocess
    BY <1>1, <1>2 DEF One
  <1> HIDE DEF made, sampled, unheard, executed, failed, refused, ended
  <1>7. here \in InCall /\ "idle" \notin InCall
    BY DEF InCall
  <1>8. /\ more \in Nat /\ mute \in Nat
        /\ (sampled + more) - (unheard + mute) = (sampled - unheard) + One(d = "EXECUTED")
    BY <1>1, <1>2 DEF One
  <1>9. Measured("idle", made, (sampled - unheard) + One(d = "EXECUTED"),
                 executed + One(d = "EXECUTED"), failed + One(d = "ERROR"), refused, ended)
    BY <1>1, <1>3, <1>7 DEF Measured, One, InCall
  <1> HIDE DEF more, mute
  <1>10. Measured("idle", made, (sampled + more) - (unheard + mute),
                  Bench!Entries(sandbox, "EXECUTED") + One(d = "EXECUTED"),
                  Bench!Entries(sandbox, "ERROR") + One(d = "ERROR"),
                  Bench!Entries(sandbox, "BLOCKED"), Bench!Entries(sandbox, "END"))
    BY <1>8, <1>9 DEF executed, failed, refused, ended
  <1>11. /\ "idle" \in Phases \ {"new", "closed"} /\ made \in Nat
         /\ sampled + more \in Nat /\ unheard + mute \in Nat
         /\ d \in {"none", "START", "ALLOWED", "EXECUTED", "ERROR"} /\ d # "none"
    BY <1>1, <1>8 DEF Phases
  <1> HIDE DEF Phases
  <1> QED
    BY <1>0, <1>3, <1>4, <1>5, <1>6, <1>10, <1>11, Turn, ZenonT(40)

(* The sandbox in use is closed, and the test compared when it is its second. *)
LEMMA BenchClose ==
  ASSUME BenchInv, Bench!Close
  PROVE  BenchInv'
  <1>0. sandbox \in 1 .. 4
    BY BenchConstants DEF Bench!Close, Bench!Running
  <1>1. /\ latencies \in [1 .. 4 -> Nat] /\ call_count \in [1 .. 4 -> Nat]
        /\ request_counter \in [1 .. 4 -> Nat]
        /\ session \in [1 .. 4 -> Phases] /\ audit \in Seq(LogEntry) /\ overhead \subseteq 1 .. 2
        /\ silent \in [1 .. 4 -> Nat]
        /\ \A s \in 1 .. 4 : InTurn(session[s], s) /\ MeasuredIn(s)
    BY DEF BenchInv, BenchType
  <1>2. /\ session[sandbox] = "idle" /\ session' = [session EXCEPT ![sandbox] = "closed"]
        /\ sandbox' = sandbox + 1
        /\ audit' = Append(audit, [session |-> sandbox, id |-> 0, decision |-> "END"])
        /\ latencies' = latencies /\ silent' = silent /\ call_count' = call_count
        /\ request_counter' = request_counter
        /\ ~Bench!Sandbox!more_calls(sandbox)
    BY DEF Bench!Close, Bench!Sandbox!Close, Bench!Sandbox!close, Bench!Sandbox!_write_entry,
           Bench!Sandbox!counts
  <1>3. call_count[sandbox] >= iterations /\ iterations \in Nat
    <2>1. ~(call_count[sandbox] < iterations) /\ iterations \in Nat
      BY <1>2, BenchConstants
    <2>2. call_count[sandbox] \in Nat
      BY <1>0, <1>1
    <2> QED
      BY <2>1, <2>2
  <1>4. /\ audit' \in Seq(LogEntry)
        /\ \A s, kind : s # sandbox => Bench!Entries(s, kind)' = Bench!Entries(s, kind)
        /\ \A kind \in {"EXECUTED", "ERROR", "BLOCKED", "END"} :
             \A s : s = sandbox =>
               /\ Bench!Entries(s, kind) \in Nat
               /\ Bench!Entries(s, kind)' = Bench!Entries(s, kind) + One("END" = kind)
    <2>1. /\ "END" \in {"none", "START", "ALLOWED", "EXECUTED", "ERROR", "END"}
          /\ IF "END" = "none" THEN audit' = audit
             ELSE \E k \in Nat :
                    audit' = Append(audit, [session |-> sandbox, id |-> k, decision |-> "END"])
      BY <1>2
    <2> QED
      BY <1>0, <1>1, <2>1, EntriesWritten
  <1>5. BenchType'
    <2>1. sandbox' \in 1 .. 5
      BY <1>0, <1>2
    <2>2. session' \in [1 .. 4 -> Phases]
      BY <1>1, <1>2 DEF Phases
    <2>3. overhead' \subseteq 1 .. 2
      <3>1. ~Bench!use_subprocess => sandbox \div 2 \in 1 .. 2
        BY <1>0 DEF Bench!use_subprocess
      <3> QED
        BY <1>1, <3>1 DEF Bench!Close
    <2> QED
      BY <1>1, <1>2, <1>4, <2>1, <2>2, <2>3 DEF BenchType
  <1>6. \A s \in 1 .. 4 :
          session'[s] = IF s = sandbox THEN "closed" ELSE session[s]
    BY <1>1, <1>2
  <1>7. ASSUME NEW s \in 1 .. 4 PROVE InTurn(session[s], s)'
    <2>1. s < sandbox' <=> s < sandbox \/ s = sandbox
      BY <1>0, <1>2
    <2>2. s > sandbox' => s > sandbox
      BY <1>0, <1>2
    <2> QED
      BY <1>0, <1>1, <1>6, <2>1, <2>2 DEF InTurn
  <1>8. ASSUME NEW s \in 1 .. 4 PROVE MeasuredIn(s)'
    <2>1. CASE s = sandbox
      <3>1. /\ Bench!Entries(s, "EXECUTED")' = Bench!Entries(s, "EXECUTED")
            /\ Bench!Entries(s, "ERROR")' = Bench!Entries(s, "ERROR")
            /\ Bench!Entries(s, "BLOCKED")' = Bench!Entries(s, "BLOCKED")
            /\ Bench!Entries(s, "END")' = Bench!Entries(s, "END") + 1
        <4>1. \A kind \in {"EXECUTED", "ERROR", "BLOCKED"} : One("END" = kind) = 0
          BY DEF One
        <4>2. One("END" = "END") = 1
          BY DEF One
        <4>3. /\ Bench!Entries(s, "EXECUTED") \in Nat /\ Bench!Entries(s, "ERROR") \in Nat
              /\ Bench!Entries(s, "BLOCKED") \in Nat
          BY <1>4, <2>1
        <4>4. /\ Bench!Entries(s, "EXECUTED")' =
                   Bench!Entries(s, "EXECUTED") + One("END" = "EXECUTED")
              /\ Bench!Entries(s, "ERROR")' = Bench!Entries(s, "ERROR") + One("END" = "ERROR")
              /\ Bench!Entries(s, "BLOCKED")' =
                   Bench!Entries(s, "BLOCKED") + One("END" = "BLOCKED")
              /\ Bench!Entries(s, "END")' = Bench!Entries(s, "END") + One("END" = "END")
          BY <1>4, <2>1
        <4> QED
          BY <4>1, <4>2, <4>3, <4>4
      <3>2. /\ MeasuredIn(s) /\ session[s] = "idle" /\ session'[s] = "closed"
            /\ call_count[s] >= iterations /\ call_count[s] \in Nat
            /\ call_count'[s] = call_count[s] /\ latencies'[s] = latencies[s]
            /\ silent'[s] = silent[s] /\ latencies[s] \in Nat /\ silent[s] \in Nat
        BY <1>1, <1>2, <1>3, <1>6, <2>1
      <3>3. /\ latencies[s] - silent[s] = Bench!Entries(s, "EXECUTED")
            /\ Bench!Entries(s, "BLOCKED") = 0
            /\ Bench!Entries(s, "END") = 0 /\ call_count[s] <= iterations
            /\ Bench!Entries(s, "EXECUTED") + Bench!Entries(s, "ERROR") + 0 = call_count[s]
        BY <3>2 DEF MeasuredIn, Measured, InCall
      <3>4. Measured("closed", call_count'[s], latencies'[s] - silent'[s],
                     Bench!Entries(s, "EXECUTED")', Bench!Entries(s, "ERROR")',
                     Bench!Entries(s, "BLOCKED")', Bench!Entries(s, "END")')
        BY <1>3, <3>1, <3>2, <3>3 DEF Measured, InCall
      <3>5. Measured(session'[s], call_count'[s], latencies'[s] - silent'[s],
                     Bench!Entries(s, "EXECUTED")', Bench!Entries(s, "ERROR")',
                     Bench!Entries(s, "BLOCKED")', Bench!Entries(s, "END")')
        BY <3>2, <3>4
      <3> QED
        BY <3>5 DEF MeasuredIn, Measured
    <2>2. CASE s # sandbox
      <3>1. MeasuredIn(s) /\ \A kind : Bench!Entries(s, kind)' = Bench!Entries(s, kind)
        <4>1. MeasuredIn(s)
          BY <1>1
        <4>2. \A kind : Bench!Entries(s, kind)' = Bench!Entries(s, kind)
          BY <1>4, <2>2
        <4> QED
          BY <4>1, <4>2
      <3>2. /\ session'[s] = session[s]
            /\ call_count'[s] = call_count[s] /\ latencies'[s] = latencies[s]
            /\ silent'[s] = silent[s]
        BY <1>2, <1>6, <2>2
      <3> QED
        BY <3>1, <3>2 DEF MeasuredIn, Measured
    <2> QED
      BY <2>1, <2>2
  <1>9. Compared'
    <2>1. ASSUME NEW test \in 1 .. 2
          PROVE  test \in overhead' <=> /\ session'[2 * test] = "closed"
                                        /\ latencies'[2 * test - 1] > 0
                                        /\ latencies'[2 * test] > 0
      <3>1. /\ 2 * test \in 1 .. 4
            /\ test \in overhead <=> /\ session[2 * test] = "closed"
                                     /\ latencies[2 * test - 1] > 0
                                     /\ latencies[2 * test] > 0
        BY DEF BenchInv, Compared
      <3>2. CASE sandbox = 2 * test
        <4>1. ~Bench!use_subprocess /\ sandbox \div 2 = test /\ sandbox - 1 = 2 * test - 1
          BY <3>2 DEF Bench!use_subprocess
        <4>2. session[2 * test] # "closed" /\ session'[2 * test] = "closed"
          BY <1>2, <1>6, <3>1, <3>2
        <4>3. overhead' = IF latencies[2 * test - 1] > 0 /\ latencies[2 * test] > 0
                          THEN overhead \cup {test} ELSE overhead
          BY <3>2, <4>1 DEF Bench!Close
        <4> QED
          BY <1>2, <3>1, <4>2, <4>3
      <3>3. CASE sandbox # 2 * test
        <4>1. test \in overhead' <=> test \in overhead
          <5>1. ~Bench!use_subprocess => sandbox \div 2 # test
            BY <1>0, <3>3 DEF Bench!use_subprocess
          <5> QED
            BY <5>1 DEF Bench!Close
        <4> QED
          BY <1>2, <1>6, <3>1, <3>3, <4>1
      <3> QED
        BY <3>2, <3>3
    <2> QED
      BY <2>1 DEF Compared
  <1>10. Heard'
    BY <1>2 DEF BenchInv, Heard
  <1> QED
    BY <1>5, <1>7, <1>8, <1>9, <1>10 DEF BenchInv

(* A step that is of no concern to the benchmark. *)
LEMMA BenchUnchanged ==
  ASSUME BenchInv,
         UNCHANGED <<sandbox, latencies, silent, overhead, session, call_count, request_counter,
                     audit>>
  PROVE  BenchInv'
  <1>1. BenchType'
    BY DEF BenchInv, BenchType
  <1>2. \A s, kind : Bench!Entries(s, kind)' = Bench!Entries(s, kind)
    BY DEF Bench!Entries
  <1>3. \A s \in 1 .. 4 : InTurn(session[s], s)'
    BY DEF BenchInv, InTurn
  <1>4. \A s \in 1 .. 4 : MeasuredIn(s)'
    BY <1>2 DEF BenchInv, MeasuredIn, Measured
  <1>5. Compared' /\ Heard'
    BY DEF BenchInv, Compared, Heard
  <1> QED
    BY <1>1, <1>3, <1>4, <1>5 DEF BenchInv

(* At first no sandbox is in use. *)
LEMMA BenchInit == Bench!Init => BenchInv
  <1> SUFFICES ASSUME Bench!Init PROVE BenchInv
    OBVIOUS
  <1>1. /\ sandbox = 1 /\ latencies = [s \in 1 .. 4 |-> 0] /\ overhead = {}
        /\ silent = [s \in 1 .. 4 |-> 0]
        /\ session = [s \in 1 .. 4 |-> "new"] /\ call_count = [s \in 1 .. 4 |-> 0]
        /\ request_counter = [s \in 1 .. 4 |-> 0] /\ audit = <<>>
    BY BenchConstants DEF Bench!Init, Bench!Sandbox!Init
  <1>2. BenchType
    BY <1>1 DEF BenchType, Phases
  <1>3. \A s, kind : Bench!Entries(s, kind) = 0
    <2> TAKE s, kind
    <2>1. {k \in DOMAIN audit : audit[k].session = s /\ audit[k].decision = kind} = {}
      BY <1>1
    <2> QED
      BY <2>1, SameEntries, FS_EmptySet
  <1>4. \A s \in 1 .. 4 : InTurn(session[s], s)
    BY <1>1 DEF InTurn
  <1>5. \A s \in 1 .. 4 : MeasuredIn(s)
    <2>1. iterations \in Nat
      BY BenchConstants
    <2> QED
      BY <1>1, <1>3, <2>1 DEF MeasuredIn, Measured, InCall
  <1>6. Compared /\ Heard
    BY <1>1 DEF Compared, Heard
  <1> QED
    BY <1>2, <1>4, <1>5, <1>6 DEF BenchInv

(* A step keeps the invariant. *)
LEMMA BenchStep == BenchInv /\ [Next]_vars => BenchInv'
  <1> SUFFICES ASSUME BenchInv, [Next]_vars PROVE BenchInv'
    OBVIOUS
  <1>1. CASE UNCHANGED bench
    BY <1>1, BenchUnchanged DEF bench
  <1>2. CASE Bench!Execute
    <2>1. sandbox \in 1 .. 4 /\ UNCHANGED Bench!bench
      BY <1>2, BenchConstants DEF Bench!Execute, Bench!Running
    <2>2. \/ Bench!Sandbox!Open(sandbox) \/ Bench!Sandbox!Receive(sandbox)
          \/ Bench!Sandbox!RateLimited(sandbox) \/ Bench!Sandbox!Decide(sandbox, Bench!request)
          \/ Bench!Sandbox!Blocked(sandbox)
          \/ Bench!Sandbox!StartTool(sandbox) \/ Bench!Sandbox!Failed(sandbox)
          \/ Bench!Sandbox!TimedOut(sandbox) \/ Bench!Sandbox!Raise(sandbox)
          \/ Bench!Sandbox!Interrupt(sandbox)
      BY <1>2 DEF Bench!Execute
    <2>3. ~Bench!Sandbox!RateLimited(sandbox) /\ ~Bench!Sandbox!Blocked(sandbox)
      BY <2>1, BenchNotRefused
    <2> QED
      BY <2>1, <2>2, <2>3, BenchOpen, BenchReceive, BenchDecide, BenchTool,
         BenchInterrupt
  <1>3. CASE Bench!Sample
    BY <1>3, BenchSample
  <1>4. CASE Bench!Close
    BY <1>4, BenchClose
  <1>5. CASE Bench!Crash
    BY <1>5, BenchUnchanged DEF Bench!Crash, Bench!execution
  <1>6. CASE \E t \in alive : Bench!Sandbox!OrphanEnds(t) /\ UNCHANGED Bench!bench
    <2>1. UNCHANGED <<sandbox, latencies, silent, overhead, session, call_count,
                      request_counter, audit>>
      BY <1>6 DEF Bench!Sandbox!OrphanEnds, Bench!bench, Bench!Sandbox!counts
    <2> QED
      BY <2>1, BenchUnchanged
  <1>7. Next => RunBenchmark \/ UNCHANGED bench
    BY DEF Next, RunQs, ProbeRuns, RunPercentiles, RunFairness, RunCluster, RunThrottling
  <1>8. UNCHANGED vars => UNCHANGED bench
    BY DEF vars
  <1> QED
    BY <1>1, <1>2, <1>3, <1>4, <1>5, <1>6, <1>7, <1>8 DEF RunBenchmark, Bench!Next

(* The invariant. *)
LEMMA BenchHolds == Spec => []BenchInv
  <1>1. Init => BenchInv
    BY BenchInit DEF Init
  <1> QED
    BY <1>1, BenchStep, PTL DEF Spec

(* However the calls of the tests end, in each sandbox as many latencies   *)
(* are compared as results and failures without a text were logged, and    *)
(* without a process as results only; no call was refused; and an overhead *)
(* is printed exactly for the tests with latencies both ways: for every    *)
(* number of iterations.                                                   *)
THEOREM BenchmarkComparesResults == Spec => []SamplesAreResults
  <1>1. BenchInv => SamplesAreResults
    <2> SUFFICES ASSUME BenchInv PROVE SamplesAreResults
      OBVIOUS
    <2>1. Bench!sandboxes = 1 .. 4 /\ DOMAIN Tests = 1 .. 2
      BY BenchConstants
    <2>2. ASSUME NEW s \in 1 .. 4
          PROVE  /\ latencies[s] = Bench!Entries(s, "EXECUTED") + silent[s]
                 /\ Bench!Entries(s, "BLOCKED") = 0
                 /\ Bench!Entries(s, "END") = 1 <=> session[s] = "closed"
      <3>1. MeasuredIn(s)
        BY DEF BenchInv
      <3>2. latencies[s] \in Nat /\ silent[s] \in Nat /\ Bench!Entries(s, "EXECUTED") \in Nat
        BY EntriesInNat DEF BenchInv, BenchType
      <3>3. /\ latencies[s] - silent[s] = Bench!Entries(s, "EXECUTED")
            /\ Bench!Entries(s, "BLOCKED") = 0
            /\ Bench!Entries(s, "END") = IF session[s] = "closed" THEN 1 ELSE 0
        BY <3>1 DEF MeasuredIn, Measured
      <3> QED
        BY <3>2, <3>3
    <2>3. ASSUME NEW s \in 1 .. 4, Bench!Entries(s, "END") = 1
          PROVE  latencies[s] + Bench!Entries(s, "ERROR") = iterations + silent[s]
      <3>1. session[s] = "closed" /\ MeasuredIn(s)
        BY <2>2, <2>3 DEF BenchInv
      <3>2. /\ latencies[s] \in Nat /\ silent[s] \in Nat
            /\ Bench!Entries(s, "ERROR") \in Nat /\ Bench!Entries(s, "EXECUTED") \in Nat
        BY EntriesInNat DEF BenchInv, BenchType
      <3>3. /\ Bench!Entries(s, "EXECUTED") + Bench!Entries(s, "ERROR") + 0 = call_count[s]
            /\ call_count[s] = iterations
        BY <3>1 DEF MeasuredIn, Measured, InCall
      <3> QED
        BY <2>2, <3>2, <3>3
    <2>4. ASSUME NEW test \in 1 .. 2
          PROVE  /\ silent[2 * test] = 0
                 /\ test \in overhead <=> /\ Bench!Entries(2 * test, "END") = 1
                                          /\ latencies[2 * test - 1] > 0
                                          /\ Bench!Entries(2 * test, "EXECUTED") > 0
      <3>1. 2 * test \in 1 .. 4
        OBVIOUS
      <3>2. test \in overhead <=> /\ session[2 * test] = "closed"
                                  /\ latencies[2 * test - 1] > 0
                                  /\ latencies[2 * test] > 0
        BY DEF BenchInv, Compared
      <3>3. silent[2 * test] = 0
        BY DEF BenchInv, Heard
      <3>4. latencies[2 * test] = Bench!Entries(2 * test, "EXECUTED")
        <4>1. Bench!Entries(2 * test, "EXECUTED") \in Nat
          BY EntriesInNat DEF BenchInv, BenchType
        <4> QED
          BY <2>2, <3>1, <3>3, <4>1
      <3> QED
        BY <2>2, <3>1, <3>2, <3>3, <3>4
    <2> QED
      BY <2>1, <2>2, <2>3, <2>4 DEF SamplesAreResults, Bench!SamplesAreResults
  <1> QED
    BY <1>1, BenchHolds, PTL

------------------------------------------------------------------------------
(* scheduler_sim.py.  A timeline a is the sequence of what was placed on   *)
(* one machine; its spans overlap, and are in the order of placement.      *)

(* A span of a timeline. *)
Alloc == [start : Nat, end : Nat, cpu : Nat, mem : Nat]

cpuOf(a) == [k \in DOMAIN a |-> a[k].cpu]
memOf(a) == [k \in DOMAIN a |-> a[k].mem]

(* What ends after t, as can_fit counts it, and what runs at t. *)
Ending(a, t)  == {k \in DOMAIN a : a[k].end > t}
Running(a, t) == {k \in DOMAIN a : a[k].start <= t /\ t < a[k].end}

(* The job fits beside what has not ended at t. *)
Fits(a, job, t) ==
  /\ Sum(cpuOf(a), Ending(a, t)) + job.cpu <= total_cpu
  /\ Sum(memOf(a), Ending(a, t)) + job.mem <= total_mem

(* What the assumptions say of machines and jobs. *)
LEMMA ClusterConstants ==
  /\ IsFiniteSet(Machines) /\ Machines # {}
  /\ total_cpu \in Nat \ {0} /\ total_mem \in Nat /\ width \in Nat \ {0}
  /\ \A job \in Jobs :
       /\ job.submit_time \in Nat /\ job.duration \in Nat /\ job.mem \in Nat
       /\ job.cpu \in Nat \ {0} /\ job.nodes_required \in Nat \ {0}
       /\ job.cpu <= total_cpu /\ job.mem <= total_mem
  <1>1. Cluster!ClusterAssumption
    BY ToolsAssumption
  <1>2. Cluster!IsFiniteSet(Machines) => IsFiniteSet(Machines)
    BY DEF Cluster!IsFiniteSet, IsFiniteSet
  <1> QED
    BY <1>1, <1>2 DEF Cluster!ClusterAssumption

(* The sum of the model is Sum. *)
LEMMA ClusterSum ==
  ASSUME NEW f, NEW D, D = DOMAIN f, IsFiniteSet(D), \A x \in D : f[x] \in Int
  PROVE  Cluster!SumFunction(f) = Sum(f, D)
  <1> DEFINE g == CHOOSE h : h = [S \in SUBSET D |->
                               IF S = {} THEN 0
                               ELSE f[CHOOSE x \in S : TRUE] + h[S \ {CHOOSE x \in S : TRUE}]]
  <1>1. Cluster!SumFunctionOnSet(f, D) = g[D]
    BY DEF Cluster!SumFunctionOnSet, Cluster!FoldFunctionOnSet, Cluster!MapThenFoldSet
  <1>2. g = CHOOSE h : h = [S \in SUBSET D |->
                               IF S = {} THEN 0
                               ELSE f[CHOOSE x \in S : TRUE] + h[S \ {CHOOSE x \in S : TRUE}]]
    OBVIOUS
  <1> HIDE DEF g
  <1>3. g[D] = Sum(f, D)
    BY <1>2, FoldIsSum
  <1> QED
    BY <1>1, <1>3 DEF Cluster!SumFunction

(* The sums of a timeline are natural numbers. *)
LEMMA Timeline ==
  ASSUME NEW a \in Seq(Alloc)
  PROVE  /\ IsFiniteSet(DOMAIN a)
         /\ \A k \in DOMAIN a : /\ a[k] \in Alloc /\ cpuOf(a)[k] \in Nat /\ memOf(a)[k] \in Nat
                                /\ a[k].start \in Nat /\ a[k].end \in Nat
         /\ \A t : /\ IsFiniteSet(Ending(a, t)) /\ Ending(a, t) \subseteq DOMAIN a
                   /\ IsFiniteSet(Running(a, t)) /\ Running(a, t) \subseteq DOMAIN a
                   /\ Sum(cpuOf(a), Ending(a, t)) \in Nat /\ Sum(memOf(a), Ending(a, t)) \in Nat
                   /\ Sum(cpuOf(a), Running(a, t)) \in Nat /\ Sum(memOf(a), Running(a, t)) \in Nat
  <1>1. DOMAIN a = 1 .. Len(a) /\ Len(a) \in Int
    OBVIOUS
  <1>2. IsFiniteSet(DOMAIN a)
    BY <1>1, FS_Interval
  <1>3. \A k \in DOMAIN a : /\ a[k] \in Alloc /\ cpuOf(a)[k] \in Nat /\ memOf(a)[k] \in Nat
                            /\ a[k].start \in Nat /\ a[k].end \in Nat
    <2> TAKE k \in DOMAIN a
    <2>1. a[k] \in Alloc
      BY <1>1
    <2>2. a[k].start \in Nat /\ a[k].end \in Nat /\ a[k].cpu \in Nat /\ a[k].mem \in Nat
      BY <2>1 DEF Alloc
    <2> QED BY <2>1, <2>2 DEF cpuOf, memOf
  <1>4. ASSUME NEW t
        PROVE  /\ Ending(a, t) \subseteq DOMAIN a /\ Running(a, t) \subseteq DOMAIN a
               /\ IsFiniteSet(Ending(a, t)) /\ IsFiniteSet(Running(a, t))
    <2>1. Ending(a, t) \in SUBSET DOMAIN a /\ Running(a, t) \in SUBSET DOMAIN a
      BY DEF Ending, Running
    <2> QED BY <1>2, <2>1, FS_Subset
  <1>5. ASSUME NEW S, S \subseteq DOMAIN a, IsFiniteSet(S)
        PROVE  Sum(cpuOf(a), S) \in Nat /\ Sum(memOf(a), S) \in Nat
    <2>1. (\A x \in S : cpuOf(a)[x] \in Nat) /\ \A x \in S : memOf(a)[x] \in Nat
      BY <1>3, <1>5
    <2> QED BY <1>5, <2>1, SumNat
  <1> QED BY <1>2, <1>3, <1>4, <1>5

(* can_fit says whether the job fits. *)
LEMMA CanFit ==
  ASSUME _allocs \in [Machines -> Seq(Alloc)], NEW m \in Machines, NEW job \in Jobs, NEW t \in Nat
  PROVE  Cluster!can_fit(m, job, t) <=> Fits(_allocs[m], job, t)
  <1> DEFINE a == _allocs[m]
             E == Ending(a, t)
  <1>1. a \in Seq(Alloc)
    OBVIOUS
  <1>2. Cluster!used(m, t) = E
    BY DEF Cluster!used, Ending
  <1> HIDE DEF a
  <1>3. IsFiniteSet(E) /\ E \subseteq DOMAIN a
    BY <1>1, Timeline
  <1>4. (\A k \in E : a[k].cpu \in Int) /\ \A k \in E : a[k].mem \in Int
    <2>1. \A k \in E : cpuOf(a)[k] \in Nat /\ memOf(a)[k] \in Nat
      BY <1>1, <1>3, Timeline
    <2>2. \A k \in DOMAIN a : cpuOf(a)[k] = a[k].cpu /\ memOf(a)[k] = a[k].mem
      BY DEF cpuOf, memOf
    <2> HIDE DEF E
    <2> QED BY <1>3, <2>1, <2>2
  <1> HIDE DEF E
  <1>5. Cluster!SumFunction([k \in E |-> a[k].cpu]) = Sum(cpuOf(a), E)
    <2> DEFINE f == [k \in E |-> a[k].cpu]
    <2>1. E = DOMAIN f /\ (\A x \in E : f[x] \in Int)
          /\ \A x \in E : f[x] \in Int /\ cpuOf(a)[x] = f[x]
      BY <1>3, <1>4 DEF cpuOf
    <2> HIDE DEF f
    <2>2. Cluster!SumFunction(f) = Sum(f, E)
      BY <1>3, <2>1, ClusterSum
    <2>3. Sum(f, E) = Sum(cpuOf(a), E)
      BY <1>3, <2>1, SumSame
    <2> QED BY <2>2, <2>3 DEF f
  <1>6. Cluster!SumFunction([k \in E |-> a[k].mem]) = Sum(memOf(a), E)
    <2> DEFINE f == [k \in E |-> a[k].mem]
    <2>1. E = DOMAIN f /\ (\A x \in E : f[x] \in Int)
          /\ \A x \in E : f[x] \in Int /\ memOf(a)[x] = f[x]
      BY <1>3, <1>4 DEF memOf
    <2> HIDE DEF f
    <2>2. Cluster!SumFunction(f) = Sum(f, E)
      BY <1>3, <2>1, ClusterSum
    <2>3. Sum(f, E) = Sum(memOf(a), E)
      BY <1>3, <2>1, SumSame
    <2> QED BY <2>2, <2>3 DEF f
  <1>7. /\ Cluster!free_at(m, t).cpu = total_cpu - Sum(cpuOf(a), E)
        /\ Cluster!free_at(m, t).mem = total_mem - Sum(memOf(a), E)
    BY <1>2, <1>5, <1>6 DEF Cluster!free_at, Cluster!SumAt, a
  <1>8. Sum(cpuOf(a), E) \in Nat /\ Sum(memOf(a), E) \in Nat
    BY <1>1, Timeline DEF E
  <1>9. /\ total_cpu - Sum(cpuOf(a), E) >= job.cpu <=> Sum(cpuOf(a), E) + job.cpu <= total_cpu
        /\ total_mem - Sum(memOf(a), E) >= job.mem <=> Sum(memOf(a), E) + job.mem <= total_mem
    BY <1>8, ClusterConstants
  <1> QED
    BY <1>7, <1>9 DEF Cluster!can_fit, Fits, a, E

(* What fits at t fits later. *)
LEMMA FitsLater ==
  ASSUME NEW a \in Seq(Alloc), NEW job \in Jobs, NEW t \in Nat, NEW u \in Nat, t <= u,
         Fits(a, job, t)
  PROVE  Fits(a, job, u)
  <1>1. Ending(a, u) \in SUBSET Ending(a, t) /\ IsFiniteSet(Ending(a, t))
    <2>1. \A k \in DOMAIN a : a[k].end \in Nat
      BY Timeline
    <2>2. Ending(a, u) \in SUBSET Ending(a, t)
      BY <2>1 DEF Ending
    <2> QED BY <2>2, Timeline
  <1>2. (\A k \in Ending(a, t) : cpuOf(a)[k] \in Nat) /\ \A k \in Ending(a, t) : memOf(a)[k] \in Nat
    BY Timeline
  <1>3. /\ Sum(cpuOf(a), Ending(a, u)) <= Sum(cpuOf(a), Ending(a, t))
        /\ Sum(memOf(a), Ending(a, u)) <= Sum(memOf(a), Ending(a, t))
    BY <1>1, <1>2, SumSubset
  <1>4. /\ Sum(cpuOf(a), Ending(a, u)) \in Nat /\ Sum(cpuOf(a), Ending(a, t)) \in Nat
        /\ Sum(memOf(a), Ending(a, u)) \in Nat /\ Sum(memOf(a), Ending(a, t)) \in Nat
    BY Timeline
  <1>5. job.cpu \in Nat /\ job.mem \in Nat /\ total_cpu \in Nat /\ total_mem \in Nat
    BY ClusterConstants
  <1>6. /\ Sum(cpuOf(a), Ending(a, t)) + job.cpu <= total_cpu
        /\ Sum(memOf(a), Ending(a, t)) + job.mem <= total_mem
    BY DEF Fits
  <1>7. /\ Sum(cpuOf(a), Ending(a, u)) + job.cpu <= total_cpu
        /\ Sum(memOf(a), Ending(a, u)) + job.mem <= total_mem
    <2>1. \A p, q, r, z \in Nat : p <= q /\ q + r <= z => p + r <= z
      OBVIOUS
    <2>2. Sum(cpuOf(a), Ending(a, u)) + job.cpu <= total_cpu
      BY ONLY <1>3, <1>4, <1>5, <1>6, <2>1
    <2>3. Sum(memOf(a), Ending(a, u)) + job.mem <= total_mem
      BY ONLY <1>3, <1>4, <1>5, <1>6, <2>1
    <2> QED BY <2>2, <2>3
  <1> QED BY <1>7 DEF Fits

(* The least of a set of natural numbers. *)
LEMMA FirstIn ==
  ASSUME NEW S \in SUBSET Nat, S # {}
  PROVE  /\ Cluster!Min(S) \in S /\ \A x \in S : Cluster!Min(S) <= x
  BY LeastNat DEF Cluster!Min

(* The greatest of finitely many. *)
LEMMA GreatestOf ==
  ASSUME NEW D, IsFiniteSet(D), D # {}, NEW f, NEW S, S = {f[x] : x \in D}, S \subseteq Int
  PROVE  /\ Cluster!Max(S) \in S /\ \A x \in S : x <= Cluster!Max(S)
  <1>1. \A x \in D : f[x] \in Int
    OBVIOUS
  <1>2. PICK x \in D : \A y \in D : f[y] <= f[x]
    BY <1>1, Largest
  <1>3. \E z \in S : \A y \in S : z >= y
    BY <1>1, <1>2
  <1>4. Cluster!Max(S) \in S /\ \A y \in S : Cluster!Max(S) >= y
    BY <1>3 DEF Cluster!Max
  <1> QED BY <1>4

(* The places in a timeline at which something ends, and the first look.   *)
LEMMA EarliestFits ==
  ASSUME _allocs \in [Machines -> Seq(Alloc)], NEW m \in Machines, NEW job \in Jobs
  PROVE  LET fit == Cluster!earliest_fit(m, job, job.submit_time)
         IN  /\ fit \in Nat /\ fit >= job.submit_time
             /\ \A t \in Nat : t >= job.submit_time =>
                  (Fits(_allocs[m], job, t) <=> t >= fit)
  <1> DEFINE a == _allocs[m]
             after == job.submit_time
             looked == {after} \cup {e \in Cluster!ends(m) : e > after}
             times == {t \in looked : Cluster!can_fit(m, job, t)}
             least == Cluster!Min(times)
  <1>1. a \in Seq(Alloc) /\ after \in Nat
    BY ClusterConstants
  <1>2. IsFiniteSet(DOMAIN a) /\ \A k \in DOMAIN a : a[k].end \in Nat
    BY <1>1, Timeline
  <1>3. Cluster!ends(m) = {a[k].end : k \in DOMAIN a}
    BY DEF Cluster!ends
  <1>4. \A k \in DOMAIN a : a[k].end > after => a[k].end \in looked
    BY <1>3
  <1>5. looked \subseteq Nat /\ after \in looked /\ \A t \in looked : t >= after
    BY <1>1, <1>2, <1>3
  <1>6. \A t \in looked : Cluster!can_fit(m, job, t) <=> Fits(a, job, t)
    BY <1>5, CanFit
  <1>7. \A t \in looked : t \in times <=> Fits(a, job, t)
    BY <1>6
  <1>8. Cluster!earliest_fit(m, job, after) = least \/ times = {}
    BY DEF Cluster!earliest_fit
  <1>9. times \subseteq looked
    OBVIOUS
  <1> HIDE DEF times, looked, after, a
  (* At the last of them nothing runs any more. *)
  <1>10. times # {}
    <2>1. PICK u \in looked : \A k \in DOMAIN a : a[k].end <= u
      <3>1. CASE DOMAIN a = {}
        BY <1>5, <3>1
      <3>2. CASE DOMAIN a # {}
        <4> DEFINE f == [k \in DOMAIN a |-> a[k].end]
        <4>1. \A k \in DOMAIN a : f[k] \in Int /\ f[k] = a[k].end
          BY <1>2
        <4> HIDE DEF f
        <4>2. PICK x \in DOMAIN a : \A k \in DOMAIN a : f[k] <= f[x]
          BY <1>2, <3>2, <4>1, Largest
        <4>3. CASE a[x].end > after
          BY <1>4, <4>1, <4>2, <4>3
        <4>4. CASE ~(a[x].end > after)
          <5>1. \A k \in DOMAIN a : a[k].end <= after
            BY <1>1, <1>2, <4>1, <4>2, <4>4
          <5> QED BY <1>5, <5>1
        <4> QED BY <4>3, <4>4
      <3> QED BY <3>1, <3>2
    <2>2. u \in Nat
      BY <1>5
    <2>3. Ending(a, u) = {}
      BY <1>2, <2>1, <2>2 DEF Ending
    <2>4. Sum(cpuOf(a), Ending(a, u)) = 0 /\ Sum(memOf(a), Ending(a, u)) = 0
      BY <2>3, SumEmpty
    <2>5. Fits(a, job, u)
      BY <2>4, ClusterConstants DEF Fits
    <2> QED BY <1>7, <2>1, <2>5
  <1>11. least \in times /\ \A t \in times : least <= t
    <2>1. times \in SUBSET Nat
      BY <1>5, <1>9
    <2> QED BY <1>10, <2>1, FirstIn
  <1>12. least \in Nat /\ least >= after /\ Fits(a, job, least)
    BY <1>5, <1>7, <1>9, <1>11
  <1> HIDE DEF least
  <1>13. ASSUME NEW t \in Nat, t >= after PROVE Fits(a, job, t) <=> t >= least
    <2>1. CASE t >= least
      BY <1>1, <1>12, <2>1, FitsLater
    <2>2. ASSUME ~(t >= least), Fits(a, job, t) PROVE FALSE
      <3>1. PICK u \in looked : u <= t /\ \A k \in DOMAIN a : a[k].end <= u \/ a[k].end > t
        <4> DEFINE S == {k \in DOMAIN a : a[k].end <= t /\ a[k].end > after}
                   f == [k \in DOMAIN a |-> a[k].end]
        <4>1. CASE S = {}
          <5>1. \A k \in DOMAIN a : a[k].end <= after \/ a[k].end > t
            BY <1>1, <1>2, <4>1
          <5>2. after \in looked /\ after <= t
            BY <1>1, <1>5, <1>13
          <5> QED BY <5>1, <5>2
        <4>2. CASE S # {}
          <5>1. IsFiniteSet(S) /\ \A k \in S : f[k] \in Int
            <6>1. S \in SUBSET DOMAIN a
              OBVIOUS
            <6> QED BY <1>2, <6>1, FS_Subset
          <5>2. \A k \in DOMAIN a : f[k] = a[k].end
            OBVIOUS
          <5>3. \A k \in DOMAIN a : k \in S <=> a[k].end <= t /\ a[k].end > after
            OBVIOUS
          <5>4. S \subseteq DOMAIN a
            OBVIOUS
          <5> HIDE DEF S, f
          <5>5. PICK x \in S : \A k \in S : f[k] <= f[x]
            BY <4>2, <5>1, Largest
          <5>6. x \in DOMAIN a /\ a[x].end <= t /\ a[x].end > after /\ a[x].end \in looked
            BY <1>4, <5>3, <5>4
          <5>7. ASSUME NEW k \in DOMAIN a PROVE a[k].end <= a[x].end \/ a[k].end > t
            <6>1. a[k].end \in Nat /\ a[x].end \in Nat
              BY <1>2, <5>6
            <6>2. CASE k \in S
              BY <5>2, <5>5, <5>6, <6>2
            <6>3. CASE k \notin S
              <7>1. ~(a[k].end <= t) \/ ~(a[k].end > after)
                BY <5>3, <6>3
              <7>2. \A p, q, r, s \in Nat :
                      q > s /\ (~(p <= r) \/ ~(p > s)) => p <= q \/ p > r
                OBVIOUS
              <7>3. a[x].end > after
                BY <5>6
              <7> QED BY <1>1, <6>1, <7>1, <7>2, <7>3
            <6> QED BY <6>2, <6>3
          <5> DEFINE v == a[x].end
          <5>8. /\ v \in looked /\ v <= t
                /\ \A k \in DOMAIN a : a[k].end <= v \/ a[k].end > t
            BY <5>6, <5>7
          <5> HIDE DEF v
          <5> QED BY <5>8
        <4> QED BY <4>1, <4>2
      <3>2. u \in Nat
        BY <1>5
      <3>3. Ending(a, u) = Ending(a, t)
        BY <1>2, <3>1, <3>2 DEF Ending
      <3>4. Fits(a, job, u)
        BY <2>2, <3>3 DEF Fits
      <3>5. least <= u
        BY <1>7, <1>11, <3>1, <3>4
      <3> QED BY <1>12, <1>13, <2>2, <3>1, <3>2, <3>5
    <2> QED BY <2>1, <2>2
  <1>14. Cluster!earliest_fit(m, job, after) = least
    BY <1>8, <1>10
  <1> QED
    BY <1>12, <1>13, <1>14 DEF after, a

(* The CPU time of the spans, one by one and together. *)
spans(a) == [k \in DOMAIN a |-> a[k].cpu * (a[k].end - a[k].start)]

Work(a) == Sum(spans(a), DOMAIN a)

(* Never more runs than the machine has. *)
WithinLimits(a) ==
  \A t \in Nat : /\ Sum(cpuOf(a), Running(a, t)) <= total_cpu
                 /\ Sum(memOf(a), Running(a, t)) <= total_mem

(* CPU times are natural numbers. *)
LEMMA SpansNat ==
  ASSUME NEW a \in Seq(Alloc), \A k \in DOMAIN a : a[k].start <= a[k].end
  PROVE  (\A k \in DOMAIN a : spans(a)[k] \in Nat) /\ Work(a) \in Nat
  <1>1. IsFiniteSet(DOMAIN a)
    BY Timeline
  <1>2. ASSUME NEW k \in DOMAIN a PROVE spans(a)[k] \in Nat
    <2>1. a[k].start \in Nat /\ a[k].end \in Nat /\ a[k].start <= a[k].end
      BY Timeline
    <2>2. a[k].cpu \in Nat
      <3>1. cpuOf(a)[k] \in Nat
        BY Timeline
      <3> QED BY <3>1 DEF cpuOf
    <2> DEFINE d == a[k].end - a[k].start
    <2>3. d \in Nat
      BY <2>1
    <2>4. \A p, q \in Nat : p * q \in Nat
      OBVIOUS
    <2> HIDE DEF d
    <2>5. a[k].cpu * d \in Nat
      BY <2>2, <2>3, <2>4
    <2> QED BY <2>5 DEF spans, d
  <1> QED BY <1>1, <1>2, SumNat DEF Work

(* The span of a job that starts at s. *)
span(job, s) == [start |-> s, end |-> s + job.duration, cpu |-> job.cpu, mem |-> job.mem]

(* What Placed shows of a timeline b that is a with a span of the job at s. *)
PlacedWell(a, b, job, s) ==
  /\ b \in Seq(Alloc) /\ WithinLimits(b) /\ Work(b) = Work(a) + job.cpu * job.duration
  /\ \A k \in DOMAIN b :
       \/ k \in DOMAIN a /\ b[k] = a[k]
       \/ b[k].start = s /\ b[k].end = s + job.duration

(* A job placed where it fits is never too much with what runs then. *)
LEMMA Placed ==
  ASSUME NEW a \in Seq(Alloc), NEW job \in Jobs, NEW s \in Nat, Fits(a, job, s),
         WithinLimits(a), \A k \in DOMAIN a : a[k].start <= a[k].end,
         NEW b, b = Append(a, span(job, s))
  PROVE  PlacedWell(a, b, job, s)
  <1> DEFINE x == span(job, s)
             l == Len(a) + 1
  <1>1. /\ job.cpu \in Nat /\ job.mem \in Nat /\ job.duration \in Nat
        /\ job.cpu <= total_cpu /\ job.mem <= total_mem /\ total_cpu \in Nat /\ total_mem \in Nat
    BY ClusterConstants
  <1>2. /\ x \in Alloc /\ x.start = s /\ x.end = s + job.duration
        /\ x.cpu = job.cpu /\ x.mem = job.mem
    BY <1>1 DEF Alloc, span
  <1>3. b = Append(a, x)
    OBVIOUS
  <1> HIDE DEF x
  <1>4. /\ b \in Seq(Alloc) /\ DOMAIN b = DOMAIN a \cup {l} /\ l \notin DOMAIN a
        /\ b[l] = x /\ \A k \in DOMAIN a : b[k] = a[k]
    BY <1>2, <1>3
  <1> HIDE DEF l
  <1>5. /\ \A k \in DOMAIN a : /\ cpuOf(b)[k] = cpuOf(a)[k] /\ memOf(b)[k] = memOf(a)[k]
                               /\ spans(b)[k] = spans(a)[k]
        /\ cpuOf(b)[l] = job.cpu /\ memOf(b)[l] = job.mem
    BY <1>2, <1>4 DEF cpuOf, memOf, spans
  <1>6. spans(b)[l] = job.cpu * job.duration
    <2>1. spans(b)[l] = job.cpu * ((s + job.duration) - s)
      BY <1>2, <1>4 DEF spans
    <2>2. (s + job.duration) - s = job.duration
      BY <1>1
    <2> QED BY <2>1, <2>2
  <1>7. IsFiniteSet(DOMAIN a) /\ \A k \in DOMAIN a : cpuOf(a)[k] \in Nat /\ memOf(a)[k] \in Nat
    BY Timeline
  <1>8. WithinLimits(b)
    <2> SUFFICES ASSUME NEW t \in Nat
                 PROVE  /\ Sum(cpuOf(b), Running(b, t)) <= total_cpu
                        /\ Sum(memOf(b), Running(b, t)) <= total_mem
      BY DEF WithinLimits
    <2> DEFINE R == Running(a, t)
    <2>1. /\ R \subseteq DOMAIN a /\ IsFiniteSet(R) /\ l \notin R
          /\ Sum(cpuOf(a), R) \in Nat /\ Sum(memOf(a), R) \in Nat
          /\ Sum(cpuOf(a), R) <= total_cpu /\ Sum(memOf(a), R) <= total_mem
      BY <1>4, Timeline DEF WithinLimits
    <2>2. Running(b, t) = IF s <= t /\ t < s + job.duration THEN R \cup {l} ELSE R
      BY <1>2, <1>4 DEF Running
    <2>3. Sum(cpuOf(b), R) = Sum(cpuOf(a), R) /\ Sum(memOf(b), R) = Sum(memOf(a), R)
      <3>1. (\A k \in R : cpuOf(a)[k] \in Int /\ cpuOf(b)[k] = cpuOf(a)[k])
            /\ (\A k \in R : memOf(a)[k] \in Int /\ memOf(b)[k] = memOf(a)[k])
        BY <1>5, <1>7, <2>1
      <3> HIDE DEF R
      <3> QED BY <2>1, <3>1, SumSame
    <2>4. CASE s <= t /\ t < s + job.duration
      <3>1. Fits(a, job, t)
        BY <2>4, FitsLater
      <3>2. R \in SUBSET Ending(a, t)
        BY DEF Ending, Running
      <3>3. IsFiniteSet(Ending(a, t)) /\ Ending(a, t) \subseteq DOMAIN a
            /\ Sum(cpuOf(a), Ending(a, t)) \in Nat /\ Sum(memOf(a), Ending(a, t)) \in Nat
        BY Timeline
      <3>4. (\A k \in Ending(a, t) : cpuOf(a)[k] \in Nat)
            /\ (\A k \in Ending(a, t) : memOf(a)[k] \in Nat)
        BY <1>7, <3>3
      <3> HIDE DEF R
      <3>5. /\ Sum(cpuOf(a), R) <= Sum(cpuOf(a), Ending(a, t))
            /\ Sum(memOf(a), R) <= Sum(memOf(a), Ending(a, t))
        BY <3>2, <3>3, <3>4, SumSubset
      <3>6. IsFiniteSet(R) /\ l \notin R /\ R \subseteq DOMAIN a
        BY <2>1
      <3>7. /\ \A k \in R : cpuOf(b)[k] \in Int /\ memOf(b)[k] \in Int
            /\ cpuOf(b)[l] \in Int /\ memOf(b)[l] \in Int
        <4>1. \A k \in DOMAIN a : cpuOf(b)[k] \in Nat /\ memOf(b)[k] \in Nat
          BY <1>5, <1>7
        <4>2. cpuOf(b)[l] \in Nat /\ memOf(b)[l] \in Nat
          BY <1>1, <1>5
        <4> QED BY <3>6, <4>1, <4>2
      <3>8. (\A k \in R \cup {l} : cpuOf(b)[k] \in Int) /\ \A k \in R \cup {l} : memOf(b)[k] \in Int
        BY <3>7
      <3>9. /\ Sum(cpuOf(b), R \cup {l}) = Sum(cpuOf(b), R) + cpuOf(b)[l]
            /\ Sum(memOf(b), R \cup {l}) = Sum(memOf(b), R) + memOf(b)[l]
        BY <3>6, <3>8, SumAdd
      <3>10. /\ Sum(cpuOf(a), Ending(a, t)) + job.cpu <= total_cpu
             /\ Sum(memOf(a), Ending(a, t)) + job.mem <= total_mem
        BY <3>1 DEF Fits
      <3>11. /\ Sum(cpuOf(a), R) + job.cpu <= total_cpu
             /\ Sum(memOf(a), R) + job.mem <= total_mem
        <4>1. Sum(cpuOf(a), R) \in Nat /\ Sum(memOf(a), R) \in Nat
          BY <2>1
        <4>2. Sum(cpuOf(a), Ending(a, t)) \in Nat /\ Sum(memOf(a), Ending(a, t)) \in Nat
          BY <3>3
        <4>3. \A p, q, c, u \in Nat : p <= q /\ q + c <= u => p + c <= u
          OBVIOUS
        <4> QED BY <1>1, <3>5, <3>10, <4>1, <4>2, <4>3
      <3>12. Running(b, t) = R \cup {l}
        BY <2>2, <2>4
      <3>13. /\ Sum(cpuOf(b), R \cup {l}) = Sum(cpuOf(a), R) + job.cpu
             /\ Sum(memOf(b), R \cup {l}) = Sum(memOf(a), R) + job.mem
        BY <1>5, <2>3, <3>9
      <3> QED BY <3>11, <3>12, <3>13
    <2>5. CASE ~(s <= t /\ t < s + job.duration)
      BY <2>1, <2>2, <2>3, <2>5
    <2> QED BY <2>4, <2>5
  <1>9. Work(b) = Work(a) + job.cpu * job.duration
    <2>1. \A k \in DOMAIN a : spans(a)[k] \in Nat
      BY SpansNat
    <2>2. \A k \in DOMAIN a : spans(a)[k] \in Int /\ spans(b)[k] = spans(a)[k]
      BY <1>5, <2>1
    <2>3. Sum(spans(b), DOMAIN a) = Sum(spans(a), DOMAIN a)
      BY <1>7, <2>2, SumSame
    <2>4. job.cpu * job.duration \in Int
      BY <1>1
    <2>5. \A k \in DOMAIN a \cup {l} : spans(b)[k] \in Int
      BY <1>6, <2>2, <2>4
    <2>6. Sum(spans(b), DOMAIN a \cup {l}) = Sum(spans(b), DOMAIN a) + spans(b)[l]
      BY <1>4, <1>7, <2>5, SumAdd
    <2> QED BY <1>4, <1>6, <2>3, <2>6 DEF Work
  <1> QED BY <1>2, <1>4, <1>8, <1>9 DEF PlacedWell

(* The lesser of two. *)
least(x, y) == IF x <= y THEN x ELSE y

(* Of each span what is before u. *)
before(a, u) ==
  [k \in DOMAIN a |-> a[k].cpu * (least(a[k].end, u) - least(a[k].start, u))]

(* Until u a machine does at most total_cpu * u. *)
LEMMA WorkBounded ==
  ASSUME NEW a \in Seq(Alloc), WithinLimits(a), \A k \in DOMAIN a : a[k].start <= a[k].end,
         NEW u \in Nat, \A k \in DOMAIN a : a[k].end <= u
  PROVE  Work(a) <= total_cpu * u
  <1>1. /\ IsFiniteSet(DOMAIN a)
        /\ \A k \in DOMAIN a : cpuOf(a)[k] \in Nat /\ a[k].start \in Nat /\ a[k].end \in Nat
    BY Timeline
  <1>2. \A k \in DOMAIN a : cpuOf(a)[k] = a[k].cpu
    BY DEF cpuOf
  <1>3. \A t \in Nat : \A k \in DOMAIN a : before(a, t)[k] \in Int
    <2> TAKE t \in Nat
    <2> TAKE k \in DOMAIN a
    <2> DEFINE d == least(a[k].end, t) - least(a[k].start, t)
    <2>1. d \in Int /\ a[k].cpu \in Int
      BY <1>1, <1>2 DEF least
    <2>2. before(a, t)[k] = a[k].cpu * d
      BY DEF before
    <2> HIDE DEF d
    <2>3. \A p, q \in Int : p * q \in Int
      OBVIOUS
    <2> QED BY <2>1, <2>2, <2>3
  <1> DEFINE N == {t \in Nat : Sum(before(a, t), DOMAIN a) <= total_cpu * t}
  <1>4. 0 \in N
    <2>1. ASSUME NEW k \in DOMAIN a PROVE before(a, 0)[k] = 0
      <3>1. least(a[k].end, 0) = 0 /\ least(a[k].start, 0) = 0
        BY <1>1 DEF least
      <3>2. before(a, 0)[k] = a[k].cpu * (0 - 0)
        BY <3>1 DEF before
      <3>3. \A p \in Nat : p * (0 - 0) = 0
        OBVIOUS
      <3> QED BY <1>1, <1>2, <3>2, <3>3
    <2>2. Sum(before(a, 0), DOMAIN a) = Cardinality(DOMAIN a) * 0
      BY <1>1, <2>1, SumConst
    <2>3. Cardinality(DOMAIN a) \in Nat /\ total_cpu \in Nat
      BY <1>1, FS_CardinalityType, ClusterConstants
    <2>4. \A p, q \in Nat : p * 0 <= q * 0
      OBVIOUS
    <2>5. Sum(before(a, 0), DOMAIN a) <= total_cpu * 0
      BY <2>2, <2>3, <2>4
    <2> QED BY <2>5
  <1>5. ASSUME NEW t \in Nat, t \in N PROVE t + 1 \in N
    <2> DEFINE R == Running(a, t)
               f == [k \in DOMAIN a |-> IF k \in R THEN a[k].cpu ELSE 0]
    <2>1. R \in SUBSET DOMAIN a /\ IsFiniteSet(R)
      BY Timeline
    <2>2. /\ \A k \in DOMAIN a : f[k] \in Int /\ f[k] = IF k \in R THEN a[k].cpu ELSE 0
          /\ \A k \in (DOMAIN a) \ R : f[k] = 0
          /\ \A k \in R : cpuOf(a)[k] \in Int /\ f[k] = cpuOf(a)[k]
      BY <1>1, <1>2, <2>1
    <2>3. ASSUME NEW k \in DOMAIN a PROVE before(a, t + 1)[k] = before(a, t)[k] + f[k]
      <3> DEFINE d == least(a[k].end, t) - least(a[k].start, t)
                 e == least(a[k].end, t + 1) - least(a[k].start, t + 1)
      <3>1. before(a, t)[k] = a[k].cpu * d /\ before(a, t + 1)[k] = a[k].cpu * e
        BY DEF before
      <3>2. /\ d \in Int /\ e \in Int /\ a[k].cpu \in Int
            /\ e = IF a[k].start <= t /\ t < a[k].end THEN d + 1 ELSE d
        <4>1. a[k].start \in Nat /\ a[k].end \in Nat /\ a[k].start <= a[k].end
              /\ cpuOf(a)[k] \in Nat
          BY <1>1
        <4> QED BY <1>2, <4>1 DEF least
      <3>3. k \in R <=> a[k].start <= t /\ t < a[k].end
        BY DEF Running
      <3>4. \A p, q \in Int : p * (q + 1) = p * q + p /\ p * q \in Int
        OBVIOUS
      <3> HIDE DEF d, e, R, f
      <3>5. CASE k \in R
        <4>1. e = d + 1 /\ f[k] = a[k].cpu
          BY <2>2, <3>2, <3>3, <3>5
        <4>2. a[k].cpu * (d + 1) = a[k].cpu * d + a[k].cpu
          BY <3>2, <3>4
        <4> QED BY <3>1, <4>1, <4>2
      <3>6. CASE k \notin R
        <4>1. e = d /\ f[k] = 0
          BY <2>2, <3>2, <3>3, <3>6
        <4>2. a[k].cpu * d \in Int
          BY <3>2, <3>4
        <4> QED BY <3>1, <4>1, <4>2
      <3> QED BY <3>5, <3>6
    <2>4. Sum(cpuOf(a), R) <= total_cpu
      BY DEF WithinLimits
    <2>5. Sum(before(a, t), DOMAIN a) <= total_cpu * t
      BY <1>5
    <2> HIDE DEF R, f, N
    <2>6. Sum(f, DOMAIN a) = Sum(f, R)
      BY <1>1, <2>1, <2>2, SumOutside
    <2>7. Sum(cpuOf(a), R) = Sum(f, R)
      BY <2>1, <2>2, SumSame
    <2>8. \A k \in DOMAIN a : /\ before(a, t)[k] \in Int /\ f[k] \in Int
                              /\ before(a, t + 1)[k] = before(a, t)[k] + f[k]
      BY <1>3, <2>2, <2>3
    <2>9. Sum(before(a, t + 1), DOMAIN a) = Sum(before(a, t), DOMAIN a) + Sum(f, DOMAIN a)
      BY <1>1, <2>8, SumPlus
    <2>10. Sum(before(a, t), DOMAIN a) \in Int /\ Sum(f, DOMAIN a) \in Int
      BY <1>1, <2>8, SumInt
    <2>11. total_cpu \in Nat
      BY ClusterConstants
    <2>12. \A p, q \in Nat : p * (q + 1) = p * q + p /\ p * q \in Nat
      OBVIOUS
    <2>13. Sum(f, DOMAIN a) <= total_cpu
      BY <2>4, <2>6, <2>7
    <2>14. Sum(before(a, t + 1), DOMAIN a) <= total_cpu * (t + 1)
      <3>1. total_cpu * (t + 1) = total_cpu * t + total_cpu /\ total_cpu * t \in Nat
        BY <2>11, <2>12
      <3> QED BY <2>5, <2>9, <2>10, <2>11, <2>13, <3>1
    <2> QED BY <2>14 DEF N
  <1> HIDE DEF N
  <1>6. u \in N
    BY <1>4, <1>5, NatInd
  <1>7. ASSUME NEW k \in DOMAIN a PROVE before(a, u)[k] = spans(a)[k]
    <2>1. least(a[k].end, u) = a[k].end /\ least(a[k].start, u) = a[k].start
      BY <1>1 DEF least
    <2> QED BY <2>1 DEF before, spans
  <1>8. Sum(spans(a), DOMAIN a) = Sum(before(a, u), DOMAIN a)
    <2>1. \A k \in DOMAIN a : before(a, u)[k] \in Int /\ spans(a)[k] = before(a, u)[k]
      BY <1>3, <1>7
    <2> QED BY <1>1, <2>1, SumSame
  <1> QED BY <1>6, <1>8 DEF N, Work

(* An entry of the schedule. *)
Done == [job : Jobs, start_time : Nat, end_time : Nat]

(* The CPU times of the jobs, and of the machines. *)
costs == [k \in DOMAIN completed |-> Cluster!cpu_time(completed[k])]
works == [m \in Machines |-> Work(_allocs[m])]

(* The timelines and the schedule of the algorithm that is running.        *)
ClusterInv ==
  /\ _allocs \in [Machines -> Seq(Alloc)] /\ completed \in Seq(Done)
  /\ \A k \in DOMAIN completed :
       /\ completed[k].end_time = completed[k].start_time + completed[k].job.duration
       /\ completed[k].job.submit_time <= completed[k].start_time
  /\ \A m \in Machines :
       /\ WithinLimits(_allocs[m])
       /\ \A k \in DOMAIN _allocs[m] :
            /\ _allocs[m][k].start <= _allocs[m][k].end
            /\ \E c \in DOMAIN completed : _allocs[m][k].end <= completed[c].end_time
  /\ Sum(works, Machines) = Sum(costs, DOMAIN completed)

(* An empty timeline. *)
LEMMA NothingPlaced ==
  <<>> \in Seq(Alloc) /\ WithinLimits(<<>>) /\ Work(<<>>) = 0 /\ DOMAIN <<>> = {}
  <1>1. <<>> \in Seq(Alloc) /\ DOMAIN <<>> = {}
    OBVIOUS
  <1>2. \A t : Running(<<>>, t) = {}
    BY <1>1 DEF Running
  <1>3. WithinLimits(<<>>)
    <2>1. \A f : Sum(f, {}) = 0
      BY SumEmpty
    <2>2. 0 <= total_cpu /\ 0 <= total_mem
      BY ClusterConstants
    <2> QED BY <1>2, <2>1, <2>2 DEF WithinLimits
  <1>4. Work(<<>>) = 0
    BY <1>1, SumEmpty DEF Work
  <1> QED BY <1>1, <1>3, <1>4

(* A new algorithm's cluster, on which nothing is placed. *)
LEMMA FreshCluster ==
  ASSUME NEW a, a = Cluster!_make_cluster
  PROVE  /\ a \in [Machines -> Seq(Alloc)] /\ <<>> \in Seq(Done) /\ DOMAIN <<>> = {}
         /\ \A m \in Machines : WithinLimits(a[m]) /\ DOMAIN a[m] = {}
         /\ Sum([m \in Machines |-> Work(a[m])], Machines) = 0
  <1>1. \A m \in Machines : a[m] = <<>>
    BY DEF Cluster!_make_cluster
  <1>2. a \in [Machines -> Seq(Alloc)]
    BY NothingPlaced DEF Cluster!_make_cluster
  <1>3. <<>> \in Seq(Done) /\ DOMAIN <<>> = {}
    OBVIOUS
  <1>4. \A m \in Machines : WithinLimits(a[m]) /\ DOMAIN a[m] = {}
    BY <1>1, NothingPlaced
  <1> DEFINE f == [m \in Machines |-> Work(a[m])]
  <1>5. Sum(f, Machines) = 0
    <2>1. IsFiniteSet(Machines)
      BY ClusterConstants
    <2>4. \A m \in Machines : f[m] = 0
      BY <1>1, NothingPlaced
    <2> HIDE DEF f
    <2>5. 0 \in Int
      OBVIOUS
    <2>2. Sum(f, Machines) = Cardinality(Machines) * 0
      BY <2>1, <2>4, <2>5, SumConst
    <2>3. Cardinality(Machines) \in Nat
      BY <2>1, FS_CardinalityType
    <2> QED BY <2>2, <2>3
  <1> QED BY <1>2, <1>3, <1>4, <1>5

(* One notion of cardinality. *)
LEMMA ClusterCardinality == \A S : Cluster!Cardinality(S) = Cardinality(S)
  BY DEF Cluster!Cardinality, Cardinality

(* The CPU time of a job is a natural number. *)
LEMMA CostNat ==
  ASSUME completed \in Seq(Done)
  PROVE  /\ IsFiniteSet(DOMAIN completed)
         /\ \A k \in DOMAIN completed : costs[k] \in Nat
  <1>1. DOMAIN completed = 1 .. Len(completed) /\ Len(completed) \in Int
    OBVIOUS
  <1>2. IsFiniteSet(DOMAIN completed)
    BY <1>1, FS_Interval
  <1>3. ASSUME NEW k \in DOMAIN completed PROVE costs[k] \in Nat
    <2>1. completed[k].job \in Jobs
      <3>1. completed[k] \in Done
        BY <1>1
      <3> QED BY <3>1 DEF Done
    <2> DEFINE job == completed[k].job
    <2>2. job.cpu \in Nat /\ job.duration \in Nat /\ job.nodes_required \in Nat
      BY <2>1, ClusterConstants
    <2>3. costs[k] = job.cpu * job.duration * job.nodes_required
      BY DEF costs, Cluster!cpu_time
    <2> HIDE DEF job
    <2>4. \A p, q, r \in Nat : p * q * r \in Nat
      OBVIOUS
    <2> QED BY <2>2, <2>3, <2>4
  <1> QED BY <1>2, <1>3

(* A job is placed, on every machine from the latest of their earliest fits. *)
LEMMA ScheduleStep ==
  ASSUME ClusterInv, NEW job \in Jobs, NEW nodes \in SUBSET Machines,
         Cluster!Schedule(job, nodes)
  PROVE  ClusterInv'
  <1> DEFINE fits == [m \in Machines |-> Cluster!earliest_fit(m, job, job.submit_time)]
             times == {Cluster!earliest_fit(m, job, job.submit_time) : m \in nodes}
             s == Cluster!Max(times)
             x == span(job, s)
             c == [job |-> job, start_time |-> s, end_time |-> s + job.duration]
  <1>1. /\ _allocs \in [Machines -> Seq(Alloc)] /\ completed \in Seq(Done)
        /\ \A k \in DOMAIN completed :
             /\ completed[k].end_time = completed[k].start_time + completed[k].job.duration
             /\ completed[k].job.submit_time <= completed[k].start_time
        /\ \A m \in Machines :
             /\ _allocs[m] \in Seq(Alloc) /\ WithinLimits(_allocs[m])
             /\ \A k \in DOMAIN _allocs[m] :
                  /\ _allocs[m][k].start <= _allocs[m][k].end
                  /\ \E d \in DOMAIN completed : _allocs[m][k].end <= completed[d].end_time
        /\ Sum(works, Machines) = Sum(costs, DOMAIN completed)
    BY DEF ClusterInv
  <1>2. /\ job.cpu \in Nat /\ job.mem \in Nat /\ job.duration \in Nat /\ job.submit_time \in Nat
        /\ job.nodes_required \in Nat \ {0} /\ IsFiniteSet(Machines)
    BY ClusterConstants
  <1>3. /\ Cardinality(nodes) = job.nodes_required
        /\ _allocs' = [m \in Machines |-> IF m \in nodes THEN Append(_allocs[m], x)
                                          ELSE _allocs[m]]
        /\ completed' = Append(completed, c)
    BY ClusterCardinality DEF Cluster!Schedule, Cluster!allocate, span
  <1>4. IsFiniteSet(nodes) /\ nodes # {}
    BY <1>2, <1>3, FS_Subset, FS_EmptySet
  <1>5. \A m \in nodes : /\ fits[m] \in Nat /\ fits[m] >= job.submit_time
                         /\ \A t \in Nat : t >= fits[m] => Fits(_allocs[m], job, t)
    <2> TAKE m \in nodes
    <2>1. /\ fits[m] \in Nat /\ fits[m] >= job.submit_time
          /\ \A t \in Nat : t >= job.submit_time => (Fits(_allocs[m], job, t) <=> t >= fits[m])
      BY <1>1, EarliestFits
    <2> HIDE DEF fits
    <2> QED BY <1>2, <2>1
  <1>6. times = {fits[m] : m \in nodes}
    OBVIOUS
  <1> HIDE DEF fits, times
  <1>7. s \in times /\ \A t \in times : t <= s
    <2>1. times \subseteq Int
      BY <1>5, <1>6
    <2> QED BY <1>4, <1>6, <2>1, GreatestOf
  <1> HIDE DEF s
  <1>8. /\ s \in Nat /\ s >= job.submit_time
        /\ \A m \in nodes : Fits(_allocs[m], job, s)
    BY <1>2, <1>4, <1>5, <1>6, <1>7
  <1>9. ASSUME NEW m \in nodes
        PROVE  /\ _allocs'[m] \in Seq(Alloc) /\ WithinLimits(_allocs'[m])
               /\ Work(_allocs'[m]) = Work(_allocs[m]) + job.cpu * job.duration
               /\ \A k \in DOMAIN _allocs'[m] :
                    \/ k \in DOMAIN _allocs[m] /\ _allocs'[m][k] = _allocs[m][k]
                    \/ _allocs'[m][k].start = s /\ _allocs'[m][k].end = s + job.duration
    <2> DEFINE a == _allocs[m]
               b == _allocs'[m]
    <2>1. b = Append(a, x)
      BY <1>3
    <2>2. a \in Seq(Alloc) /\ Fits(a, job, s) /\ WithinLimits(a)
          /\ \A k \in DOMAIN a : a[k].start <= a[k].end
      BY <1>1, <1>8
    <2>3. b = Append(a, span(job, s))
      BY <2>1
    <2> HIDE DEF a, b, x
    <2>4. PlacedWell(a, b, job, s)
      <3>1. s \in Nat
        BY <1>8
      <3>2. a \in Seq(Alloc)
        BY <2>2
      <3>3. Fits(a, job, s)
        BY <2>2
      <3>4. WithinLimits(a)
        BY <2>2
      <3>5. \A k \in DOMAIN a : a[k].start <= a[k].end
        BY <2>2
      <3> QED BY <2>3, <3>1, <3>2, <3>3, <3>4, <3>5, Placed
    <2> QED BY <2>4 DEF a, b, PlacedWell
  <1>10. \A m \in Machines \ nodes : _allocs'[m] = _allocs[m]
    BY <1>3
  <1> DEFINE next == Len(completed) + 1
             cost == job.cpu * job.duration
  <1>11. /\ completed' \in Seq(Done) /\ DOMAIN completed' = DOMAIN completed \cup {next}
         /\ next \notin DOMAIN completed /\ completed'[next] = c
         /\ \A k \in DOMAIN completed : completed'[k] = completed[k]
    <2>1. c \in Done
      BY <1>2, <1>8 DEF Done
    <2> HIDE DEF c
    <2> QED BY <1>1, <1>3, <2>1
  <1>12. c.job = job /\ c.start_time = s /\ c.end_time = s + job.duration
    OBVIOUS
  <1>13. cost \in Nat
    BY <1>2
  <1> HIDE DEF next, c, x, cost
  <1>14. \A k \in DOMAIN completed' :
           /\ completed'[k].end_time = completed'[k].start_time + completed'[k].job.duration
           /\ completed'[k].job.submit_time <= completed'[k].start_time
    <2> TAKE k \in DOMAIN completed'
    <2>1. CASE k = next
      BY <1>8, <1>11, <1>12, <2>1
    <2>2. CASE k \in DOMAIN completed
      BY <1>1, <1>11, <2>2
    <2> QED BY <1>11, <2>1, <2>2
  <1>15. _allocs' \in [Machines -> Seq(Alloc)]
    <2>1. ASSUME NEW m \in Machines PROVE _allocs'[m] \in Seq(Alloc)
      BY <1>1, <1>9, <1>10
    <2>2. _allocs' = [m \in Machines |-> _allocs'[m]]
      BY <1>3
    <2> QED BY <2>1, <2>2
  <1>16. ASSUME NEW m \in Machines
         PROVE  /\ WithinLimits(_allocs'[m])
                /\ \A k \in DOMAIN _allocs'[m] :
                     /\ _allocs'[m][k].start <= _allocs'[m][k].end
                     /\ \E d \in DOMAIN completed' : _allocs'[m][k].end <= completed'[d].end_time
    <2>1. WithinLimits(_allocs'[m])
      BY <1>1, <1>9, <1>10
    <2>2. ASSUME NEW k \in DOMAIN _allocs'[m]
          PROVE  /\ _allocs'[m][k].start <= _allocs'[m][k].end
                 /\ \E d \in DOMAIN completed' : _allocs'[m][k].end <= completed'[d].end_time
      <3>1. CASE k \in DOMAIN _allocs[m] /\ _allocs'[m][k] = _allocs[m][k]
        BY <1>1, <1>11, <3>1
      <3>2. CASE /\ _allocs'[m][k].start = s /\ _allocs'[m][k].end = s + job.duration
        <4>1. next \in DOMAIN completed' /\ completed'[next].end_time = s + job.duration
          BY <1>11, <1>12
        <4>2. s <= s + job.duration /\ s + job.duration <= s + job.duration
          BY <1>2, <1>8
        <4> QED BY <3>2, <4>1, <4>2
      <3>3. CASE m \in nodes
        BY <1>9, <3>1, <3>2, <3>3
      <3>4. CASE m \notin nodes
        BY <1>10, <3>1, <3>4
      <3> QED BY <3>3, <3>4
    <2> QED BY <2>1, <2>2
  <1>17. Sum(works', Machines) = Sum(works, Machines) + job.nodes_required * cost
    <2> DEFINE f == [m \in Machines |-> IF m \in nodes THEN cost ELSE 0]
    <2>1. /\ \A m \in Machines : f[m] \in Int
          /\ \A m \in Machines \ nodes : f[m] = 0
          /\ \A m \in nodes : f[m] = cost
      BY <1>13
    <2> HIDE DEF f
    <2>2. \A m \in Machines : works[m] \in Int /\ f[m] \in Int /\ works'[m] = works[m] + f[m]
      <3> TAKE m \in Machines
      <3>1. works[m] = Work(_allocs[m]) /\ works'[m] = Work(_allocs'[m])
        BY DEF works
      <3>2. Work(_allocs[m]) \in Nat
        BY <1>1, SpansNat
      <3>3. CASE m \in nodes
        <4>1. Work(_allocs'[m]) = Work(_allocs[m]) + cost
          BY <1>9, <3>3 DEF cost
        <4> QED BY <1>13, <2>1, <3>1, <3>2, <3>3, <4>1
      <3>4. CASE m \notin nodes
        BY <1>10, <2>1, <3>1, <3>2, <3>4
      <3> QED BY <3>3, <3>4
    <2>3. Sum(works', Machines) = Sum(works, Machines) + Sum(f, Machines)
      BY <1>2, <2>2, SumPlus
    <2>4. Sum(f, Machines) = Sum(f, nodes)
      BY <1>2, <2>1, SumOutside
    <2>5. Sum(f, nodes) = Cardinality(nodes) * cost
      BY <1>4, <1>13, <2>1, SumConst
    <2> QED BY <1>3, <2>3, <2>4, <2>5
  <1>18. Sum(costs', DOMAIN completed') = Sum(costs, DOMAIN completed) + job.nodes_required * cost
    <2>1. IsFiniteSet(DOMAIN completed) /\ \A k \in DOMAIN completed : costs[k] \in Int
      BY <1>1, CostNat
    <2>2. costs'[next] = job.nodes_required * cost
      <3>1. costs'[next] = job.cpu * job.duration * job.nodes_required
        BY <1>11, <1>12 DEF costs, Cluster!cpu_time
      <3>2. \A p, q, r \in Nat : p * q * r = r * (p * q)
        OBVIOUS
      <3> QED BY <1>2, <3>1, <3>2 DEF cost
    <2>3. \A k \in DOMAIN completed : costs[k] \in Int /\ costs'[k] = costs[k]
      BY <1>11, <2>1 DEF costs
    <2>4. job.nodes_required * cost \in Int
      BY <1>2, <1>13
    <2>5. Sum(costs', DOMAIN completed) = Sum(costs, DOMAIN completed)
      BY <2>1, <2>3, SumSame
    <2>6. \A k \in DOMAIN completed \cup {next} : costs'[k] \in Int
      BY <2>2, <2>3, <2>4
    <2> DEFINE h == costs'
               D == DOMAIN completed
    <2>7. IsFiniteSet(D) /\ next \notin D /\ \A k \in D \cup {next} : h[k] \in Int
      BY <1>11, <2>1, <2>6
    <2> HIDE DEF h, D
    <2>8. Sum(h, D \cup {next}) = Sum(h, D) + h[next]
      BY <2>7, SumAdd
    <2> QED BY <1>11, <2>2, <2>5, <2>8 DEF h, D
  <1> QED
    BY <1>1, <1>11, <1>14, <1>15, <1>16, <1>17, <1>18 DEF ClusterInv

(* One step of the run keeps the invariant.                                *)
LEMMA ClusterStep ==
  ASSUME ClusterInv, [Next]_vars
  PROVE  ClusterInv'
  <1>1. CASE RunCluster
    <2>1. Cluster!Next
      BY <1>1 DEF RunCluster
    <2>2. CASE Cluster!Finish
      <3>1. _allocs' = Cluster!_make_cluster /\ completed' = <<>>
        BY <2>2 DEF Cluster!Finish
      <3> DEFINE a == _allocs'
      <3>2. a = Cluster!_make_cluster
        BY <3>1 DEF Cluster!_make_cluster
      <3> HIDE DEF a
      <3>3. /\ a \in [Machines -> Seq(Alloc)] /\ <<>> \in Seq(Done) /\ DOMAIN <<>> = {}
            /\ \A m \in Machines : WithinLimits(a[m]) /\ DOMAIN a[m] = {}
            /\ Sum([m \in Machines |-> Work(a[m])], Machines) = 0
        BY <3>2, FreshCluster
      <3>4. Sum(works', Machines) = 0
        BY <3>3 DEF works, a
      <3>5. Sum(costs', DOMAIN completed') = 0
        <4>1. \A f : Sum(f, {}) = 0
          BY SumEmpty
        <4> QED BY <3>1, <3>3, <4>1
      <3> QED BY <3>1, <3>3, <3>4, <3>5 DEF ClusterInv, a
    <2>3. ASSUME NEW job \in Jobs, NEW nodes \in SUBSET Machines, Cluster!Schedule(job, nodes)
          PROVE  ClusterInv'
      BY <2>3, ScheduleStep
    <2> QED BY <2>1, <2>2, <2>3 DEF Cluster!Next
  <1>2. CASE UNCHANGED <<_allocs, completed>>
    <2>1. costs' = costs /\ works' = works
      BY <1>2 DEF costs, works
    <2> QED BY <1>2, <2>1 DEF ClusterInv
  <1> QED
    BY <1>1, <1>2 DEF Next, vars, cluster, RunQs, ProbeRuns, RunPercentiles, RunFairness,
                      RunThrottling, RunBenchmark

(* The invariant. *)
THEOREM ClusterHolds == Spec => []ClusterInv
  <1>1. Init => ClusterInv
    <2> SUFFICES ASSUME Init PROVE ClusterInv
      OBVIOUS
    <2>1. _allocs = Cluster!_make_cluster /\ completed = <<>>
      BY DEF Init, Cluster!Init
    <2> DEFINE a == _allocs
    <2>2. a = Cluster!_make_cluster
      BY <2>1
    <2> HIDE DEF a
    <2>3. /\ a \in [Machines -> Seq(Alloc)] /\ <<>> \in Seq(Done) /\ DOMAIN <<>> = {}
          /\ \A m \in Machines : WithinLimits(a[m]) /\ DOMAIN a[m] = {}
          /\ Sum([m \in Machines |-> Work(a[m])], Machines) = 0
      BY <2>2, FreshCluster
    <2>4. Sum(works, Machines) = 0
      BY <2>3 DEF works, a
    <2>5. Sum(costs, DOMAIN completed) = 0
      <3>1. \A f : Sum(f, {}) = 0
        BY SumEmpty
      <3> QED BY <2>1, <2>3, <3>1
    <2> QED BY <2>1, <2>3, <2>4, <2>5 DEF ClusterInv, a
  <1>2. ClusterInv /\ [Next]_vars => ClusterInv'
    BY ClusterStep
  <1> QED
    BY <1>1, <1>2, PTL DEF Spec

(* The metrics are the sums of the lemmas. *)
LEMMA Makespan ==
  ASSUME ClusterInv, completed # <<>>
  PROVE  /\ Cluster!makespan \in Nat
         /\ \A k \in DOMAIN completed : completed[k].end_time <= Cluster!makespan
  <1> DEFINE D == DOMAIN completed
             f == [k \in D |-> completed[k].end_time]
             S == {completed[k].end_time : k \in D}
  <1>1. completed \in Seq(Done)
    BY DEF ClusterInv
  <1>2. IsFiniteSet(D)
    BY <1>1, CostNat
  <1>3. D # {}
    BY <1>1
  <1>4. \A k \in D : completed[k].end_time \in Nat
    <2> TAKE k \in D
    <2>1. completed[k] \in Done
      BY <1>1
    <2> QED BY <2>1 DEF Done
  <1>5. S = {f[k] : k \in D} /\ S \subseteq Nat /\ S \subseteq Int
    BY <1>4
  <1>6. \A k \in D : completed[k].end_time \in S
    OBVIOUS
  <1> HIDE DEF D, f, S
  <1>7. Cluster!Max(S) \in S /\ \A t \in S : t <= Cluster!Max(S)
    BY <1>2, <1>3, <1>5, GreatestOf
  <1>8. Cluster!makespan = Cluster!Max(S)
    BY DEF Cluster!makespan, S, D
  <1> QED
    BY <1>5, <1>6, <1>7, <1>8 DEF D

(* total_cpu_time counts the jobs of the schedule. *)
LEMMA CpuTime ==
  ASSUME ClusterInv
  PROVE  Cluster!total_cpu_time = Sum(costs, DOMAIN completed)
  <1> DEFINE D == DOMAIN completed
             h == costs
  <1>1. IsFiniteSet(D) /\ \A k \in D : h[k] \in Nat
    BY CostNat DEF ClusterInv
  <1>2. D = DOMAIN h
    BY DEF costs
  <1>3. Cluster!total_cpu_time = Cluster!SumFunction(h)
    BY DEF Cluster!total_cpu_time, Cluster!SumOver, Cluster!SumAt, costs
  <1> HIDE DEF D, h
  <1>4. \A k \in D : h[k] \in Int
    BY <1>1
  <1>5. Cluster!SumFunction(h) = Sum(h, D)
    BY <1>1, <1>2, <1>4, ClusterSum
  <1> QED
    BY <1>3, <1>5 DEF D, h

(* No more CPU time is used than there is until the last job ends. *)
LEMMA Utilization ==
  ASSUME ClusterInv, completed # <<>>
  PROVE  Cluster!total_cpu_time <= Cluster!total_capacity
  <1> DEFINE M == Cluster!makespan
             limits == [m \in Machines |-> total_cpu * M]
             w == works
  <1>1. /\ M \in Nat /\ \A k \in DOMAIN completed : completed[k].end_time <= M
    BY Makespan
  <1>2. /\ IsFiniteSet(Machines) /\ total_cpu \in Nat
    BY ClusterConstants
  <1>3. ASSUME NEW m \in Machines PROVE works[m] \in Int /\ works[m] <= total_cpu * M
    <2> DEFINE a == _allocs[m]
    <2>1. /\ a \in Seq(Alloc) /\ WithinLimits(a)
          /\ \A k \in DOMAIN a : /\ a[k].start <= a[k].end
                                /\ \E c \in DOMAIN completed : a[k].end <= completed[c].end_time
      BY DEF ClusterInv
    <2>2. completed \in Seq(Done)
      BY DEF ClusterInv
    <2> HIDE DEF a, M
    <2>3. ASSUME NEW k \in DOMAIN a PROVE a[k].end <= M
      <3>1. PICK c \in DOMAIN completed : a[k].end <= completed[c].end_time
        BY <2>1
      <3>2. completed[c].end_time \in Nat
        <4>1. completed[c] \in Done
          BY <2>2
        <4> QED BY <4>1 DEF Done
      <3>3. a[k].end \in Nat
        BY <2>1, Timeline
      <3>4. completed[c].end_time <= M
        BY <1>1
      <3> QED BY <1>1, <3>1, <3>2, <3>3, <3>4
    <2>4. Work(a) <= total_cpu * M
      BY <1>1, <2>1, <2>3, WorkBounded
    <2>5. Work(a) \in Nat
      BY <2>1, SpansNat
    <2>6. works[m] = Work(a)
      BY DEF works, a
    <2> QED BY <2>4, <2>5, <2>6
  <1> HIDE DEF M
  <1>4. total_cpu * M \in Int
    BY <1>1, <1>2
  <1>5. \A m \in Machines : /\ w[m] \in Int /\ limits[m] \in Int /\ w[m] <= limits[m]
                            /\ limits[m] = total_cpu * M
    BY <1>3, <1>4
  <1> HIDE DEF limits, w
  <1>6. Sum(w, Machines) <= Sum(limits, Machines)
    BY <1>2, <1>5, SumLe
  <1>7. Sum(limits, Machines) = Cardinality(Machines) * (total_cpu * M)
    BY <1>2, <1>4, <1>5, SumConst
  <1>8. Sum(w, Machines) \in Int /\ Cardinality(Machines) \in Nat
    BY <1>2, <1>5, SumInt, FS_CardinalityType
  <1>9. Cluster!total_cpu_time = Sum(w, Machines)
    <2>1. Sum(works, Machines) = Sum(costs, DOMAIN completed)
      BY DEF ClusterInv
    <2> QED BY <2>1, CpuTime DEF w
  <1>10. Cluster!total_capacity = IF M > 0 THEN Cardinality(Machines) * total_cpu * M ELSE 1
    BY ClusterCardinality DEF Cluster!total_capacity, M
  <1>11. \A p, q, r \in Nat : p * (q * r) = p * q * r
    OBVIOUS
  <1>12. CASE M > 0
    <2>1. Cardinality(Machines) * (total_cpu * M) = Cardinality(Machines) * total_cpu * M
      BY <1>1, <1>2, <1>8, <1>11
    <2> QED BY <1>6, <1>7, <1>9, <1>10, <1>12, <2>1
  <1>13. CASE ~(M > 0)
    <2>1. M = 0
      BY <1>1, <1>13
    <2>2. \A p, q \in Nat : p * (q * 0) = 0
      OBVIOUS
    <2>3. Cardinality(Machines) * (total_cpu * 0) = 0
      BY <1>2, <1>8, <2>2
    <2> QED BY <1>6, <1>7, <1>8, <1>9, <1>10, <1>13, <2>1, <2>3
  <1> QED BY <1>12, <1>13

(* From earliest_fit on a job fits, and not before. *)
LEMMA FitsAtEarliest ==
  ASSUME ClusterInv
  PROVE  Cluster!EarliestFit
  <1>1. _allocs \in [Machines -> Seq(Alloc)]
    BY DEF ClusterInv
  <1> SUFFICES ASSUME NEW m \in Machines, NEW job \in Jobs
               PROVE  LET after == job.submit_time
                          fit   == Cluster!earliest_fit(m, job, after)
                      IN  /\ fit >= after
                          /\ \A t \in after .. Cluster!Max({fit} \cup Cluster!ends(m)) :
                               Cluster!can_fit(m, job, t) <=> t >= fit
    BY DEF Cluster!EarliestFit
  <1> DEFINE a == _allocs[m]
             after == job.submit_time
             fit == Cluster!earliest_fit(m, job, after)
             D == {0} \cup DOMAIN a
             f == [k \in D |-> IF k = 0 THEN fit ELSE a[k].end]
             S == {fit} \cup Cluster!ends(m)
  <1>2. /\ fit \in Nat /\ fit >= after
        /\ \A t \in Nat : t >= after => (Fits(a, job, t) <=> t >= fit)
    BY <1>1, EarliestFits
  <1>3. after \in Nat
    BY ClusterConstants
  <1>4. \A t \in Nat : Cluster!can_fit(m, job, t) <=> Fits(a, job, t)
    BY <1>1, CanFit
  <1>5. a \in Seq(Alloc)
    BY <1>1
  <1>6. Cluster!ends(m) = {a[k].end : k \in DOMAIN a}
    BY DEF Cluster!ends
  <1> HIDE DEF fit, after, a
  <1>7. 0 \notin DOMAIN a /\ IsFiniteSet(DOMAIN a) /\ \A k \in DOMAIN a : a[k].end \in Nat
    BY <1>5, Timeline
  <1>8. IsFiniteSet(D) /\ D # {}
    <2>1. IsFiniteSet(DOMAIN a \cup {0})
      BY <1>7, FS_AddElement
    <2>2. D = DOMAIN a \cup {0}
      OBVIOUS
    <2> QED BY <2>1, <2>2
  <1>9. S = {f[k] : k \in D} /\ S \subseteq Int
    <2>1. \A k \in DOMAIN a : f[k] = a[k].end /\ k \in D
      BY <1>7
    <2>2. f[0] = fit /\ 0 \in D
      OBVIOUS
    <2>3. \A k \in D : k = 0 \/ k \in DOMAIN a
      OBVIOUS
    <2> HIDE DEF f, D
    <2> QED BY <1>2, <1>6, <1>7, <2>1, <2>2, <2>3
  <1> HIDE DEF D, f, S
  <1>10. Cluster!Max(S) \in Int
    BY <1>8, <1>9, GreatestOf
  <1>11. ASSUME NEW t \in after .. Cluster!Max(S)
         PROVE  Cluster!can_fit(m, job, t) <=> t >= fit
    <2>1. t \in Nat /\ t >= after
      BY <1>3, <1>10
    <2> QED BY <1>2, <1>4, <2>1
  <1> QED
    BY <1>2, <1>11 DEF S, fit, after

(* What runs on a machine at a time is within its limits. *)
LEMMA RunsWithin ==
  ASSUME ClusterInv, NEW m \in Machines, NEW t \in Nat
  PROVE  LET running == {k \in DOMAIN _allocs[m] : /\ _allocs[m][k].start <= t
                                                   /\ t < _allocs[m][k].end}
         IN  /\ Cluster!SumAt(_allocs[m], running, LAMBDA x : x.cpu) <= total_cpu
             /\ Cluster!SumAt(_allocs[m], running, LAMBDA x : x.mem) <= total_mem
  <1> DEFINE a == _allocs[m]
             R == Running(a, t)
             c == [k \in R |-> a[k].cpu]
             e == [k \in R |-> a[k].mem]
  <1>1. a \in Seq(Alloc) /\ WithinLimits(a)
    BY DEF ClusterInv
  <1>2. {k \in DOMAIN _allocs[m] : _allocs[m][k].start <= t /\ t < _allocs[m][k].end} = R
    BY DEF Running
  <1>3. /\ Cluster!SumAt(_allocs[m], R, LAMBDA x : x.cpu) = Cluster!SumFunction(c)
        /\ Cluster!SumAt(_allocs[m], R, LAMBDA x : x.mem) = Cluster!SumFunction(e)
    BY DEF Cluster!SumAt
  <1>4. DOMAIN c = R /\ DOMAIN e = R
    OBVIOUS
  <1> HIDE DEF a, R
  <1>5. IsFiniteSet(R) /\ R \subseteq DOMAIN a
    BY <1>1, Timeline DEF R
  <1>6. \A k \in R : /\ c[k] \in Int /\ cpuOf(a)[k] = c[k]
                     /\ e[k] \in Int /\ memOf(a)[k] = e[k]
    <2>1. \A k \in R : cpuOf(a)[k] \in Nat /\ memOf(a)[k] \in Nat
      BY <1>1, <1>5, Timeline
    <2>2. \A k \in R : cpuOf(a)[k] = c[k] /\ memOf(a)[k] = e[k]
      BY <1>5 DEF cpuOf, memOf
    <2> HIDE DEF c, e
    <2> QED BY <2>1, <2>2
  <1> HIDE DEF c, e
  <1>7. Cluster!SumFunction(c) = Sum(c, R) /\ Cluster!SumFunction(e) = Sum(e, R)
    <2>1. (\A k \in R : c[k] \in Int) /\ \A k \in R : e[k] \in Int
      BY <1>6
    <2> QED BY <1>4, <1>5, <2>1, ClusterSum
  <1>8. Sum(c, R) = Sum(cpuOf(a), R)
    BY <1>5, <1>6, SumSame
  <1>9. Sum(e, R) = Sum(memOf(a), R)
    BY <1>5, <1>6, SumSame
  <1>10. Sum(cpuOf(a), R) <= total_cpu /\ Sum(memOf(a), R) <= total_mem
    BY <1>1 DEF WithinLimits, R
  <1> QED
    BY <1>2, <1>3, <1>7, <1>8, <1>9, <1>10

(* No machine of the cluster simulator ever runs more than it has, for any *)
(* machines, jobs and limits and any choice of machines by the scheduler:  *)
(* an earliest_fit is the first moment from which the job fits for good,   *)
(* and the utilization of compute_metrics is never above one.              *)
THEOREM MachinesNotOvercommitted == Spec => []NeverOvercommitted
  <1>1. ClusterInv => NeverOvercommitted
    <2> SUFFICES ASSUME ClusterInv PROVE NeverOvercommitted
      OBVIOUS
    <2>1. Cluster!EarliestFit
      BY FitsAtEarliest
    <2>2. completed # <<>> => Cluster!total_cpu_time <= Cluster!total_capacity
      BY Utilization
    <2>3. ASSUME NEW m \in Machines, NEW t \in {_allocs[m][k].start : k \in DOMAIN _allocs[m]}
          PROVE  t \in Nat
      <3>1. _allocs[m] \in Seq(Alloc)
        BY DEF ClusterInv
      <3>2. \A k \in DOMAIN _allocs[m] : _allocs[m][k].start \in Nat
        BY <3>1, Timeline
      <3> QED BY <3>2
    <2> QED
      BY <2>1, <2>2, <2>3, RunsWithin DEF NeverOvercommitted, Cluster!NeverOvercommitted
  <1> QED
    BY <1>1, ClusterHolds, PTL

(* Every timeline holds what the schedule counts. *)
LEMMA TimelinesCounted ==
  ASSUME ClusterInv
  PROVE  Cluster!total_cpu_time =
           Cluster!SumFunction([m \in Machines |->
             Cluster!SumOver(_allocs[m], LAMBDA x : x.cpu * (x.end - x.start))])
  <1> DEFINE Used(m) == Cluster!SumOver(_allocs[m], LAMBDA x : x.cpu * (x.end - x.start))
             f == [m \in Machines |-> Used(m)]
             w == works
  <1>1. ASSUME NEW m \in Machines PROVE Used(m) = works[m] /\ works[m] \in Int
    <2> DEFINE a == _allocs[m]
               h == spans(a)
               D == DOMAIN a
    <2>1. a \in Seq(Alloc) /\ \A k \in DOMAIN a : a[k].start <= a[k].end
      BY DEF ClusterInv
    <2>2. Used(m) = Cluster!SumFunction(h)
      BY DEF Cluster!SumOver, Cluster!SumAt, spans
    <2>3. DOMAIN h = D
      BY DEF spans
    <2> HIDE DEF a, Used
    <2>4. IsFiniteSet(D) /\ (\A k \in D : h[k] \in Nat) /\ Work(a) \in Nat
      BY <2>1, SpansNat, Timeline
    <2>5. Work(a) = Sum(h, D)
      BY DEF Work
    <2> HIDE DEF h, D
    <2>6. Cluster!SumFunction(h) = Sum(h, D)
      <3>1. \A k \in D : h[k] \in Int
        BY <2>4
      <3> QED BY <2>3, <2>4, <3>1, ClusterSum
    <2> QED BY <2>2, <2>4, <2>5, <2>6 DEF works, a
  <1>2. f = w
    <2> HIDE DEF Used
    <2>1. \A m \in Machines : works[m] = Work(_allocs[m]) /\ Used(m) = works[m]
      BY <1>1 DEF works
    <2> QED BY <2>1 DEF works
  <1>3. DOMAIN w = Machines /\ \A m \in Machines : w[m] \in Int
    <2> HIDE DEF Used
    <2>1. \A m \in Machines : works[m] \in Int
      BY <1>1
    <2>2. DOMAIN works = Machines
      BY DEF works
    <2> QED BY <2>1, <2>2
  <1> HIDE DEF f, w, Used
  <1>4. IsFiniteSet(Machines)
    BY ClusterConstants
  <1>5. Cluster!total_cpu_time = Sum(w, Machines)
    <2>1. Sum(works, Machines) = Sum(costs, DOMAIN completed)
      BY DEF ClusterInv
    <2> QED BY <2>1, CpuTime DEF w
  <1>6. Cluster!SumFunction(w) = Sum(w, Machines)
    BY <1>3, <1>4, ClusterSum
  <1> QED
    <2>1. Cluster!total_cpu_time = Cluster!SumFunction(f)
      BY <1>2, <1>5, <1>6
    <2> QED BY <2>1 DEF f, Used, Cluster!SumOver, Cluster!SumAt

(* What a job did, with the types of its fields. *)
LEMMA JobDone ==
  ASSUME ClusterInv, NEW k \in DOMAIN completed
  PROVE  /\ completed[k].start_time \in Nat /\ completed[k].end_time \in Nat
         /\ completed[k].job \in Jobs
         /\ completed[k].job.submit_time \in Nat /\ completed[k].job.duration \in Nat
         /\ completed[k].end_time = completed[k].start_time + completed[k].job.duration
         /\ completed[k].job.submit_time <= completed[k].start_time
  <1>1. completed[k] \in Done
    BY DEF ClusterInv
  <1>2. /\ completed[k].start_time \in Nat /\ completed[k].end_time \in Nat
        /\ completed[k].job \in Jobs
    BY <1>1 DEF Done
  <1>3. /\ completed[k].job.submit_time \in Nat /\ completed[k].job.duration \in Nat
    BY <1>2, ClusterConstants
  <1> QED BY <1>2, <1>3 DEF ClusterInv

(* The jobs wait for their start, and no less for their end. *)
LEMMA WaitsSound ==
  ASSUME ClusterInv
  PROVE  0 <= Cluster!wait_time /\ Cluster!wait_time <= Cluster!completion_time
  <1> DEFINE D == DOMAIN completed
             w == [k \in D |-> completed[k].start_time - completed[k].job.submit_time]
             c == [k \in D |-> completed[k].end_time - completed[k].job.submit_time]
  <1>1. IsFiniteSet(D)
    BY CostNat DEF ClusterInv
  <1>2. \A k \in D : w[k] \in Nat /\ c[k] \in Int /\ w[k] <= c[k]
    <2> TAKE k \in D
    <2>1. w[k] = completed[k].start_time - completed[k].job.submit_time
          /\ c[k] = completed[k].end_time - completed[k].job.submit_time
      OBVIOUS
    <2> HIDE DEF w, c
    <2> QED BY <2>1, JobDone
  <1>3. /\ Cluster!wait_time = Cluster!SumFunction(w)
        /\ Cluster!completion_time = Cluster!SumFunction(c)
    BY DEF Cluster!wait_time, Cluster!completion_time, Cluster!SumOver, Cluster!SumAt
  <1>4. DOMAIN w = D /\ DOMAIN c = D
    OBVIOUS
  <1> HIDE DEF D, w, c
  <1>5. (\A k \in D : w[k] \in Int) /\ (\A k \in D : c[k] \in Int)
    BY <1>2
  <1>6. Cluster!SumFunction(w) = Sum(w, D) /\ Cluster!SumFunction(c) = Sum(c, D)
    BY <1>1, <1>4, <1>5, ClusterSum
  <1>7. Sum(w, D) \in Nat
    BY <1>1, <1>2, SumNat
  <1>8. Sum(w, D) <= Sum(c, D)
    <2>1. \A k \in D : w[k] \in Int /\ c[k] \in Int /\ w[k] <= c[k]
      BY <1>2
    <2> QED BY <1>1, <2>1, SumLe
  <1> QED BY <1>3, <1>6, <1>7, <1>8

(* The CPU times of the users. *)
LEMMA PerUser ==
  ASSUME ClusterInv
  PROVE  /\ IsFiniteSet(Cluster!users) /\ DOMAIN Cluster!per_user_cpu_time = Cluster!users
         /\ \A u \in Cluster!users : Cluster!per_user_cpu_time[u] \in Nat
         /\ Cluster!SumFunction(Cluster!per_user_cpu_time) =
               Sum(Cluster!per_user_cpu_time, Cluster!users)
         /\ Cluster!total_cpu_time = Sum(Cluster!per_user_cpu_time, Cluster!users)
  <1> DEFINE D == DOMAIN completed
             key == [k \in D |-> completed[k].job.user]
             U == Cluster!users
             p == Cluster!per_user_cpu_time
             h == costs
             Of(u) == Group(D, key, u)
  <1>1. IsFiniteSet(D) /\ \A k \in D : h[k] \in Nat
    BY CostNat DEF ClusterInv
  <1>2. U = {key[k] : k \in D}
    BY DEF Cluster!users
  <1>3. \A u \in U : p[u] = Cluster!SumFunction([k \in Of(u) |-> h[k]])
    <2> TAKE u \in U
    <2>1. {k \in D : completed[k].job.user = u} = Of(u)
      <3>1. \A k \in D : key[k] = completed[k].job.user
        OBVIOUS
      <3> HIDE DEF key, D
      <3> QED BY <3>1 DEF Group
    <2>2. p[u] = Cluster!SumFunction([k \in {k \in D : completed[k].job.user = u}
                                       |-> Cluster!cpu_time(completed[k])])
      BY DEF Cluster!per_user_cpu_time, Cluster!SumAt
    <2>3. \A k \in Of(u) : Cluster!cpu_time(completed[k]) = h[k]
      BY DEF costs, Group
    <2> DEFINE S == Of(u)
    <2> HIDE DEF h, key, Of
    <2>4. p[u] = Cluster!SumFunction([k \in S |-> Cluster!cpu_time(completed[k])])
      BY <2>1, <2>2
    <2>5. \A k \in S : Cluster!cpu_time(completed[k]) = h[k]
      BY <2>3
    <2> HIDE DEF S
    <2>6. [k \in S |-> Cluster!cpu_time(completed[k])] = [k \in S |-> h[k]]
      BY <2>5
    <2>7. p[u] = Cluster!SumFunction([k \in S |-> h[k]])
      BY <2>4, <2>6
    <2> QED BY <2>7 DEF S
  <1>4. DOMAIN p = U
    BY DEF Cluster!per_user_cpu_time
  <1>5. Cluster!total_cpu_time = Sum(h, D)
    BY CpuTime
  <1> HIDE DEF D, key, U, p, h
  <1>6. IsFiniteSet(U)
    BY <1>1, <1>2, ImageFinite
  <1>7. \A u \in U : p[u] = Sum(h, Of(u)) /\ p[u] \in Nat
    <2> TAKE u \in U
    <2> DEFINE S == Of(u)
               g == [k \in S |-> h[k]]
    <2>1. IsFiniteSet(S) /\ S \subseteq D
      <3>1. S \in SUBSET D
        BY DEF Group
      <3> QED BY <1>1, <3>1, FS_Subset
    <2>2. p[u] = Cluster!SumFunction(g)
      BY <1>3
    <2> HIDE DEF Of, S
    <2>3. DOMAIN g = S /\ \A k \in S : g[k] = h[k]
      OBVIOUS
    <2>4. \A k \in S : g[k] \in Int /\ h[k] = g[k] /\ h[k] \in Nat
      BY <1>1, <2>1, <2>3
    <2> HIDE DEF g
    <2>5. Cluster!SumFunction(g) = Sum(g, S)
      <3>1. \A k \in S : g[k] \in Int
        BY <2>4
      <3> QED BY <2>1, <2>3, <3>1, ClusterSum
    <2>6. Sum(g, S) = Sum(h, S)
      BY <2>1, <2>4, SumSame
    <2>7. Sum(h, S) \in Nat
      BY <2>1, <2>4, SumNat
    <2> QED BY <2>2, <2>5, <2>6, <2>7 DEF S
  <1>8. Sum(p, U) = Sum(h, D)
    <2>1. \A k \in D : h[k] \in Int /\ key[k] \in U
      BY <1>1, <1>2
    <2>2. \A u \in U : p[u] = Sum(h, Group(D, key, u))
      BY <1>7
    <2> QED BY <1>1, <1>6, <2>1, <2>2, SumGroups
  <1>9. Cluster!SumFunction(p) = Sum(p, U)
    <2>1. \A u \in U : p[u] \in Int
      <3> HIDE DEF Of
      <3> QED BY <1>7
    <2> QED BY <1>4, <1>6, <2>1, ClusterSum
  <1> QED
    BY <1>4, <1>5, <1>6, <1>7, <1>8, <1>9 DEF U, p

(* Jain's index is between one user's share and one. *)
LEMMA IndexSound ==
  ASSUME ClusterInv, completed # <<>>
  PROVE  LET p == Cluster!per_user_cpu_time IN
         /\ Cluster!jain[1] <= Cluster!jain[2]
         /\ Cluster!jain[2] <= Cluster!Cardinality(Cluster!users) * Cluster!jain[1]
         /\ Cluster!jain[1] = Cluster!jain[2] <=> \A u, v \in Cluster!users : p[u] = p[v]
  <1> DEFINE U == Cluster!users
             p == Cluster!per_user_cpu_time
             q == [u \in U |-> p[u] * p[u]]
             next == Cardinality(U)
             S == Sum(p, U)
             Q == Sum(q, U)
  <1>1. /\ IsFiniteSet(U) /\ \A u \in U : p[u] \in Nat
        /\ Cluster!SumFunction(p) = S /\ Cluster!total_cpu_time = S
    BY PerUser
  <1>2. U # {}
    <2>1. 1 \in DOMAIN completed
      BY DEF ClusterInv
    <2>2. completed[1].job.user \in U
      BY <2>1 DEF Cluster!users
    <2> QED BY <2>2
  <1>3. Cluster!jain = IF S > 0 THEN <<S * S, next * Cluster!SumFunction(q)>> ELSE <<1, 1>>
    <2>1. [u \in U |-> Cluster!square(p[u])] = q
      BY DEF Cluster!square
    <2> HIDE DEF q, S, p, U
    <2>2. Cluster!jain = IF Cluster!total_cpu_time > 0
                         THEN <<Cluster!square(Cluster!SumFunction(p)),
                                Cluster!Cardinality(U)
                                  * Cluster!SumFunction([u \in U |-> Cluster!square(p[u])])>>
                         ELSE <<1, 1>>
      BY DEF Cluster!jain, U, p
    <2>3. Cluster!square(S) = S * S
      BY DEF Cluster!square
    <2> QED BY <1>1, <2>1, <2>2, <2>3, ClusterCardinality
  <1> HIDE DEF U, p
  <1>4. DOMAIN q = U /\ \A u \in U : q[u] = p[u] * p[u]
    OBVIOUS
  <1> HIDE DEF q
  <1>5. \A u \in U : q[u] \in Int
    <2>1. \A a \in Nat : a * a \in Int
      OBVIOUS
    <2> QED BY <1>1, <1>4, <2>1
  <1>6. Cluster!SumFunction(q) = Q
    BY <1>1, <1>4, <1>5, ClusterSum
  <1>7. next \in Nat /\ next # 0
    BY <1>1, <1>2, FS_CardinalityType, FS_EmptySet
  <1>8. S \in Nat
    BY <1>1, SumNat
  <1>9. Q \in Int
    BY <1>1, <1>5, SumInt
  <1> HIDE DEF S, Q, next
  <1>10. /\ S * S <= next * Q /\ next * Q <= next * (S * S)
         /\ S * S = next * Q <=> \A u, v \in U : p[u] = p[v]
    BY <1>1, <1>4, <1>7, Jain DEF S, Q, next
  <1>11. CASE S > 0
    <2>1. Cluster!jain[1] = S * S /\ Cluster!jain[2] = next * Q
      BY <1>3, <1>6, <1>11
    <2> QED BY <1>10, <2>1, ClusterCardinality DEF U, p, next
  <1>12. CASE ~(S > 0)
    <2>1. Cluster!jain[1] = 1 /\ Cluster!jain[2] = 1
      BY <1>3, <1>12
    <2>2. \A u \in U : p[u] = 0
      <3> TAKE u \in U
      <3>1. p[u] <= S
        BY <1>1, PartOfSum DEF S
      <3>2. p[u] \in Nat
        BY <1>1
      <3> QED BY <1>8, <1>12, <3>1, <3>2
    <2>3. 1 <= next * 1
      BY <1>7
    <2>4. Cluster!Cardinality(U) = next
      BY ClusterCardinality DEF next
    <2> QED BY <2>1, <2>2, <2>3, <2>4 DEF U, p
  <1> QED BY <1>11, <1>12

(* The bar of a job that takes time. *)
LEMMA ChartSound ==
  ASSUME ClusterInv, NEW k \in DOMAIN completed, completed[k].job.duration > 0
  PROVE  Cluster!left(completed[k]) + Cluster!bar(completed[k]) <= width
  <1> DEFINE s == completed[k].start_time
             d == completed[k].job.duration
             M == Cluster!makespan
             p == (s * width) \div M
             q == (d * width) \div M
  <1>1. s \in Nat /\ d \in Nat /\ d > 0 /\ completed[k].end_time = s + d
    BY JobDone
  <1>2. M \in Nat /\ completed[k].end_time <= M
    <2>1. completed # <<>>
      OBVIOUS
    <2> QED BY <2>1, Makespan
  <1>3. width \in Nat \ {0}
    BY ClusterConstants
  <1>4. Cluster!scaled(s) = IF M > 0 THEN (s * width) \div M ELSE s
    BY DEF Cluster!scaled
  <1>5. Cluster!scaled(d) = IF M > 0 THEN (d * width) \div M ELSE d
    BY DEF Cluster!scaled
  <1>6. Cluster!left(completed[k]) = Cluster!scaled(s)
    BY DEF Cluster!left
  <1>7. Cluster!bar(completed[k]) = Cluster!Max({1, Cluster!scaled(d)})
    BY DEF Cluster!bar
  <1> HIDE DEF s, d, M
  <1>8. p \in Nat /\ q \in Nat /\ p + 1 <= width /\ p + q <= width
    BY <1>1, <1>2, <1>3, BarInWidth
  <1>9. Cluster!scaled(s) = p /\ Cluster!scaled(d) = q
    BY <1>1, <1>2, <1>4, <1>5
  <1> HIDE DEF p, q
  <1>10. Cluster!Max({1, q}) \in {1, q}
    <2> DEFINE f == [z \in {1, 2} |-> IF z = 1 THEN 1 ELSE q]
    <2>1. {1, q} = {f[z] : z \in {1, 2}} /\ {1, q} \subseteq Int
      BY <1>8
    <2>2. IsFiniteSet({1, 2}) /\ {1, 2} # {}
      <3>1. IsFiniteSet({1} \cup {2})
        BY FS_Singleton, FS_AddElement
      <3>2. {1} \cup {2} = {1, 2}
        OBVIOUS
      <3> QED BY <3>1, <3>2
    <2> HIDE DEF f
    <2> DEFINE E == {1, 2}
               T == {1, q}
    <2>3. IsFiniteSet(E) /\ E # {} /\ T = {f[z] : z \in E} /\ T \subseteq Int
      BY <2>1, <2>2
    <2> HIDE DEF E, T
    <2>4. Cluster!Max(T) \in T
      BY <2>3, GreatestOf
    <2> QED BY <2>4 DEF T
  <1> QED
    BY <1>3, <1>6, <1>7, <1>8, <1>9, <1>10

(* compute_metrics and print_gantt report the schedule they are given, for *)
(* any schedule the simulator can make: the CPU time is what stands in the *)
(* timelines and what the users used, no job waits less than nothing,      *)
(* Jain's index is between one user's share and one and is one for equal   *)
(* shares only, and the bars stay within the width of the chart.           *)
THEOREM MetricsOfTheSchedule == Spec => []MetricsSound
  <1>1. ClusterInv => MetricsSound
    <2> SUFFICES ASSUME ClusterInv PROVE completed # <<>> => MetricsSound
      BY DEF MetricsSound, Cluster!MetricsSound, Cluster!SumOver, Cluster!SumAt
    <2> HAVE completed # <<>>
    <2>1. Cluster!total_cpu_time =
            Cluster!SumFunction([m \in Machines |->
              Cluster!SumOver(_allocs[m], LAMBDA x : x.cpu * (x.end - x.start))])
      BY TimelinesCounted DEF Cluster!SumOver, Cluster!SumAt
    <2>2. Cluster!total_cpu_time = Cluster!SumFunction(Cluster!per_user_cpu_time)
      BY PerUser
    <2>3. 0 <= Cluster!wait_time /\ Cluster!wait_time <= Cluster!completion_time
      BY WaitsSound
    <2>4. /\ Cluster!jain[1] <= Cluster!jain[2]
          /\ Cluster!jain[2] <= Cluster!Cardinality(Cluster!users) * Cluster!jain[1]
          /\ Cluster!jain[1] = Cluster!jain[2] <=>
               \A u, v \in Cluster!users :
                 Cluster!per_user_cpu_time[u] = Cluster!per_user_cpu_time[v]
      BY IndexSound
    <2>5. \A k \in DOMAIN completed :
            completed[k].job.duration > 0 =>
              Cluster!left(completed[k]) + Cluster!bar(completed[k]) <= width
      BY ChartSound
    <2> QED
      BY <2>1, <2>2, <2>3, <2>4, <2>5 DEF MetricsSound, Cluster!MetricsSound,
         Cluster!SumOver, Cluster!SumAt
  <1> QED
    BY <1>1, ClusterHolds, PTL

------------------------------------------------------------------------------
(* fairness.py and analyze.py, which judge the run times of one file.      *)

(* The sum of the model is Sum. *)
LEMMA FairSum ==
  ASSUME NEW f, NEW D, D = DOMAIN f, IsFiniteSet(D), \A x \in D : f[x] \in Int
  PROVE  Fair!SumFunction(f) = Sum(f, D)
  <1> DEFINE g == CHOOSE h : h = [S \in SUBSET D |->
                               IF S = {} THEN 0
                               ELSE f[CHOOSE x \in S : TRUE] + h[S \ {CHOOSE x \in S : TRUE}]]
  <1>1. Fair!SumFunctionOnSet(f, D) = g[D]
    BY DEF Fair!SumFunctionOnSet, Fair!FoldFunctionOnSet, Fair!MapThenFoldSet
  <1>2. g = CHOOSE h : h = [S \in SUBSET D |->
                               IF S = {} THEN 0
                               ELSE f[CHOOSE x \in S : TRUE] + h[S \ {CHOOSE x \in S : TRUE}]]
    OBVIOUS
  <1> HIDE DEF g
  <1>3. g[D] = Sum(f, D)
    BY <1>2, FoldIsSum
  <1> QED
    BY <1>1, <1>3 DEF Fair!SumFunction

(* One notion of cardinality. *)
LEMMA FairCardinality == \A S : Fair!Cardinality(S) = Cardinality(S)
  BY DEF Fair!Cardinality, Cardinality

(* max and min of some run times. *)
LEMMA FairExtremes ==
  ASSUME NEW D, IsFiniteSet(D), D # {}, NEW f, \A k \in D : f[k] \in Nat,
         NEW S, S = {f[k] : k \in D}
  PROVE  /\ Fair!Max(S) \in S /\ \A k \in D : f[k] <= Fair!Max(S)
         /\ Fair!Min(S) \in S /\ \A k \in D : Fair!Min(S) <= f[k]
  <1>1. \E z \in S : \A y \in S : z >= y
    <2>1. \A k \in D : f[k] \in Int
      OBVIOUS
    <2>2. PICK x \in D : \A y \in D : f[y] <= f[x]
      BY <2>1, Largest
    <2> QED BY <2>1, <2>2
  <1>2. \E z \in S : \A y \in S : z <= y
    <2>1. S \in SUBSET Nat /\ S # {}
      OBVIOUS
    <2> QED BY <2>1, LeastNat
  <1>3. Fair!Max(S) \in S /\ \A y \in S : Fair!Max(S) >= y
    BY <1>1 DEF Fair!Max
  <1>4. Fair!Min(S) \in S /\ \A y \in S : Fair!Min(S) <= y
    BY <1>2 DEF Fair!Min
  <1>5. \A k \in D : f[k] \in S /\ f[k] \in Nat
    OBVIOUS
  <1>6. Fair!Max(S) \in Nat
    BY <1>3
  <1> QED BY <1>3, <1>4, <1>5, <1>6

(* The rows of tasks that count, and their run times. *)
Counted(S) == S \in SUBSET DOMAIN rows /\ \A k \in S : rows[k].run > Ms

runs(S) == [k \in S |-> rows[k].run]

(* The run times of some tasks, and the numbers the scripts compute of     *)
(* them.                                                                   *)
LEMMA RunTimes ==
  ASSUME rows \in Seq(Rows), NEW S, Counted(S)
  PROVE  /\ IsFiniteSet(S) /\ Fair!Cardinality(S) = Cardinality(S)
         /\ Cardinality(S) \in Nat /\ (Cardinality(S) = 0 <=> S = {}) /\ Ms \in Nat \ {0}
         /\ \A k \in S : runs(S)[k] = rows[k].run /\ runs(S)[k] \in Nat /\ runs(S)[k] > Ms
         /\ Fair!total(S) \in Int /\ Fair!spread(S) \in Int
         /\ S # {} =>
              /\ Fair!total(S) > 0 /\ Fair!spread(S) >= 0
              /\ Fair!spread(S) = 0 <=> \A l, k \in S : runs(S)[l] = runs(S)[k]
  <1> DEFINE r == runs(S)
             q == [k \in S |-> rows[k].run * rows[k].run]
             T == Sum(r, S)
             Q == Sum(q, S)
             c == Cardinality(S)
  <1>1. /\ Rows \subseteq [columns : 0 .. 5, good : 0 .. 5, run : Nat, wait : Nat]
        /\ Ms \in Nat \ {0}
    BY ToolsAssumption DEF Fair!FairnessAssumption
  <1>2. S \in SUBSET DOMAIN rows /\ \A k \in S : rows[k].run > Ms
    BY DEF Counted
  <1>3. DOMAIN rows = 1 .. Len(rows) /\ Len(rows) \in Int
    OBVIOUS
  <1>4. Fair!Cardinality(S) = c
    BY FairCardinality
  <1>5. Fair!total(S) = Fair!SumFunction(r)
    BY DEF Fair!total, Fair!Total, runs
  <1>6. Fair!spread(S) = Fair!Cardinality(S) * Fair!SumFunction(q)
                           - Fair!total(S) * Fair!total(S)
    BY DEF Fair!spread, Fair!Total
  <1>7. DOMAIN r = S /\ \A k \in S : r[k] = rows[k].run
    BY DEF runs
  <1>8. DOMAIN q = S /\ \A k \in S : q[k] = rows[k].run * rows[k].run
    OBVIOUS
  <1> HIDE DEF r, q
  <1>9. IsFiniteSet(S)
    <2>1. 1 \in Int /\ Len(rows) \in Int
      BY <1>3
    <2>2. IsFiniteSet(1 .. Len(rows))
      BY ONLY <2>1, FS_Interval
    <2>3. S \in SUBSET (1 .. Len(rows))
      BY <1>2, <1>3
    <2> QED BY ONLY <2>2, <2>3, FS_Subset
  <1>10. \A k \in S : r[k] \in Nat /\ r[k] > Ms /\ r[k] \in Int
    <2> TAKE k \in S
    <2>1. rows[k] \in Rows
      BY <1>2, <1>3
    <2>2. rows[k].run \in Nat
      BY <1>1, <2>1
    <2> QED BY <1>1, <1>2, <1>7, <2>2
  <1>11. \A k \in S : q[k] = r[k] * r[k] /\ q[k] \in Int
    <2>1. \A a \in Nat : a * a \in Int
      OBVIOUS
    <2> QED BY <1>7, <1>8, <1>10, <2>1
  <1>12. Fair!SumFunction(r) = T
    <2>1. \A k \in S : r[k] \in Int
      BY <1>10
    <2> QED BY <1>7, <1>9, <2>1, FairSum
  <1>13. Fair!SumFunction(q) = Q
    <2>1. \A k \in S : q[k] \in Int
      BY <1>11
    <2> QED BY <1>8, <1>9, <2>1, FairSum
  <1>14. T \in Nat /\ Q \in Int
    BY <1>9, <1>10, <1>11, SumNat, SumInt
  <1>15. c \in Nat /\ (c = 0 <=> S = {})
    BY <1>9, FS_CardinalityType, FS_EmptySet
  <1>16. Fair!total(S) = T /\ Fair!spread(S) = c * Q - T * T
    BY <1>4, <1>5, <1>6, <1>12, <1>13
  <1>17. ASSUME c # 0
         PROVE  /\ T * T <= c * Q
                /\ T * T = c * Q <=> \A l, k \in S : r[l] = r[k]
    <2>1. \A k \in S : r[k] \in Nat
      BY <1>10
    <2>2. \A k \in S : q[k] = r[k] * r[k]
      BY <1>11
    <2> QED BY <1>9, <1>15, <1>17, <2>1, <2>2, Jain
  <1>18. ASSUME c # 0 PROVE T > 0
    <2>1. PICK k \in S : TRUE
      BY <1>15, <1>18
    <2>2. \A l \in S : r[l] \in Nat
      BY <1>10
    <2>3. r[k] <= T
      BY <1>9, <2>1, <2>2, PartOfSum
    <2> QED BY <1>1, <1>10, <1>14, <2>1, <2>3
  <1> HIDE DEF T, Q, c
  <1>19. T * T \in Int /\ c * Q \in Int
    <2>1. \A a, b \in Int : a * b \in Int
      OBVIOUS
    <2> QED BY <1>14, <1>15, <2>1
  <1>20. ASSUME c # 0
         PROVE  /\ c * Q - T * T >= 0
                /\ c * Q - T * T = 0 <=> \A l, k \in S : r[l] = r[k]
    <2>1. \A a, b \in Int : (a <= b => b - a >= 0) /\ (b - a = 0 <=> a = b)
      OBVIOUS
    <2> QED BY <1>17, <1>19, <1>20, <2>1
  <1>21. c * Q - T * T \in Int
    BY <1>19
  <1> QED
    BY <1>1, <1>4, <1>7, <1>9, <1>10, <1>14, <1>15, <1>16, <1>18, <1>20, <1>21 DEF c, r

(* A sample of m has m / (m - 1) times the variance of a population.       *)
LEMMA Variances ==
  ASSUME NEW m \in Nat, m > 1, NEW a \in Nat, NEW b \in Nat
  PROVE  /\ 100 * a < b => 100 * (m * a) < 9 * ((m - 1) * b)
         /\ 100 * a >= b => 100 * (m * a) >= (m - 1) * b
         /\ 100 * a >= 9 * b => 100 * (m * a) >= 9 * ((m - 1) * b)
         /\ a = 0 /\ b > 0 => 100 * (m * a) < (m - 1) * b
         /\ m * a \in Nat /\ (m - 1) * b \in Nat
  <1> DEFINE ma == m * a
             mb == m * b
             rb == (m - 1) * b
  <1>1. ma \in Nat /\ mb \in Nat /\ rb \in Nat
    <2>1. \A x, y \in Nat : x * y \in Nat
      OBVIOUS
    <2>2. m - 1 \in Nat
      OBVIOUS
    <2> QED BY <2>1, <2>2
  <1>2. rb + b = mb
    OBVIOUS
  <1>3. rb >= b
    <2>1. \A x, y \in Nat : x > 0 => x * y >= y
      OBVIOUS
    <2>2. m - 1 \in Nat /\ m - 1 > 0
      OBVIOUS
    <2> QED BY <2>1, <2>2
  <1>4. m * (100 * a) = 100 * ma /\ m * (9 * b) = 9 * mb
    OBVIOUS
  <1>5. 100 * a \in Nat /\ 9 * b \in Nat
    OBVIOUS
  <1>6. \A x, y \in Nat : (x < y => m * x < m * y) /\ (x >= y => m * x >= m * y)
    OBVIOUS
  <1>7. a = 0 => ma = 0
    OBVIOUS
  <1> HIDE DEF ma, mb, rb
  <1>8. 100 * a < b => 100 * ma < mb
    BY <1>4, <1>5, <1>6 DEF mb
  <1>9. 100 * a >= b => 100 * ma >= mb
    BY <1>4, <1>5, <1>6 DEF mb
  <1>10. 100 * a >= 9 * b => 100 * ma >= 9 * mb
    BY <1>4, <1>5, <1>6
  <1> QED
    BY <1>1, <1>2, <1>3, <1>7, <1>8, <1>9, <1>10 DEF ma, rb

(* What the scripts say. *)
VeryFair == "very fair"
Reasonable == "reasonably fair"
Unfair == "unfair"
Otherwise == {"nothing", "no data", "none significant", "exception"}

(* They are different. *)
LEMMA WordsDiffer ==
  /\ VeryFair # Reasonable /\ VeryFair # Unfair /\ Reasonable # Unfair
  /\ VeryFair \notin Otherwise /\ Reasonable \notin Otherwise /\ Unfair \notin Otherwise
  <1>1. VeryFair # Reasonable /\ VeryFair # Unfair /\ Reasonable # Unfair
    BY Zenon DEF VeryFair, Reasonable, Unfair
  <1>2. VeryFair \notin Otherwise
    BY Zenon DEF VeryFair, Otherwise
  <1>3. Reasonable \notin Otherwise
    BY Zenon DEF Reasonable, Otherwise
  <1>4. Unfair \notin Otherwise
    BY Zenon DEF Unfair, Otherwise
  <1> QED BY <1>1, <1>2, <1>3, <1>4

(* A verdict is one of three. *)
LEMMA OneVerdict ==
  ASSUME NEW a, NEW b
  PROVE  Fair!Verdict(a, b) = IF 100 * a < b THEN VeryFair
                              ELSE IF 100 * a < 9 * b THEN Reasonable ELSE Unfair
  BY Zenon DEF Fair!Verdict, VeryFair, Reasonable, Unfair

(* The two verdicts on m run times: fairness.py is the stricter, by one    *)
(* word at most.                                                           *)
Strict(m, a, b) == IF m > 1 THEN Fair!Verdict(m * a, (m - 1) * b) ELSE VeryFair

LEMMA TwoVerdicts ==
  ASSUME NEW m \in Nat, m > 0, NEW a \in Nat, NEW b \in Nat, b > 0, m = 1 => a = 0
  PROVE  /\ \/ Fair!Verdict(a, b) = VeryFair /\ Strict(m, a, b) \in {VeryFair, Reasonable}
            \/ Fair!Verdict(a, b) = Reasonable /\ Strict(m, a, b) \in {Reasonable, Unfair}
            \/ Fair!Verdict(a, b) = Unfair /\ Strict(m, a, b) = Unfair
         /\ a = 0 => Strict(m, a, b) = VeryFair /\ Fair!Verdict(a, b) = VeryFair
  <1>1. \/ 100 * a < b /\ Fair!Verdict(a, b) = VeryFair
        \/ 100 * a >= b /\ Fair!Verdict(a, b) = Reasonable
        \/ 100 * a >= 9 * b /\ 100 * a >= b /\ Fair!Verdict(a, b) = Unfair
    BY OneVerdict
  <1>2. CASE m = 1
    <2>1. a = 0 /\ Strict(m, a, b) = VeryFair
      BY <1>2 DEF Strict
    <2>2. Fair!Verdict(a, b) = VeryFair
      BY <2>1, OneVerdict
    <2> QED BY <2>1, <2>2
  <1>3. CASE m > 1
    <2> DEFINE ma == m * a
               rb == (m - 1) * b
    <2>1. /\ 100 * a < b => 100 * ma < 9 * rb
          /\ 100 * a >= b => 100 * ma >= rb
          /\ 100 * a >= 9 * b => 100 * ma >= 9 * rb
          /\ a = 0 => 100 * ma < rb
          /\ ma \in Nat /\ rb \in Nat
      BY <1>3, Variances
    <2> DEFINE s == Strict(m, a, b)
    <2>2. s = Fair!Verdict(ma, rb)
      BY <1>3 DEF Strict
    <2> HIDE DEF ma, rb, s
    <2>3. \/ 100 * ma < rb /\ s = VeryFair
          \/ ~(100 * ma < rb) /\ 100 * ma < 9 * rb /\ s = Reasonable
          \/ ~(100 * ma < rb) /\ ~(100 * ma < 9 * rb) /\ s = Unfair
      BY <2>2, OneVerdict
    <2>5. a = 0 => Fair!Verdict(a, b) = VeryFair
      BY OneVerdict
    <2>4. /\ 100 * a < b => s \in {VeryFair, Reasonable}
          /\ 100 * a >= b => s \in {Reasonable, Unfair}
          /\ 100 * a >= 9 * b => s = Unfair
          /\ a = 0 => s = VeryFair
      BY <2>1, <2>3
    <2> QED BY <1>1, <2>4, <2>5 DEF s
  <1> QED BY <1>2, <1>3

(* The tasks that count for fairness.py, and for analyze.py. *)
Strictly == Fair!significant(Fair!parsed)
Leniently == Fair!significant(Fair!looked_at)

(* What fairness.py prints the ratio of. *)
Ratio ==
  IF Fair!missing = {} /\ Fair!Cardinality(Strictly) = 2
  THEN <<Fair!Greatest(Strictly), Fair!Least(Strictly)>> ELSE <<>>

(* What the scripts have said of the rows once both have read them.        *)
FairInv ==
  /\ rows \in Seq(Rows)
  /\ \/ reading = "read" /\ fairness = "nothing" /\ ratio = <<>> /\ analyze = "nothing"
     \/ /\ reading = "done" /\ fairness = Fair!main /\ ratio = Ratio
        /\ analyze = Fair!analyze_fairness

(* A step keeps it: the verdicts are those on the rows that were read. *)
LEMMA FairStep ==
  ASSUME FairInv, [Next]_vars
  PROVE  FairInv'
  <1>1. ASSUME rows' = rows
        PROVE  /\ Fair!main' = Fair!main /\ Ratio' = Ratio
               /\ Fair!analyze_fairness' = Fair!analyze_fairness
    <2>1. /\ Fair!parsed' = Fair!parsed /\ Fair!missing' = Fair!missing
          /\ Fair!looked_at' = Fair!looked_at /\ Fair!bad' = Fair!bad
          /\ Strictly' = Strictly /\ Leniently' = Leniently
      BY <1>1 DEF Fair!parsed, Fair!missing, Fair!looked_at, Fair!bad, Fair!significant,
                  Strictly, Leniently
    <2>2. /\ Fair!total(Strictly)' = Fair!total(Strictly)
          /\ Fair!total(Leniently)' = Fair!total(Leniently)
      BY <1>1, <2>1 DEF Fair!total, Fair!Total
    <2>3. /\ Fair!spread(Strictly)' = Fair!spread(Strictly)
          /\ Fair!spread(Leniently)' = Fair!spread(Leniently)
      BY <1>1, <2>1, <2>2 DEF Fair!spread, Fair!Total
    <2>4. Fair!SampleVerdict(Strictly)' = Fair!SampleVerdict(Strictly)
      BY <2>1, <2>2, <2>3, Zenon DEF Fair!SampleVerdict
    <2>5. Fair!PopulationVerdict(Leniently)' = Fair!PopulationVerdict(Leniently)
      BY <2>1, <2>2, <2>3, Zenon DEF Fair!PopulationVerdict
    <2>6. Fair!main' = Fair!main
      BY <2>1, <2>4, Zenon DEF Fair!main, Strictly
    <2>7. /\ Fair!Greatest(Strictly)' = Fair!Greatest(Strictly)
          /\ Fair!Least(Strictly)' = Fair!Least(Strictly)
      BY <1>1, <2>1 DEF Fair!Greatest, Fair!Least
    <2>8. Ratio' = Ratio
      BY <2>1, <2>7 DEF Ratio
    <2>9. Fair!analyze_fairness' = Fair!analyze_fairness
      BY <2>1, <2>5, Zenon DEF Fair!analyze_fairness, Leniently
    <2> QED BY <2>6, <2>8, <2>9
  <1>2. CASE RunFairness
    <2>1. Fair!Next
      BY <1>2 DEF RunFairness
    <2>2. ASSUME NEW r \in Rows, Fair!Row(r) PROVE FairInv'
      <3>1. /\ reading = "read" /\ rows' = Append(rows, r)
            /\ UNCHANGED <<reading, fairness, ratio, analyze>>
        BY <2>2 DEF Fair!Row, Fair!said
      <3>2. rows' \in Seq(Rows)
        BY <3>1 DEF FairInv
      <3> QED BY <3>1, <3>2 DEF FairInv
    <2>3. CASE Fair!Judge
      <3>1. /\ rows' = rows /\ reading' = "done" /\ fairness' = Fair!main
            /\ analyze' = Fair!analyze_fairness
        BY <2>3 DEF Fair!Judge
      <3>2. ratio' = Ratio
        BY <2>3 DEF Fair!Judge, Ratio, Strictly
      <3>3. /\ Fair!main' = Fair!main /\ Ratio' = Ratio
            /\ Fair!analyze_fairness' = Fair!analyze_fairness
        BY <1>1, <3>1
      <3>4. rows' \in Seq(Rows)
        BY <3>1 DEF FairInv
      <3>5. /\ reading' = "done" /\ fairness' = Fair!main' /\ ratio' = Ratio'
            /\ analyze' = Fair!analyze_fairness'
        BY <3>1, <3>2, <3>3
      <3> QED BY <3>4, <3>5 DEF FairInv
    <2> QED BY <2>1, <2>2, <2>3 DEF Fair!Next
  <1>3. CASE UNCHANGED fair
    BY <1>1, <1>3 DEF FairInv, fair
  <1> QED
    BY <1>2, <1>3 DEF Next, vars, RunQs, ProbeRuns, RunPercentiles, RunCluster,
                      RunThrottling, RunBenchmark

(* Its place in the order of the verdicts, or 0. *)
Place(w) ==
  LET I == {p \in 1 .. Len(Fair!Verdicts) : Fair!Verdicts[p] = w}
  IN  IF I # {} THEN Fair!Min(I) ELSE 0

(* The order of the verdicts. *)
LEMMA WordPlaces ==
  /\ Place(VeryFair) = 1 /\ Place(Reasonable) = 2 /\ Place(Unfair) = 3
  /\ \A w \in Otherwise : Place(w) = 0
  <1>1. Fair!Verdicts = <<VeryFair, Reasonable, Unfair>>
    BY Zenon DEF Fair!Verdicts, VeryFair, Reasonable, Unfair
  <1> DEFINE I(w) == {p \in 1 .. Len(Fair!Verdicts) : Fair!Verdicts[p] = w}
  <1>2. ASSUME NEW w PROVE I(w) = {p \in {1, 2, 3} : <<VeryFair, Reasonable, Unfair>>[p] = w}
    <2>1. Len(<<VeryFair, Reasonable, Unfair>>) = 3 /\ 1 .. 3 = {1, 2, 3}
      OBVIOUS
    <2> QED BY <1>1, <2>1
  <1>3. ASSUME NEW k \in Nat PROVE Fair!Min({k}) = k
    <2>1. \E x \in {k} : \A y \in {k} : x <= y
      OBVIOUS
    <2>2. Fair!Min({k}) \in {k}
      BY <2>1 DEF Fair!Min
    <2> QED BY <2>2
  <1> DEFINE V == <<VeryFair, Reasonable, Unfair>>
  <1>7. V[1] = VeryFair /\ V[2] = Reasonable /\ V[3] = Unfair
    OBVIOUS
  <1>8. \A w : I(w) = {p \in {1, 2, 3} : V[p] = w}
    BY <1>2
  <1> HIDE DEF V, I
  <1>4. I(VeryFair) = {1} /\ I(Reasonable) = {2} /\ I(Unfair) = {3}
    <2>1. VeryFair # Reasonable /\ VeryFair # Unfair /\ Reasonable # Unfair
      BY WordsDiffer
    <2>2. I(VeryFair) = {1}
      BY <1>7, <1>8, <2>1
    <2>3. I(Reasonable) = {2}
      BY <1>7, <1>8, <2>1
    <2>4. I(Unfair) = {3}
      BY <1>7, <1>8, <2>1
    <2> QED BY <2>2, <2>3, <2>4
  <1>5. \A w \in Otherwise : I(w) = {}
    <2> TAKE w \in Otherwise
    <2>1. w # VeryFair /\ w # Reasonable /\ w # Unfair
      BY WordsDiffer
    <2> QED BY <1>7, <1>8, <2>1
  <1>6. \A w : Place(w) = IF I(w) # {} THEN Fair!Min(I(w)) ELSE 0
    BY DEF Place, I
  <1> QED BY <1>3, <1>4, <1>5, <1>6

(* Verdicts on tasks that count, of which there is one at least. *)
LEMMA Judged ==
  ASSUME rows \in Seq(Rows), NEW S, Counted(S), S # {}
  PROVE  /\ Fair!SampleVerdict(S) =
              Strict(Cardinality(S), Fair!spread(S), Fair!total(S) * Fair!total(S))
         /\ Fair!PopulationVerdict(S) =
              Fair!Verdict(Fair!spread(S), Fair!total(S) * Fair!total(S))
         /\ Cardinality(S) \in Nat /\ Cardinality(S) > 0 /\ Fair!spread(S) \in Nat
         /\ Fair!total(S) * Fair!total(S) \in Nat /\ Fair!total(S) * Fair!total(S) > 0
         /\ Cardinality(S) = 1 => Fair!spread(S) = 0
         /\ Fair!Greatest(S) = Fair!Least(S) => Fair!spread(S) = 0
         /\ Fair!Greatest(S) \in Nat /\ Fair!Least(S) \in Nat
         /\ Fair!Greatest(S) >= Fair!Least(S) /\ Fair!Least(S) > Ms
  <1> DEFINE T == {rows[k].run : k \in S}
             r == runs(S)
             t == Fair!total(S)
             a == Fair!spread(S)
             m == Cardinality(S)
  <1>1. /\ IsFiniteSet(S) /\ Fair!Cardinality(S) = m /\ m \in Nat /\ m > 0
        /\ Ms \in Nat
        /\ \A k \in S : r[k] = rows[k].run /\ r[k] \in Nat /\ r[k] > Ms
        /\ t \in Int /\ t > 0 /\ a \in Int /\ a >= 0
        /\ a = 0 <=> \A l, k \in S : r[l] = r[k]
    BY RunTimes
  <1>2. t * t \in Nat /\ t * t > 0
    <2>1. \A x \in Int : x > 0 => x * x \in Nat /\ x * x > 0
      OBVIOUS
    <2> HIDE DEF t
    <2> QED BY <1>1, <2>1
  <1>3. Fair!SampleVerdict(S) = Strict(m, a, t * t)
    <2>1. (m - 1) * t * t = (m - 1) * (t * t)
      <3>1. \A x, y \in Int : (x - 1) * y * y = (x - 1) * (y * y)
        OBVIOUS
      <3> HIDE DEF m, t
      <3> QED BY <1>1, <3>1
    <2>2. Fair!SampleVerdict(S) =
            IF Fair!Cardinality(S) > 1
            THEN Fair!Verdict(Fair!Cardinality(S) * a, (Fair!Cardinality(S) - 1) * t * t)
            ELSE VeryFair
      BY Zenon DEF Fair!SampleVerdict, VeryFair
    <2> HIDE DEF m, t, a
    <2> QED BY <1>1, <2>1, <2>2 DEF Strict
  <1>4. Fair!PopulationVerdict(S) = Fair!Verdict(a, t * t)
    BY Zenon DEF Fair!PopulationVerdict
  <1>5. T = {r[k] : k \in S}
    BY <1>1
  <1>6. Fair!Greatest(S) = Fair!Max(T) /\ Fair!Least(S) = Fair!Min(T)
    BY DEF Fair!Greatest, Fair!Least
  <1> HIDE DEF T, r, t, a, m
  <1>7. /\ Fair!Max(T) \in T /\ \A k \in S : r[k] <= Fair!Max(T)
        /\ Fair!Min(T) \in T /\ \A k \in S : Fair!Min(T) <= r[k]
    <2>1. IsFiniteSet(S) /\ S # {} /\ \A k \in S : r[k] \in Nat
      BY <1>1
    <2> QED BY <1>5, <2>1, FairExtremes
  <1>8. /\ Fair!Max(T) \in Nat /\ Fair!Min(T) \in Nat
        /\ Fair!Max(T) >= Fair!Min(T) /\ Fair!Min(T) > Ms
    <2>1. Fair!Max(T) \in Nat /\ Fair!Min(T) \in Nat /\ Fair!Min(T) > Ms
      BY <1>1, <1>5, <1>7
    <2>2. PICK k \in S : TRUE
      OBVIOUS
    <2>3. r[k] \in Nat /\ Fair!Min(T) <= r[k] /\ r[k] <= Fair!Max(T)
      BY <1>1, <1>7
    <2> QED BY <2>1, <2>3
  <1>9. Fair!Max(T) = Fair!Min(T) => a = 0
    <2> SUFFICES ASSUME Fair!Max(T) = Fair!Min(T) PROVE \A l, k \in S : r[l] = r[k]
      BY <1>1
    <2> QED BY <1>1, <1>7, <1>8
  <1>10. m = 1 => a = 0
    <2> SUFFICES ASSUME m = 1 PROVE \A l, k \in S : l = k
      BY <1>1
    <2>1. \E x : S = {x}
      BY <1>1, FS_Singleton DEF m
    <2> QED BY <2>1
  <1>11. a \in Nat
    BY <1>1
  <1> QED
    BY <1>1, <1>2, <1>3, <1>4, <1>6, <1>8, <1>9, <1>10, <1>11 DEF m, a, t

(* A script with a verdict has found tasks that count, and it is of these. *)
LEMMA VerdictsOf ==
  ASSUME FairInv
  PROVE  /\ Counted(Strictly) /\ Counted(Leniently)
         /\ \/ Place(fairness) = 0
            \/ Strictly # {} /\ fairness = Fair!SampleVerdict(Strictly)
         /\ \/ Place(analyze) = 0
            \/ Leniently # {} /\ analyze = Fair!PopulationVerdict(Leniently)
         /\ reading = "done" /\ Strictly # {} =>
              fairness \in {"exception", Fair!SampleVerdict(Strictly)}
         /\ reading = "done" /\ Leniently # {} =>
              analyze \in {"exception", Fair!PopulationVerdict(Leniently)}
         /\ reading = "read" => Place(fairness) = 0 /\ Place(analyze) = 0 /\ ratio = <<>>
  <1>1. Counted(Strictly) /\ Counted(Leniently)
    <2>1. Ms \in Nat
      BY ToolsAssumption DEF Fair!FairnessAssumption
    <2> QED
      BY <2>1 DEF Counted, Strictly, Leniently, Fair!significant, Fair!parsed, Fair!looked_at
  <1>2. Strictly # {} => Fair!parsed # {}
    BY DEF Strictly, Fair!significant
  <1>3. reading = "read" => fairness \in Otherwise /\ analyze \in Otherwise /\ ratio = <<>>
    BY Zenon DEF FairInv, Otherwise
  <1>4. reading = "done" =>
          \/ fairness = "exception"
          \/ fairness \in Otherwise /\ Strictly = {}
          \/ Strictly # {} /\ fairness = Fair!SampleVerdict(Strictly)
    BY <1>2, Zenon DEF FairInv, Fair!main, Strictly, Otherwise
  <1>5. reading = "done" =>
          \/ analyze = "exception"
          \/ analyze \in Otherwise /\ Leniently = {}
          \/ Leniently # {} /\ analyze = Fair!PopulationVerdict(Leniently)
    BY Zenon DEF FairInv, Fair!analyze_fairness, Leniently, Otherwise
  <1>6. reading = "read" \/ reading = "done"
    BY DEF FairInv
  <1>7. \A w \in Otherwise : Place(w) = 0
    BY WordPlaces
  <1>8. "exception" \in Otherwise
    BY Zenon DEF Otherwise
  <1> HIDE DEF Otherwise
  <1> QED
    BY <1>1, <1>3, <1>4, <1>5, <1>6, <1>7, <1>8, Zenon

(* The scripts agree once both have spoken, and before. *)
LEMMA VerdictsSound ==
  ASSUME FairInv
  PROVE  Fair!VerdictsAgree
  <1> DEFINE strict == Place(fairness)
             lenient == Place(analyze)
  <1>0. rows \in Seq(Rows) /\ Place("exception") = 0
    <2>1. "exception" \in Otherwise
      BY Zenon DEF Otherwise
    <2> QED BY <2>1, WordPlaces DEF FairInv
  <1>1. ASSUME Strictly = Leniently
        PROVE  /\ lenient > 0 => fairness = "exception" \/ strict \in {lenient, lenient + 1}
               /\ strict > 0 => analyze = "exception" \/ lenient > 0
    <2>1. CASE reading = "read" \/ Strictly = {}
      <3>1. strict = 0 /\ lenient = 0
        BY <1>1, <2>1, VerdictsOf
      <3> QED BY <3>1
    <2>2. CASE reading = "done" /\ Strictly # {}
      <3> DEFINE m == Cardinality(Strictly)
                 a == Fair!spread(Strictly)
                 b == Fair!total(Strictly) * Fair!total(Strictly)
      <3>1. /\ fairness \in {"exception", Strict(m, a, b)}
            /\ analyze \in {"exception", Fair!Verdict(a, b)}
            /\ m \in Nat /\ m > 0 /\ a \in Nat /\ b \in Nat /\ b > 0 /\ (m = 1 => a = 0)
        BY <1>0, <1>1, <2>2, VerdictsOf, Judged
      <3> HIDE DEF m, a, b
      <3>2. \/ Fair!Verdict(a, b) = VeryFair /\ Strict(m, a, b) \in {VeryFair, Reasonable}
            \/ Fair!Verdict(a, b) = Reasonable /\ Strict(m, a, b) \in {Reasonable, Unfair}
            \/ Fair!Verdict(a, b) = Unfair /\ Strict(m, a, b) = Unfair
        BY <3>1, TwoVerdicts
      <3>3. Place(VeryFair) = 1 /\ Place(Reasonable) = 2 /\ Place(Unfair) = 3
        BY WordPlaces
      <3>4. /\ Place(Fair!Verdict(a, b)) > 0
            /\ Place(Strict(m, a, b)) \in
                 {Place(Fair!Verdict(a, b)), Place(Fair!Verdict(a, b)) + 1}
        BY <3>2, <3>3
      <3> QED BY <1>0, <3>1, <3>4
    <2> QED BY <2>1, <2>2 DEF FairInv
  <1>2. ASSUME strict > 0, Fair!Greatest(Strictly) = Fair!Least(Strictly) PROVE strict = 1
    <2>1. Strictly # {} /\ Counted(Strictly) /\ fairness = Fair!SampleVerdict(Strictly)
      BY <1>2, VerdictsOf
    <2> DEFINE m == Cardinality(Strictly)
               a == Fair!spread(Strictly)
               b == Fair!total(Strictly) * Fair!total(Strictly)
    <2>2. /\ fairness = Strict(m, a, b)
          /\ m \in Nat /\ m > 0 /\ a = 0 /\ a \in Nat /\ b \in Nat /\ b > 0
      BY <1>0, <1>2, <2>1, Judged
    <2> HIDE DEF m, a, b
    <2>3. fairness = VeryFair
      BY <2>2, TwoVerdicts
    <2> QED BY <2>3, WordPlaces
  <1>3. ASSUME lenient > 0, Fair!Greatest(Leniently) = Fair!Least(Leniently) PROVE lenient = 1
    <2>1. Leniently # {} /\ Counted(Leniently) /\ analyze = Fair!PopulationVerdict(Leniently)
      BY <1>3, VerdictsOf
    <2> DEFINE m == Cardinality(Leniently)
               a == Fair!spread(Leniently)
               b == Fair!total(Leniently) * Fair!total(Leniently)
    <2>2. /\ analyze = Fair!Verdict(a, b)
          /\ m \in Nat /\ m > 0 /\ a = 0 /\ a \in Nat /\ b \in Nat /\ b > 0
      BY <1>0, <1>3, <2>1, Judged
    <2> HIDE DEF m, a, b
    <2>3. analyze = VeryFair
      BY <2>2, TwoVerdicts
    <2> QED BY <2>3, WordPlaces
  <1>4. ASSUME ratio # <<>> PROVE ratio[1] >= ratio[2] /\ ratio[2] > Ms
    <2>1. reading = "done" /\ ratio = Ratio
      BY <1>4, VerdictsOf DEF FairInv
    <2>2. /\ Fair!Cardinality(Strictly) = 2
          /\ ratio = <<Fair!Greatest(Strictly), Fair!Least(Strictly)>>
      BY <1>4, <2>1 DEF Ratio
    <2>3. Counted(Strictly) /\ Strictly # {}
      <3>1. Counted(Strictly)
        BY VerdictsOf
      <3>2. Cardinality(Strictly) = 2
        BY <1>0, <2>2, <3>1, RunTimes
      <3> QED BY <3>1, <3>2, FS_EmptySet
    <2>4. Fair!Greatest(Strictly) >= Fair!Least(Strictly) /\ Fair!Least(Strictly) > Ms
      BY <1>0, <2>3, Judged
    <2> QED BY <2>2, <2>4
  <1> QED
    BY <1>1, <1>2, <1>3, <1>4
    DEF Fair!VerdictsAgree, Fair!SelectInSeq, Place, Strictly, Leniently

(* The invariants. *)
LEMMA FairHolds == Spec => []FairInv
  <1>1. Init => FairInv
    <2> SUFFICES ASSUME Init PROVE FairInv
      OBVIOUS
    <2>1. Fair!Init
      BY DEF Init
    <2>2. /\ rows = <<>> /\ reading = "read" /\ fairness = "nothing" /\ ratio = <<>>
          /\ analyze = "nothing"
      BY <2>1 DEF Fair!Init
    <2>3. <<>> \in Seq(Rows)
      OBVIOUS
    <2> QED BY <2>2, <2>3 DEF FairInv
  <1>2. FairInv /\ [Next]_vars => FairInv'
    BY FairStep
  <1> QED
    BY <1>1, <1>2, PTL DEF Spec

------------------------------------------------------------------------------
(* measure_throttling.sh and analyze_throttling.py.                        *)

(* The sum of the model is Sum. *)
LEMMA ThrottleSum ==
  ASSUME NEW f, NEW D, D = DOMAIN f, IsFiniteSet(D), \A x \in D : f[x] \in Int
  PROVE  Throttle!SumFunction(f) = Sum(f, D)
  <1> DEFINE g == CHOOSE h : h = [S \in SUBSET D |->
                               IF S = {} THEN 0
                               ELSE f[CHOOSE x \in S : TRUE] + h[S \ {CHOOSE x \in S : TRUE}]]
  <1>1. Throttle!SumFunctionOnSet(f, D) = g[D]
    BY DEF Throttle!SumFunctionOnSet, Throttle!FoldFunctionOnSet, Throttle!MapThenFoldSet
  <1>2. g = CHOOSE h : h = [S \in SUBSET D |->
                               IF S = {} THEN 0
                               ELSE f[CHOOSE x \in S : TRUE] + h[S \ {CHOOSE x \in S : TRUE}]]
    OBVIOUS
  <1> HIDE DEF g
  <1>3. g[D] = Sum(f, D)
    BY <1>2, FoldIsSum
  <1> QED
    BY <1>1, <1>3 DEF Throttle!SumFunction

(* The differences of neighbours add up to that of the last and the first. *)
LEMMA Telescope ==
  ASSUME NEW m \in Nat, m > 0, NEW x, \A k \in 1 .. m : x[k] \in Int,
         NEW d, \A k \in 1 .. m : d[k] = IF k = 1 THEN 0 ELSE x[k] - x[k - 1]
  PROVE  /\ IsFiniteSet(1 .. m) /\ \A k \in 1 .. m : d[k] \in Int
         /\ Sum(d, 1 .. m) = x[m] - x[1]
  <1>1. ASSUME NEW k \in 1 .. m PROVE d[k] \in Int
    <2>1. CASE k = 1
      BY <2>1
    <2>2. CASE k # 1
      <3>1. k - 1 \in 1 .. m
        BY <2>2
      <3>2. x[k] \in Int /\ x[k - 1] \in Int
        BY <3>1
      <3> QED BY <2>2, <3>2
    <2> QED BY <2>1, <2>2
  <1> DEFINE T == {t \in Nat : t + 1 <= m => Sum(d, 1 .. t + 1) = x[t + 1] - x[1]}
  <1>2. 0 \in T
    <2>1. 1 \in 1 .. m /\ x[1] \in Int
      OBVIOUS
    <2>2. d[1] = 0
      BY <2>1
    <2>3. IsFiniteSet({}) /\ 1 \notin {} /\ \A y \in {} \cup {1} : d[y] \in Int
      BY <2>2, FS_EmptySet
    <2>4. Sum(d, {} \cup {1}) = Sum(d, {}) + d[1]
      BY <2>3, SumAdd
    <2>5. Sum(d, {}) = 0
      BY SumEmpty
    <2>6. {} \cup {1} = 1 .. 0 + 1
      OBVIOUS
    <2>7. Sum(d, 1 .. 0 + 1) = x[1] - x[1]
      <3>1. x[1] - x[1] = 0
        BY <2>1
      <3> QED BY <2>2, <2>4, <2>5, <2>6, <3>1
    <2> QED BY <2>7
  <1>3. ASSUME NEW t \in Nat, t \in T PROVE t + 1 \in T
    <2> SUFFICES ASSUME (t + 1) + 1 <= m
                 PROVE  Sum(d, 1 .. (t + 1) + 1) = x[(t + 1) + 1] - x[1]
      OBVIOUS
    <2> DEFINE U == 1 .. t + 1
               nxt == (t + 1) + 1
    <2>1. Sum(d, U) = x[t + 1] - x[1]
      <3>1. t + 1 <= m
        OBVIOUS
      <3> QED BY <1>3, <3>1
    <2>2. 1 .. nxt = U \cup {nxt} /\ nxt \notin U /\ U \cup {nxt} \subseteq 1 .. m /\ nxt \in 1 .. m
      OBVIOUS
    <2>3. d[nxt] = x[nxt] - x[t + 1]
      <3>1. nxt # 1 /\ nxt - 1 = t + 1
        OBVIOUS
      <3> HIDE DEF nxt
      <3> QED BY <2>2, <3>1
    <2>4. x[nxt] \in Int /\ x[t + 1] \in Int /\ x[1] \in Int
      <3>1. t + 1 \in 1 .. m /\ 1 \in 1 .. m
        OBVIOUS
      <3> HIDE DEF nxt
      <3> QED BY <2>2, <3>1
    <2>5. IsFiniteSet(U) /\ \A y \in U \cup {nxt} : d[y] \in Int
      <3>1. IsFiniteSet(U)
        BY FS_Interval
      <3> QED BY <1>1, <2>2, <3>1
    <2> HIDE DEF U, nxt, T
    <2>6. Sum(d, U \cup {nxt}) = Sum(d, U) + d[nxt]
      <3>1. nxt \notin U
        BY <2>2
      <3> QED BY ONLY <2>5, <3>1, SumAdd
    <2>7. Sum(d, 1 .. nxt) = x[nxt] - x[1]
      <3>1. Sum(d, 1 .. nxt) = (x[t + 1] - x[1]) + (x[nxt] - x[t + 1])
        <4>1. 1 .. nxt = U \cup {nxt}
          BY <2>2
        <4>2. Sum(d, 1 .. nxt) = Sum(d, U) + d[nxt]
          BY ONLY <2>6, <4>1
        <4> QED BY ONLY <2>1, <2>3, <4>2
      <3>2. \A u, v, w \in Int : (u - v) + (w - u) = w - v
        OBVIOUS
      <3> QED BY <2>4, <3>1, <3>2
    <2> QED BY <2>7 DEF nxt
  <1> HIDE DEF T
  <1>4. m - 1 \in T
    <2>1. \A t \in Nat : t \in T => t + 1 \in T
      BY <1>3
    <2>2. Nat \subseteq T
      BY <1>2, <2>1, NatInd
    <2> QED BY <2>2
  <1>5. Sum(d, 1 .. m) = x[m] - x[1]
    <2>1. (m - 1) + 1 = m
      OBVIOUS
    <2> QED BY <1>4, <2>1 DEF T
  <1>6. IsFiniteSet(1 .. m)
    BY FS_Interval
  <1> QED BY <1>1, <1>5, <1>6

(* A ratio of sums is between the least and the greatest of the ratios.    *)
LEMMA Mediant ==
  ASSUME NEW D, IsFiniteSet(D), NEW a, NEW b,
         \A k \in D : a[k] \in Nat /\ b[k] \in Nat /\ (b[k] = 0 => a[k] = 0),
         NEW A, A = Sum(a, D), NEW B, B = Sum(b, D), B > 0
  PROVE  /\ \E lo \in D : b[lo] > 0 /\ a[lo] * B <= A * b[lo]
         /\ \E k \in D : b[k] > 0 /\ A * b[k] <= a[k] * B
  <1>1. /\ \A k \in D : a[k] \in Nat /\ a[k] \in Int
        /\ \A k \in D : b[k] \in Nat /\ b[k] \in Int
    OBVIOUS
  <1>2. A \in Nat /\ B \in Nat
    BY <1>1, SumNat
  <1> DEFINE aB == [k \in D |-> B * a[k]]
             bA == [k \in D |-> A * b[k]]
             up == [k \in D |-> aB[k] + (0 - 1) * bA[k]]
             dn == [k \in D |-> bA[k] + (0 - 1) * aB[k]]
             na == [k \in D |-> (0 - 1) * aB[k]]
             nb == [k \in D |-> (0 - 1) * bA[k]]
  <1>3. /\ \A k \in D : aB[k] = B * a[k] /\ bA[k] = A * b[k]
        /\ \A k \in D : up[k] = aB[k] + nb[k] /\ dn[k] = bA[k] + na[k]
        /\ \A k \in D : na[k] = (0 - 1) * aB[k] /\ nb[k] = (0 - 1) * bA[k]
    OBVIOUS
  <1> HIDE DEF aB, bA, up, dn, na, nb
  <1>4. \A k \in D : aB[k] \in Nat /\ bA[k] \in Nat
    <2>1. \A p, q \in Nat : p * q \in Nat
      OBVIOUS
    <2> QED BY <1>1, <1>2, <1>3, <2>1
  <1>5. \A k \in D : aB[k] \in Int /\ bA[k] \in Int /\ na[k] \in Int /\ nb[k] \in Int
                     /\ up[k] \in Int /\ dn[k] \in Int
    <2>1. \A k \in D : na[k] \in Int /\ nb[k] \in Int
      BY <1>3, <1>4
    <2> QED BY <1>3, <1>4, <2>1
  <1>6. Sum(aB, D) = B * A
    <2>1. \A k \in D : a[k] \in Int /\ aB[k] = B * a[k]
      BY <1>1, <1>3
    <2>2. B \in Int
      BY <1>2
    <2> QED BY <2>1, <2>2, SumTimes
  <1>7. Sum(bA, D) = A * B
    <2>1. \A k \in D : b[k] \in Int /\ bA[k] = A * b[k]
      BY <1>1, <1>3
    <2>2. A \in Int
      BY <1>2
    <2> QED BY <2>1, <2>2, SumTimes
  <1>8. Sum(na, D) = (0 - 1) * (B * A) /\ Sum(nb, D) = (0 - 1) * (A * B)
    <2>1. Sum(na, D) = (0 - 1) * Sum(aB, D)
      BY <1>3, <1>5, SumTimes
    <2>2. Sum(nb, D) = (0 - 1) * Sum(bA, D)
      BY <1>3, <1>5, SumTimes
    <2> QED BY <1>6, <1>7, <2>1, <2>2
  <1>9. Sum(up, D) = 0 /\ Sum(dn, D) = 0
    <2>1. Sum(up, D) = Sum(aB, D) + Sum(nb, D)
      BY <1>3, <1>5, SumPlus
    <2>2. Sum(dn, D) = Sum(bA, D) + Sum(na, D)
      BY <1>3, <1>5, SumPlus
    <2>3. \A p, q \in Nat : /\ q * p + (0 - 1) * (p * q) = 0
                            /\ p * q + (0 - 1) * (q * p) = 0
      OBVIOUS
    <2> QED BY <1>2, <1>6, <1>7, <1>8, <2>1, <2>2, <2>3
  (* One of them is counted. *)
  <1>10. PICK r \in D : b[r] > 0
    <2> SUFFICES ASSUME \A k \in D : b[k] = 0 PROVE FALSE
      BY <1>1
    <2>1. B = Cardinality(D) * 0
      BY SumConst
    <2>2. Cardinality(D) \in Nat
      BY FS_CardinalityType
    <2> QED BY <2>1, <2>2
  <1>11. \A k \in D : b[k] = 0 => up[k] = 0 /\ dn[k] = 0
    <2> TAKE k \in D
    <2> HAVE b[k] = 0
    <2>1. a[k] = 0 /\ aB[k] = B * 0 /\ bA[k] = A * 0
      BY <1>3
    <2>2. aB[k] = 0 /\ bA[k] = 0
      BY <1>2, <2>1
    <2>3. na[k] = (0 - 1) * 0 /\ nb[k] = (0 - 1) * 0
      BY ONLY <1>3, <2>2
    <2>4. up[k] = 0 + (0 - 1) * 0 /\ dn[k] = 0 + (0 - 1) * 0
      BY ONLY <1>3, <2>2, <2>3
    <2> QED BY ONLY <2>4
  <1>12. ASSUME \A lo \in D : b[lo] > 0 => ~(a[lo] * B <= A * b[lo]) PROVE FALSE
    <2>1. ASSUME NEW k \in D PROVE up[k] \in Nat /\ (b[k] > 0 => up[k] > 0)
      <3>1. CASE b[k] > 0
        <4>1. ~(aB[k] <= bA[k])
          <5>1. \A p \in Nat : p * B = B * p
            BY <1>2
          <5> QED BY <1>1, <1>3, <1>12, <3>1, <5>1
        <4>2. up[k] = aB[k] + (0 - 1) * bA[k]
          BY <1>3
        <4> QED BY <1>4, <4>1, <4>2
      <3>2. CASE ~(b[k] > 0)
        BY <1>1, <1>11, <3>2
      <3> QED BY <3>1, <3>2
    <2>2. up[r] <= Sum(up, D)
      BY <2>1, PartOfSum
    <2> QED BY <1>5, <1>9, <1>10, <2>1, <2>2
  <1>13. ASSUME \A lo \in D : b[lo] > 0 => ~(A * b[lo] <= a[lo] * B) PROVE FALSE
    <2>1. ASSUME NEW k \in D PROVE dn[k] \in Nat /\ (b[k] > 0 => dn[k] > 0)
      <3>1. CASE b[k] > 0
        <4>1. ~(bA[k] <= aB[k])
          <5>1. \A p \in Nat : p * B = B * p
            BY <1>2
          <5> QED BY <1>1, <1>3, <1>13, <3>1, <5>1
        <4>2. dn[k] = bA[k] + (0 - 1) * aB[k]
          BY <1>3
        <4> QED BY <1>4, <4>1, <4>2
      <3>2. CASE ~(b[k] > 0)
        BY <1>1, <1>11, <3>2
      <3> QED BY <3>1, <3>2
    <2>2. dn[r] <= Sum(dn, D)
      BY <2>1, PartOfSum
    <2> QED BY <1>5, <1>9, <1>10, <2>1, <2>2
  <1> QED BY <1>12, <1>13

(* What a whole read of cpu.stat finds, and what a row of the file is. *)
Reading == [periods : Nat, throttled : Nat, usec : Nat]

CsvRow == UNION {[read -> Nat] : read \in Throttle!Reads}

(* Two readings have f, or what is left of them. *)
Have(f, r, s) == f \in DOMAIN r /\ f \in DOMAIN s

(* The counters go from r to s without a restart between: no more periods  *)
(* were throttled than passed, nor more time than they have.               *)
Grows(r, s) ==
  /\ Have("usec", r, s) =>
       r["usec"] <= s["usec"] /\ s["usec"] - r["usec"] <= s["throttled"] - r["throttled"]
  /\ Have("throttled", r, s) =>
       /\ r["throttled"] <= s["throttled"]
       /\ s["throttled"] - r["throttled"] <= s["periods"] - r["periods"]

(* The row is of a time when so many periods had been counted. *)
CountedThen(row, count) == "periods" \in DOMAIN row => row["periods"] = count

(* The rows of one life of the container grow from each to the next, and   *)
(* to what cpu.stat is now.                                                *)
ThrottleInv ==
  /\ stat \in Reading /\ csv \in Seq(CsvRow) /\ counted \in Seq(Nat)
  /\ Len(counted) = Len(csv) /\ passed \in Nat /\ restarts \in Nat
  /\ \A k \in 1 .. Len(csv) : counted[k] <= passed
  /\ \A k, l \in 1 .. Len(csv) : k < l => counted[k] <= counted[l]
  /\ restarts = 0 =>
       /\ stat["periods"] = passed
       /\ \A k \in 1 .. Len(csv) : CountedThen(csv[k], counted[k]) /\ Grows(csv[k], stat)
       /\ \A k, l \in 1 .. Len(csv) : k < l => Grows(csv[k], csv[l])

(* A container starts with such counters. *)
LEMMA ZeroReading == Throttle!Zero \in Reading /\ Throttle!Zero["periods"] = 0
  <1>1. Throttle!Zero = [f \in {"periods", "throttled", "usec"} |-> 0]
    BY DEF Throttle!Zero, Throttle!Fields
  <1>2. Throttle!Zero = [periods |-> 0, throttled |-> 0, usec |-> 0]
    BY <1>1
  <1> QED BY <1>1, <1>2 DEF Reading

(* What is left of a reading is a row, and grows as the reading does.      *)
LEMMA BrokenRead ==
  ASSUME NEW r \in Reading, NEW read \in Throttle!Reads, NEW row, row = [f \in read |-> r[f]]
  PROVE  /\ row \in CsvRow
         /\ \A f \in read : row[f] = r[f]
         /\ \A count : r["periods"] = count => CountedThen(row, count)
         /\ \A s \in CsvRow : Grows(s, r) => Grows(s, row)
         /\ Grows(row, r)
  <1>1. /\ DOMAIN r = {"periods", "throttled", "usec"}
        /\ r["periods"] \in Nat /\ r["throttled"] \in Nat /\ r["usec"] \in Nat
    BY DEF Reading
  <1>2. /\ read \subseteq {"periods", "throttled", "usec"}
        /\ "usec" \in read => "throttled" \in read
        /\ "throttled" \in read => "periods" \in read
    BY DEF Throttle!Reads, Throttle!Fields
  <1>3. DOMAIN row = read /\ \A f \in read : row[f] = r[f]
    OBVIOUS
  <1>4. \A f \in read : row[f] \in Nat
    BY <1>1, <1>2, <1>3
  <1>5. row \in [read -> Nat]
    BY <1>4
  <1>6. row \in CsvRow
    BY <1>5 DEF CsvRow
  <1>7. \A s \in CsvRow : Grows(s, r) => Grows(s, row)
    BY <1>1, <1>2, <1>3 DEF Grows, Have
  <1>8. Grows(row, r)
    <2>1. \A x \in Int : x - x = 0
      OBVIOUS
    <2>2. "throttled" \in read => r["throttled"] - row["throttled"] = 0
                                  /\ r["periods"] - row["periods"] = 0
      BY <1>1, <1>2, <1>3, <2>1
    <2>3. "usec" \in read => r["usec"] - row["usec"] = 0
      BY <1>1, <1>3, <2>1
    <2> QED BY <1>1, <1>2, <1>3, <2>2, <2>3 DEF Grows, Have
  <1>9. \A count : r["periods"] = count => CountedThen(row, count)
    BY <1>3 DEF CountedThen
  <1> QED BY <1>3, <1>6, <1>7, <1>8, <1>9

(* The fields a row has. *)
LEMMA RowFields ==
  ASSUME NEW row \in CsvRow
  PROVE  /\ \A f \in DOMAIN row : row[f] \in Nat
         /\ "usec" \in DOMAIN row => "throttled" \in DOMAIN row
         /\ "throttled" \in DOMAIN row => "periods" \in DOMAIN row
  <1>1. PICK read \in Throttle!Reads : row \in [read -> Nat]
    BY DEF CsvRow
  <1>2. /\ "usec" \in read => "throttled" \in read
        /\ "throttled" \in read => "periods" \in read
    BY DEF Throttle!Reads, Throttle!Fields
  <1> QED BY <1>1, <1>2

(* A step keeps it. *)
LEMMA ThrottleStep ==
  ASSUME ThrottleInv, [Next]_vars
  PROVE  ThrottleInv'
  <1>1. CASE RunThrottling
    <2>1. Throttle!Next
      BY <1>1 DEF RunThrottling
    <2>2. ASSUME NEW throttled \in {0, 1}, NEW usec \in {0, 1}, usec <= throttled,
                 Throttle!Period(throttled, usec)
          PROVE  ThrottleInv'
      <3>1. /\ passed' = passed + 1
            /\ stat' = [periods |-> stat["periods"] + 1,
                        throttled |-> stat["throttled"] + throttled,
                        usec |-> stat["usec"] + usec]
            /\ csv' = csv /\ restarts' = restarts /\ counted' = counted
        BY <2>2 DEF Throttle!Period
      <3>2. /\ stat \in Reading /\ csv \in Seq(CsvRow) /\ passed \in Nat
            /\ throttled \in Nat /\ usec \in Nat
        BY DEF ThrottleInv
      <3>3. stat' \in Reading /\ passed' \in Nat
        BY <3>1, <3>2 DEF Reading
      <3>4. ASSUME NEW r \in CsvRow, Grows(r, stat) PROVE Grows(r, stat')
        <4>1. /\ stat["usec"] \in Nat /\ stat["throttled"] \in Nat /\ stat["periods"] \in Nat
              /\ DOMAIN stat = {"periods", "throttled", "usec"} /\ DOMAIN stat' = DOMAIN stat
          BY <3>1, <3>2 DEF Reading
        <4>2. /\ stat'["periods"] = stat["periods"] + 1
              /\ stat'["throttled"] = stat["throttled"] + throttled
              /\ stat'["usec"] = stat["usec"] + usec
          BY <3>1
        <4>3. /\ \A f \in DOMAIN r : r[f] \in Nat
              /\ "usec" \in DOMAIN r => "throttled" \in DOMAIN r
              /\ "throttled" \in DOMAIN r => "periods" \in DOMAIN r
          BY RowFields
        <4>4. Have("usec", r, stat) =>
                /\ r["usec"] <= stat'["usec"]
                /\ stat'["usec"] - r["usec"] <= stat'["throttled"] - r["throttled"]
          <5> HAVE Have("usec", r, stat)
          <5>1. r["usec"] \in Nat /\ r["throttled"] \in Nat
            BY <4>3 DEF Have
          <5>2. /\ r["usec"] <= stat["usec"]
                /\ stat["usec"] - r["usec"] <= stat["throttled"] - r["throttled"]
            BY <3>4 DEF Grows
          <5>3. \A p, q, v, w, x, y \in Nat :
                  p <= v /\ v - p <= w - q /\ x <= y => p <= v + x /\ (v + x) - p <= (w + y) - q
            OBVIOUS
          <5>4. /\ r["usec"] <= stat["usec"] + usec
                /\ (stat["usec"] + usec) - r["usec"]
                     <= (stat["throttled"] + throttled) - r["throttled"]
            BY <2>2, <3>2, <4>1, <5>1, <5>2, <5>3
          <5> QED BY <4>2, <5>4
        <4>5. Have("throttled", r, stat) =>
                /\ r["throttled"] <= stat'["throttled"]
                /\ stat'["throttled"] - r["throttled"] <= stat'["periods"] - r["periods"]
          <5> HAVE Have("throttled", r, stat)
          <5>1. r["throttled"] \in Nat /\ r["periods"] \in Nat
            BY <4>3 DEF Have
          <5>2. /\ r["throttled"] <= stat["throttled"]
                /\ stat["throttled"] - r["throttled"] <= stat["periods"] - r["periods"]
            BY <3>4 DEF Grows
          <5>3. \A p, q, v, w \in Nat : \A x \in {0, 1} :
                  p <= v /\ v - p <= w - q => p <= v + x /\ (v + x) - p <= (w + 1) - q
            OBVIOUS
          <5>4. /\ r["throttled"] <= stat["throttled"] + throttled
                /\ (stat["throttled"] + throttled) - r["throttled"]
                     <= (stat["periods"] + 1) - r["periods"]
            BY <2>2, <4>1, <5>1, <5>2, <5>3
          <5> QED BY <4>2, <5>4
        <4> QED BY <4>1, <4>4, <4>5 DEF Grows, Have
      <3>5. restarts = 0 =>
              /\ stat'["periods"] = passed'
              /\ \A k \in 1 .. Len(csv) : CountedThen(csv[k], counted[k]) /\ Grows(csv[k], stat')
        <4> HAVE restarts = 0
        <4>1. stat["periods"] = passed
          BY DEF ThrottleInv
        <4>2. stat'["periods"] = passed'
          BY <3>1, <4>1
        <4>3. ASSUME NEW k \in 1 .. Len(csv)
              PROVE  CountedThen(csv[k], counted[k]) /\ Grows(csv[k], stat')
          <5>1. CountedThen(csv[k], counted[k]) /\ Grows(csv[k], stat)
            BY DEF ThrottleInv
          <5>2. csv[k] \in CsvRow
            BY <3>2
          <5> QED BY <3>4, <5>1, <5>2
        <4> QED BY <4>2, <4>3
      <3>6. \A k \in 1 .. Len(csv) : counted[k] <= passed'
        <4>1. \A k \in 1 .. Len(csv) : counted[k] \in Nat /\ counted[k] <= passed
          BY DEF ThrottleInv
        <4> QED BY <3>1, <3>2, <4>1
      <3>7. restarts = 0 => \A k, l \in 1 .. Len(csv) : k < l => Grows(csv[k], csv[l])
        BY DEF ThrottleInv
      <3>8. /\ csv \in Seq(CsvRow) /\ counted \in Seq(Nat) /\ Len(counted) = Len(csv)
            /\ restarts \in Nat
            /\ \A k, l \in 1 .. Len(csv) : k < l => counted[k] <= counted[l]
        BY DEF ThrottleInv
      <3> QED BY <3>1, <3>3, <3>5, <3>6, <3>7, <3>8 DEF ThrottleInv
    <2>3. CASE Throttle!Restart
      <3>1. /\ restarts' = restarts + 1 /\ stat' = Throttle!Zero
            /\ csv' = csv /\ passed' = passed /\ counted' = counted
        BY <2>3 DEF Throttle!Restart
      <3>2. restarts' \in Nat /\ restarts' # 0
        BY <3>1 DEF ThrottleInv
      <3>3. stat' \in Reading
        BY <3>1, ZeroReading
      <3> QED BY <3>1, <3>2, <3>3 DEF ThrottleInv
    <2>4. ASSUME NEW read \in Throttle!Reads, Throttle!Sample(read) PROVE ThrottleInv'
      <3> DEFINE row == [f \in read |-> stat[f]]
                 m == Len(csv)
      <3>1. /\ csv' = Append(csv, row) /\ counted' = Append(counted, passed)
            /\ stat' = stat /\ restarts' = restarts /\ passed' = passed
        BY <2>4 DEF Throttle!Sample
      <3>2. /\ stat \in Reading /\ csv \in Seq(CsvRow) /\ counted \in Seq(Nat)
            /\ Len(counted) = m /\ passed \in Nat /\ restarts \in Nat
        BY DEF ThrottleInv
      <3>3. /\ row \in CsvRow
            /\ \A count : stat["periods"] = count => CountedThen(row, count)
            /\ \A s \in CsvRow : Grows(s, stat) => Grows(s, row)
            /\ Grows(row, stat)
        BY <3>2, BrokenRead
      <3> HIDE DEF row
      <3>4. /\ csv' \in Seq(CsvRow) /\ counted' \in Seq(Nat)
            /\ Len(csv') = m + 1 /\ Len(counted') = m + 1
            /\ csv'[m + 1] = row /\ counted'[m + 1] = passed
            /\ \A k \in 1 .. m : csv'[k] = csv[k] /\ counted'[k] = counted[k]
        BY <3>1, <3>2, <3>3
      <3>5. m \in Nat /\ \A k \in 1 .. m : csv[k] \in CsvRow
        BY <3>2
      <3>6. \A k \in 1 .. m + 1 : k = m + 1 \/ k \in 1 .. m
        BY <3>5
      <3> HIDE DEF m
      <3>7. \A k \in 1 .. m + 1 : counted'[k] <= passed
        <4>1. \A k \in 1 .. m : counted[k] <= passed
          BY DEF ThrottleInv, m
        <4>2. passed <= passed
          BY <3>2
        <4> QED BY <3>4, <3>6, <4>1, <4>2
      <3>8. \A k, l \in 1 .. m + 1 : k < l => counted'[k] <= counted'[l]
        <4> TAKE k, l \in 1 .. m + 1
        <4> HAVE k < l
        <4>1. k \in 1 .. m
          BY <3>5
        <4>2. CASE l = m + 1
          <5>1. counted'[k] <= passed
            BY <3>7
          <5> QED BY <3>4, <4>2, <5>1
        <4>3. CASE l \in 1 .. m
          <5>1. counted[k] <= counted[l]
            BY <4>1, <4>3 DEF ThrottleInv, m
          <5> QED BY <3>4, <4>1, <4>3, <5>1
        <4> QED BY <3>6, <4>2, <4>3
      <3>9. ASSUME restarts = 0, NEW k \in 1 .. m + 1
            PROVE  CountedThen(csv'[k], counted'[k]) /\ Grows(csv'[k], stat)
        <4>1. CASE k = m + 1
          <5>1. stat["periods"] = passed
            BY <3>9 DEF ThrottleInv
          <5> QED BY <3>3, <3>4, <4>1, <5>1
        <4>2. CASE k \in 1 .. m
          <5>1. CountedThen(csv[k], counted[k]) /\ Grows(csv[k], stat)
            BY <3>9, <4>2 DEF ThrottleInv, m
          <5> QED BY <3>4, <4>2, <5>1
        <4> QED BY <3>6, <4>1, <4>2
      <3>10. ASSUME restarts = 0, NEW k \in 1 .. m + 1, NEW l \in 1 .. m + 1, k < l
             PROVE  Grows(csv'[k], csv'[l])
        <4>1. k \in 1 .. m
          BY <3>5, <3>10
        <4>2. CASE l = m + 1
          <5>1. csv[k] \in CsvRow /\ csv'[k] = csv[k] /\ csv'[l] = row
            BY <3>4, <3>5, <4>1, <4>2
          <5>2. Grows(csv[k], stat)
            BY <3>9, <3>10, <5>1
          <5>3. Grows(csv[k], row)
            BY <3>3, <5>1, <5>2
          <5> QED BY <5>1, <5>3
        <4>3. CASE l \in 1 .. m
          <5>1. Grows(csv[k], csv[l])
            BY <3>10, <4>1, <4>3 DEF ThrottleInv, m
          <5> QED BY <3>4, <4>1, <4>3, <5>1
        <4> QED BY <3>6, <4>2, <4>3
      <3>11. restarts = 0 => stat["periods"] = passed
        BY DEF ThrottleInv
      <3> QED
        BY <3>1, <3>2, <3>4, <3>7, <3>8, <3>9, <3>10, <3>11 DEF ThrottleInv
    <2>5. CASE Throttle!Measured
      BY <2>5 DEF Throttle!Measured, ThrottleInv
    <2> QED BY <2>1, <2>2, <2>3, <2>4, <2>5 DEF Throttle!Next
  <1>2. CASE UNCHANGED throttle
    BY <1>2 DEF ThrottleInv, throttle
  <1> QED
    BY <1>1, <1>2 DEF Next, vars, RunQs, ProbeRuns, RunPercentiles, RunFairness,
                      RunCluster, RunBenchmark

(* The differences the analysis computes of a column. *)
LEMMA Column ==
  ASSUME ThrottleInv, csv # <<>>, NEW f, NEW d, d = Throttle!diff(f)
  PROVE  /\ DOMAIN csv = 1 .. Len(csv) /\ IsFiniteSet(DOMAIN csv)
         /\ 1 \in DOMAIN csv /\ Len(csv) \in DOMAIN csv /\ Len(csv) \in Nat /\ Len(csv) > 0
         /\ \A k \in DOMAIN csv :
              d[k] \in Int /\ d[k] = IF Throttle!both(f, k) THEN csv[k][f] - csv[k - 1][f] ELSE 0
         /\ Throttle!sum(d) = Sum(d, DOMAIN csv)
  <1> DEFINE m == Len(csv)
  <1>1. csv \in Seq(CsvRow)
    BY DEF ThrottleInv
  <1>2. DOMAIN csv = 1 .. m /\ m \in Nat /\ m > 0 /\ 1 \in 1 .. m /\ m \in 1 .. m
    BY <1>1
  <1>3. IsFiniteSet(1 .. m)
    <2>1. 1 \in Int /\ m \in Int
      BY <1>2
    <2> HIDE DEF m
    <2> QED BY <2>1, FS_Interval
  <1>4. /\ DOMAIN d = DOMAIN csv
        /\ \A k \in DOMAIN csv :
             d[k] = IF Throttle!both(f, k) THEN csv[k][f] - csv[k - 1][f] ELSE 0
    BY DEF Throttle!diff
  <1>5. ASSUME NEW k \in DOMAIN csv PROVE d[k] \in Int
    <2>1. CASE Throttle!both(f, k)
      <3>1. k > 1 /\ f \in DOMAIN csv[k] /\ f \in DOMAIN csv[k - 1]
        BY <2>1 DEF Throttle!both
      <3>2. k - 1 \in 1 .. m
        BY <1>2, <3>1
      <3>3. csv[k] \in CsvRow /\ csv[k - 1] \in CsvRow
        BY <1>1, <1>2, <3>2
      <3>4. csv[k][f] \in Nat
        BY <3>1, <3>3, RowFields
      <3>5. csv[k - 1][f] \in Nat
        BY <3>1, <3>3, RowFields
      <3> QED BY <1>4, <2>1, <3>4, <3>5
    <2>2. CASE ~Throttle!both(f, k)
      BY <1>4, <2>2
    <2> QED BY <2>1, <2>2
  <1>6. Throttle!SumFunction(d) = Sum(d, DOMAIN csv)
    <2>1. DOMAIN csv = DOMAIN d /\ IsFiniteSet(DOMAIN csv) /\ \A k \in DOMAIN csv : d[k] \in Int
      BY <1>2, <1>3, <1>4, <1>5
    <2> QED BY <2>1, ThrottleSum
  <1> QED BY <1>2, <1>3, <1>4, <1>5, <1>6 DEF Throttle!sum

(* The summaries agree on a column that no row misses.                     *)
LEMMA FullColumn ==
  ASSUME ThrottleInv, csv # <<>>, NEW f, \A k \in DOMAIN csv : f \in DOMAIN csv[k]
  PROVE  Throttle!sum(Throttle!diff(f)) = Throttle!DELTA(f)
  <1> DEFINE d == Throttle!diff(f)
             x == [k \in DOMAIN csv |-> csv[k][f]]
             m == Len(csv)
  <1>1. /\ DOMAIN csv = 1 .. m /\ 1 \in 1 .. m /\ m \in 1 .. m /\ m \in Nat /\ m > 0
        /\ \A k \in DOMAIN csv :
             d[k] = IF Throttle!both(f, k) THEN csv[k][f] - csv[k - 1][f] ELSE 0
        /\ Throttle!sum(d) = Sum(d, DOMAIN csv)
    BY Column
  <1>2. csv \in Seq(CsvRow)
    BY DEF ThrottleInv
  <1>3. \A k \in 1 .. m : x[k] = csv[k][f] /\ x[k] \in Int
    <2> TAKE k \in 1 .. m
    <2>1. csv[k] \in CsvRow /\ f \in DOMAIN csv[k]
      BY <1>1, <1>2
    <2>2. csv[k][f] \in Nat
      BY <2>1, RowFields
    <2> QED BY <1>1, <2>2
  <1>4. \A k \in 1 .. m : d[k] = IF k = 1 THEN 0 ELSE x[k] - x[k - 1]
    <2> TAKE k \in 1 .. m
    <2>1. CASE k = 1
      <3>1. ~Throttle!both(f, k)
        BY <2>1 DEF Throttle!both
      <3> QED BY <1>1, <2>1, <3>1
    <2>2. CASE k # 1
      <3>1. k - 1 \in 1 .. m /\ k > 1
        BY <1>1, <2>2
      <3>2. x[k] = csv[k][f] /\ x[k - 1] = csv[k - 1][f]
        BY <1>3, <3>1
      <3>3. Throttle!both(f, k)
        BY <1>1, <3>1 DEF Throttle!both
      <3>4. d[k] = csv[k][f] - csv[k - 1][f]
        BY <1>1, <3>3
      <3> QED BY <2>2, <3>2, <3>4
    <2> QED BY <2>1, <2>2
  <1>5. Throttle!DELTA(f) = csv[m][f] - csv[1][f]
    <2>1. Throttle!Last(csv) = csv[m] /\ Head(csv) = csv[1]
      BY <1>1, <1>2 DEF Throttle!Last
    <2>2. Throttle!field(csv[m], f) = csv[m][f] /\ Throttle!field(csv[1], f) = csv[1][f]
      BY <1>1 DEF Throttle!field
    <2> QED BY <2>1, <2>2 DEF Throttle!DELTA
  <1> HIDE DEF d, x, m
  <1>6. Sum(d, 1 .. m) = x[m] - x[1]
    BY <1>1, <1>3, <1>4, Telescope
  <1> QED BY <1>1, <1>3, <1>5, <1>6 DEF d

(* What the kernel counted between a row and the one before it. *)
Between == [k \in DOMAIN csv |-> IF k = 1 THEN 0 ELSE counted[k] - counted[k - 1]]

(* It adds up to what it counted between the first row and the last.       *)
LEMMA KernelCounts ==
  ASSUME ThrottleInv, csv # <<>>
  PROVE  /\ Sum(Between, DOMAIN csv) = Throttle!Last(counted) - Head(counted)
         /\ Throttle!Last(counted) = counted[Len(csv)] /\ Head(counted) = counted[1]
         /\ \A k \in DOMAIN csv : Between[k] \in Int
  <1> DEFINE m == Len(csv)
             d == Between
  <1>1. /\ csv \in Seq(CsvRow) /\ counted \in Seq(Nat) /\ Len(counted) = m
    BY DEF ThrottleInv
  <1>2. /\ DOMAIN csv = 1 .. m /\ m \in Nat /\ m > 0 /\ 1 \in 1 .. m /\ m \in 1 .. m
        /\ counted # <<>>
    BY <1>1
  <1>3. \A k \in 1 .. m : d[k] = IF k = 1 THEN 0 ELSE counted[k] - counted[k - 1]
    BY <1>2 DEF Between
  <1>4. \A k \in 1 .. m : counted[k] \in Int
    BY <1>1
  <1>5. Throttle!Last(counted) = counted[m] /\ Head(counted) = counted[1]
    BY <1>1, <1>2 DEF Throttle!Last
  <1> HIDE DEF m, d
  <1>6. Sum(d, 1 .. m) = counted[m] - counted[1] /\ \A k \in 1 .. m : d[k] \in Int
    BY <1>2, <1>3, <1>4, Telescope
  <1> QED BY <1>2, <1>5, <1>6 DEF m, d

(* Without a restart the differences of a row are in order, and a column   *)
(* that has no gap has all that was counted.                               *)
LEMMA RowsGrow ==
  ASSUME ThrottleInv, restarts = 0, csv # <<>>, NEW k \in DOMAIN csv,
         NEW u, u = Throttle!diff("usec")[k], NEW a, a = Throttle!diff("throttled")[k],
         NEW b, b = Throttle!diff("periods")[k]
  PROVE  /\ a \in Nat /\ b \in Nat /\ u <= a /\ a <= b /\ b <= Between[k]
         /\ (\A l \in DOMAIN csv : "periods" \in DOMAIN csv[l]) => b = Between[k]
  <1>1. csv \in Seq(CsvRow) /\ counted \in Seq(Nat) /\ Len(counted) = Len(csv)
    BY DEF ThrottleInv
  <1>2. DOMAIN csv = 1 .. Len(csv) /\ Len(csv) \in Nat /\ 1 \in 1 .. Len(csv)
    BY <1>1
  <1>3. u = IF Throttle!both("usec", k) THEN csv[k]["usec"] - csv[k - 1]["usec"] ELSE 0
    BY Column
  <1>4. a = IF Throttle!both("throttled", k)
            THEN csv[k]["throttled"] - csv[k - 1]["throttled"] ELSE 0
    BY Column
  <1>5. b = IF Throttle!both("periods", k)
            THEN csv[k]["periods"] - csv[k - 1]["periods"] ELSE 0
    BY Column
  <1>6. CASE k = 1
    <2>1. \A f : ~Throttle!both(f, k)
      BY <1>6 DEF Throttle!both
    <2>2. Between[k] = 0
      BY <1>6 DEF Between
    <2>3. u = 0 /\ a = 0 /\ b = 0
      BY <1>3, <1>4, <1>5, <2>1
    <2> QED BY <2>2, <2>3
  <1>7. CASE k # 1
    <2> DEFINE l == k - 1
    <2>1. k > 1 /\ k \in 1 .. Len(csv) /\ l \in 1 .. Len(csv) /\ l < k
      BY <1>2, <1>7
    <2>2. Between[k] = counted[k] - counted[l]
      BY <1>7 DEF Between
    <2>3. \A f : Throttle!both(f, k) <=> f \in DOMAIN csv[k] /\ f \in DOMAIN csv[l]
      BY <2>1 DEF Throttle!both
    <2>4. /\ Throttle!both("usec", k) => u = csv[k]["usec"] - csv[l]["usec"]
          /\ Throttle!both("throttled", k) => a = csv[k]["throttled"] - csv[l]["throttled"]
          /\ Throttle!both("periods", k) => b = csv[k]["periods"] - csv[l]["periods"]
      BY <1>3, <1>4, <1>5
    <2> HIDE DEF l
    <2>5. csv[l] \in CsvRow /\ csv[k] \in CsvRow
      BY <1>1, <2>1
    <2>6. /\ \A f \in DOMAIN csv[k] : csv[k][f] \in Nat
          /\ "usec" \in DOMAIN csv[k] => "throttled" \in DOMAIN csv[k]
          /\ "throttled" \in DOMAIN csv[k] => "periods" \in DOMAIN csv[k]
      BY <2>5, RowFields
    <2>7. /\ \A f \in DOMAIN csv[l] : csv[l][f] \in Nat
          /\ "usec" \in DOMAIN csv[l] => "throttled" \in DOMAIN csv[l]
          /\ "throttled" \in DOMAIN csv[l] => "periods" \in DOMAIN csv[l]
      BY <2>5, RowFields
    <2>8. Grows(csv[l], csv[k])
      BY <2>1 DEF ThrottleInv
    <2>9. CountedThen(csv[k], counted[k]) /\ CountedThen(csv[l], counted[l])
      BY <2>1 DEF ThrottleInv
    <2>10. counted[k] \in Nat /\ counted[l] \in Nat /\ counted[l] <= counted[k]
      <3>1. counted[l] <= counted[k]
        BY <2>1 DEF ThrottleInv
      <3> QED BY <1>1, <2>1, <3>1
    <2>11. /\ Throttle!both("usec", k) => Throttle!both("throttled", k)
           /\ Throttle!both("throttled", k) => Throttle!both("periods", k)
      BY <2>3, <2>6, <2>7
    <2>12. Throttle!both("periods", k) => b = Between[k]
      <3> HAVE Throttle!both("periods", k)
      <3>1. csv[k]["periods"] = counted[k] /\ csv[l]["periods"] = counted[l]
        BY <2>3, <2>9 DEF CountedThen
      <3> QED BY <2>2, <2>4, <3>1
    <2>13. b \in Nat /\ b <= Between[k]
      <3>1. CASE Throttle!both("periods", k)
        BY <2>2, <2>10, <2>12, <3>1
      <3>2. CASE ~Throttle!both("periods", k)
        BY <1>5, <2>2, <2>10, <3>2
      <3> QED BY <3>1, <3>2
    <2>14. a \in Nat /\ a <= b
      <3>1. CASE Throttle!both("throttled", k)
        <4>1. Throttle!both("periods", k)
          BY <2>11, <3>1
        <4>2. Have("throttled", csv[l], csv[k])
          BY <2>3, <3>1 DEF Have
        <4>3. /\ csv[l]["throttled"] <= csv[k]["throttled"]
              /\ csv[k]["throttled"] - csv[l]["throttled"]
                   <= csv[k]["periods"] - csv[l]["periods"]
          BY <2>8, <4>2 DEF Grows
        <4>4. csv[l]["throttled"] \in Nat /\ csv[k]["throttled"] \in Nat
          BY <2>6, <2>7, <4>2 DEF Have
        <4> QED BY <2>4, <3>1, <4>1, <4>3, <4>4
      <3>2. CASE ~Throttle!both("throttled", k)
        BY <1>4, <2>13, <3>2
      <3> QED BY <3>1, <3>2
    <2>15. u <= a
      <3>1. CASE Throttle!both("usec", k)
        <4>1. Throttle!both("throttled", k)
          BY <2>11, <3>1
        <4>2. Have("usec", csv[l], csv[k])
          BY <2>3, <3>1 DEF Have
        <4>3. csv[k]["usec"] - csv[l]["usec"] <= csv[k]["throttled"] - csv[l]["throttled"]
          BY <2>8, <4>2 DEF Grows
        <4> QED BY <2>4, <3>1, <4>1, <4>3
      <3>2. CASE ~Throttle!both("usec", k)
        BY <1>3, <2>14, <3>2
      <3> QED BY <3>1, <3>2
    <2>16. (\A r \in DOMAIN csv : "periods" \in DOMAIN csv[r]) => Throttle!both("periods", k)
      BY <1>2, <2>1, <2>3
    <2> QED BY <2>12, <2>13, <2>14, <2>15, <2>16
  <1> QED BY <1>6, <1>7

(* What the summaries are without a restart. *)
LEMMA SumsInOrder ==
  ASSUME ThrottleInv, restarts = 0, csv # <<>>,
         NEW u, u = Throttle!diff("usec"), NEW a, a = Throttle!diff("throttled"),
         NEW b, b = Throttle!diff("periods")
  PROVE  /\ IsFiniteSet(DOMAIN csv)
         /\ Throttle!sum(a) = Sum(a, DOMAIN csv) /\ Throttle!sum(b) = Sum(b, DOMAIN csv)
         /\ \A k \in DOMAIN csv : a[k] \in Nat /\ b[k] \in Nat /\ a[k] <= b[k]
         /\ Throttle!sum(a) \in Nat /\ Throttle!sum(b) \in Nat
         /\ Throttle!sum(u) <= Throttle!sum(a) /\ Throttle!sum(a) <= Throttle!sum(b)
         /\ Throttle!sum(b) <= Throttle!Last(counted) - Head(counted)
         /\ (\A k \in DOMAIN csv : "periods" \in DOMAIN csv[k]) =>
              Throttle!sum(b) = Throttle!Last(counted) - Head(counted)
  <1> DEFINE D == DOMAIN csv
  <1>1. IsFiniteSet(D) /\ Throttle!sum(u) = Sum(u, D) /\ \A k \in D : u[k] \in Int
    BY Column
  <1>2. Throttle!sum(a) = Sum(a, D) /\ Throttle!sum(b) = Sum(b, D)
    BY Column
  <1>3. \A k \in D : /\ a[k] \in Nat /\ b[k] \in Nat /\ u[k] <= a[k] /\ a[k] <= b[k]
                     /\ b[k] <= Between[k]
    BY RowsGrow
  <1>4. ASSUME \A k \in D : "periods" \in DOMAIN csv[k]
        PROVE  \A k \in D : Between[k] = b[k]
    BY <1>4, RowsGrow
  <1>5. /\ Sum(Between, D) = Throttle!Last(counted) - Head(counted)
        /\ \A k \in D : Between[k] \in Int
    BY KernelCounts
  <1> HIDE DEF D
  <1>6. \A k \in D : a[k] \in Int /\ b[k] \in Int
    BY <1>3
  <1>7. Sum(a, D) \in Nat /\ Sum(b, D) \in Nat
    <2>1. \A k \in D : a[k] \in Nat
      BY <1>3
    <2>2. \A k \in D : b[k] \in Nat
      BY <1>3
    <2> QED BY <1>1, <2>1, <2>2, SumNat
  <1>8. Sum(u, D) <= Sum(a, D)
    <2>1. \A k \in D : u[k] \in Int /\ a[k] \in Int /\ u[k] <= a[k]
      BY <1>1, <1>3, <1>6
    <2> QED BY ONLY <1>1, <2>1, SumLe
  <1>9. Sum(a, D) <= Sum(b, D)
    <2>1. \A k \in D : a[k] \in Int /\ b[k] \in Int /\ a[k] <= b[k]
      BY <1>3, <1>6
    <2> QED BY ONLY <1>1, <2>1, SumLe
  <1>10. Sum(b, D) <= Sum(Between, D)
    <2>1. \A k \in D : b[k] \in Int /\ Between[k] \in Int /\ b[k] <= Between[k]
      BY <1>3, <1>5, <1>6
    <2> QED BY ONLY <1>1, <2>1, SumLe
  <1>11. ASSUME \A k \in D : "periods" \in DOMAIN csv[k]
         PROVE  Sum(b, D) = Sum(Between, D)
    <2>1. \A k \in D : b[k] \in Int /\ Between[k] = b[k]
      BY <1>4, <1>6, <1>11 DEF D
    <2> QED BY <1>1, <2>1, SumSame
  <1> QED
    BY <1>1, <1>2, <1>3, <1>5, <1>7, <1>8, <1>9, <1>10, <1>11 DEF D

(* The script's own summary of the periods. *)
LEMMA ScriptCounts ==
  ASSUME ThrottleInv, restarts = 0, csv # <<>>,
         "periods" \in DOMAIN csv[1], "periods" \in DOMAIN csv[Len(csv)]
  PROVE  Throttle!DELTA("periods") = Throttle!Last(counted) - Head(counted)
  <1>1. csv \in Seq(CsvRow)
    BY DEF ThrottleInv
  <1>2. 1 \in 1 .. Len(csv) /\ Len(csv) \in 1 .. Len(csv)
    BY <1>1
  <1>3. Throttle!Last(csv) = csv[Len(csv)] /\ Head(csv) = csv[1]
    BY <1>1 DEF Throttle!Last
  <1>4. CountedThen(csv[1], counted[1]) /\ CountedThen(csv[Len(csv)], counted[Len(csv)])
    BY <1>2 DEF ThrottleInv
  <1>5. csv[1]["periods"] = counted[1] /\ csv[Len(csv)]["periods"] = counted[Len(csv)]
    BY <1>4 DEF CountedThen
  <1>6. Throttle!Last(counted) = counted[Len(csv)] /\ Head(counted) = counted[1]
    BY KernelCounts
  <1> QED BY <1>3, <1>5, <1>6 DEF Throttle!DELTA, Throttle!field

(* The summaries are what SummariesAgree says, for any rows. *)
LEMMA SummariesSound ==
  ASSUME ThrottleInv
  PROVE  Throttle!SummariesAgree
  <1> SUFFICES ASSUME csv # <<>>
               PROVE  Throttle!SummariesAgree
    BY DEF Throttle!SummariesAgree
  <1> DEFINE D == DOMAIN csv
             a == Throttle!diff("throttled")
             b == Throttle!diff("periods")
             A == Throttle!sum(a)
             B == Throttle!sum(b)
             U == Throttle!sum(Throttle!diff("usec"))
             kernel == Throttle!Last(counted) - Head(counted)
             some == {k \in D : b[k] > 0}
             Less(r, s) == r[1] * s[2] <= s[1] * r[2]
             allHave == \A k \in D : "periods" \in DOMAIN csv[k]
  <1>1. \A f \in {"periods", "throttled"} :
          (\A k \in D : f \in DOMAIN csv[k]) => Throttle!sum(Throttle!diff(f)) = Throttle!DELTA(f)
    BY FullColumn
  <1>2. \A k \in D : Throttle!throttle_ratio(k) = <<a[k], IF b[k] = 0 THEN 1 ELSE b[k]>>
    BY DEF Throttle!throttle_ratio
  <1>3. Throttle!overall_ratio = IF B > 0 THEN <<A, B>> ELSE <<0, 1>>
    BY DEF Throttle!overall_ratio
  <1>4. ASSUME restarts = 0, "periods" \in DOMAIN csv[1], "periods" \in DOMAIN csv[Len(csv)]
        PROVE  Throttle!DELTA("periods") = kernel
    BY <1>4, ScriptCounts
  <1>5. ASSUME restarts = 0
        PROVE  /\ IsFiniteSet(D) /\ A = Sum(a, D) /\ B = Sum(b, D)
               /\ \A k \in D : a[k] \in Nat /\ b[k] \in Nat /\ a[k] <= b[k]
               /\ A \in Nat /\ B \in Nat /\ U <= A /\ A <= B /\ B <= kernel
               /\ allHave => B = kernel
    BY <1>5, SumsInOrder
  <1> HIDE DEF a, b, A, B, U, kernel
  <1>6. ASSUME restarts = 0
        PROVE  /\ Throttle!Between0And1(Throttle!overall_ratio)
               /\ \A k \in D : Throttle!Between0And1(Throttle!throttle_ratio(k))
    <2>1. Throttle!Between0And1(Throttle!overall_ratio)
      BY <1>3, <1>5, <1>6 DEF Throttle!Between0And1
    <2>2. ASSUME NEW k \in D PROVE Throttle!Between0And1(Throttle!throttle_ratio(k))
      <3>1. a[k] \in Nat /\ b[k] \in Nat /\ a[k] <= b[k]
        BY <1>5, <1>6
      <3> QED BY <1>2, <3>1 DEF Throttle!Between0And1
    <2> QED BY <2>1, <2>2
  <1>7. ASSUME restarts = 0, Throttle!overall_ratio[1] > 0
        PROVE  \E lo, hi \in some : /\ Less(Throttle!throttle_ratio(lo), Throttle!overall_ratio)
                                    /\ Less(Throttle!overall_ratio, Throttle!throttle_ratio(hi))
    <2>1. B > 0 /\ Throttle!overall_ratio = <<A, B>>
      BY <1>3, <1>7
    <2>2. \A k \in D : a[k] \in Nat /\ b[k] \in Nat /\ (b[k] = 0 => a[k] = 0)
      BY <1>5, <1>7
    <2>3. /\ \E lo \in D : b[lo] > 0 /\ a[lo] * B <= A * b[lo]
          /\ \E hi \in D : b[hi] > 0 /\ A * b[hi] <= a[hi] * B
      <3>1. IsFiniteSet(D) /\ A = Sum(a, D) /\ B = Sum(b, D)
        BY <1>5, <1>7
      <3> HIDE DEF D
      <3> QED BY ONLY <2>1, <2>2, <3>1, Mediant
    <2>4. PICK lo \in D : b[lo] > 0 /\ a[lo] * B <= A * b[lo]
      BY <2>3
    <2>5. PICK hi \in D : b[hi] > 0 /\ A * b[hi] <= a[hi] * B
      BY <2>3
    <2>6. Throttle!throttle_ratio(lo) = <<a[lo], b[lo]>>
      BY <1>2, <2>4
    <2>7. Throttle!throttle_ratio(hi) = <<a[hi], b[hi]>>
      BY <1>2, <2>5
    <2>8. lo \in some /\ hi \in some
      BY <2>4, <2>5
    <2>9. Less(Throttle!throttle_ratio(lo), Throttle!overall_ratio)
      BY <2>1, <2>4, <2>6
    <2>10. Less(Throttle!overall_ratio, Throttle!throttle_ratio(hi))
      BY <2>1, <2>5, <2>7
    <2> QED BY <2>8, <2>9, <2>10
  <1>8. restarts = 0 =>
          /\ ("periods" \in DOMAIN csv[1] /\ "periods" \in DOMAIN csv[Len(csv)] =>
                Throttle!DELTA("periods") = kernel)
          /\ B <= kernel
          /\ (allHave => B = kernel)
          /\ U <= A
          /\ Throttle!Between0And1(Throttle!overall_ratio)
          /\ \A k \in D : Throttle!Between0And1(Throttle!throttle_ratio(k))
          /\ Throttle!overall_ratio[1] > 0 =>
               \E lo, hi \in some :
                 /\ Less(Throttle!throttle_ratio(lo), Throttle!overall_ratio)
                 /\ Less(Throttle!overall_ratio, Throttle!throttle_ratio(hi))
    BY <1>4, <1>5, <1>6, <1>7
  <1> QED
    BY <1>1, <1>8 DEF Throttle!SummariesAgree, a, b, A, B, U, kernel

(* The invariants. *)
LEMMA ThrottleHolds == Spec => []ThrottleInv
  <1>1. Init => ThrottleInv
    <2> SUFFICES ASSUME Init PROVE ThrottleInv
      OBVIOUS
    <2>1. Throttle!Init
      BY DEF Init
    <2>2. /\ stat = Throttle!Zero /\ csv = <<>> /\ counted = <<>> /\ passed = 0 /\ restarts = 0
      BY <2>1 DEF Throttle!Init
    <2>3. stat \in Reading /\ stat["periods"] = 0
      BY <2>2, ZeroReading
    <2>4. csv \in Seq(CsvRow) /\ counted \in Seq(Nat) /\ Len(csv) = 0 /\ Len(counted) = 0
      BY <2>2
    <2> QED BY <2>2, <2>3, <2>4 DEF ThrottleInv
  <1>2. ThrottleInv /\ [Next]_vars => ThrottleInv'
    BY ThrottleStep
  <1> QED
    BY <1>1, <1>2, PTL DEF Spec

(* How far two programs that judge one file agree.  The verdicts of        *)
(* fairness.py and analyze.py, which divide by n - 1 and by n, differ by   *)
(* one word at most if the two count the same tasks and no row that breaks *)
(* off ended one of them.  The two summaries of the throttling rows are    *)
(* the same on a column that no row misses; and unless the container was   *)
(* restarted they are what the kernel counted, for the script if the first *)
(* row and the last are whole, and for the analysis, which loses what lies *)
(* about an empty field, if no field is empty.                             *)
THEOREM ProgramsAgree == Spec => []ScriptsAgree
  <1>1. FairInv /\ ThrottleInv => ScriptsAgree
    BY VerdictsSound, SummariesSound DEF ScriptsAgree
  <1> QED
    BY <1>1, FairHolds, ThrottleHolds, PTL

------------------------------------------------------------------------------
(* The percentile scripts.                                                 *)

(* The sum of the model is Sum. *)
LEMMA LatencySum ==
  ASSUME NEW f, NEW D, IsFiniteSet(D), \A x \in D : f[x] \in Int
  PROVE  Latency!SumFunctionOnSet(f, D) = Sum(f, D)
  <1> DEFINE g == CHOOSE h : h = [S \in SUBSET D |->
                               IF S = {} THEN 0
                               ELSE f[CHOOSE x \in S : TRUE] + h[S \ {CHOOSE x \in S : TRUE}]]
  <1>1. Latency!SumFunctionOnSet(f, D) = g[D]
    BY DEF Latency!SumFunctionOnSet, Latency!FoldFunctionOnSet, Latency!MapThenFoldSet
  <1>2. g = CHOOSE h : h = [S \in SUBSET D |->
                               IF S = {} THEN 0
                               ELSE f[CHOOSE x \in S : TRUE] + h[S \ {CHOOSE x \in S : TRUE}]]
    OBVIOUS
  <1> HIDE DEF g
  <1>3. g[D] = Sum(f, D)
    BY <1>2, FoldIsSum
  <1> QED
    BY <1>1, <1>3

(* The values up to v. *)
Below(v) == {w \in Values : w <= v}

(* What the assumptions say of the values. *)
LEMMA ScriptConstants ==
  Values \subseteq Nat /\ Values # {} /\ IsFiniteSet(Values) /\ Counts \subseteq Nat
  <1>1. Latency!ScriptsAssumption
    BY ToolsAssumption
  <1>2. Latency!IsFiniteSet(Values) => IsFiniteSet(Values)
    BY DEF Latency!IsFiniteSet, IsFiniteSet
  <1> QED
    BY <1>1, <1>2 DEF Latency!ScriptsAssumption

(* How many samples there are up to a value. *)
LEMMA SamplesUpTo ==
  ASSUME counts \in [Values -> Counts]
  PROVE  /\ Latency!n \in Nat
         /\ \A v \in Nat : Latency!UpTo(v) \in Nat /\ Latency!UpTo(v) <= Latency!n
         /\ \A v, w \in Nat : v <= w => Latency!UpTo(v) <= Latency!UpTo(w)
         /\ \E v \in Values : Latency!UpTo(v) = Latency!n
  <1>1. IsFiniteSet(Values) /\ Values \subseteq Nat /\ Values # {}
    BY ScriptConstants
  <1>2. DOMAIN counts = Values /\ \A v \in Values : counts[v] \in Nat
    BY ScriptConstants
  <1>3. \A v \in Values : counts[v] \in Int
    BY <1>2
  <1>4. Latency!n = Sum(counts, Values)
    <2>1. Latency!SumFunctionOnSet(counts, Values) = Sum(counts, Values)
      BY <1>1, <1>3, LatencySum
    <2> QED BY <1>2, <2>1 DEF Latency!n, Latency!SumFunction
  <1>5. Latency!n \in Nat
    BY <1>1, <1>2, <1>4, SumNat
  <1>6. ASSUME NEW v \in Nat
        PROVE  /\ Below(v) \in SUBSET Values /\ IsFiniteSet(Below(v))
               /\ Latency!UpTo(v) = Sum(counts, Below(v)) /\ Latency!UpTo(v) \in Nat
               /\ Latency!UpTo(v) <= Latency!n
    <2>1. Below(v) \in SUBSET Values
      BY DEF Below
    <2>2. IsFiniteSet(Below(v))
      BY <1>1, <2>1, FS_Subset
    <2>3. \A w \in Below(v) : counts[w] \in Int /\ counts[w] \in Nat
      BY <1>2, <2>1
    <2>4. Latency!SumFunctionOnSet(counts, Below(v)) = Sum(counts, Below(v))
      BY <2>2, <2>3, LatencySum
    <2>5. Latency!UpTo(v) = Sum(counts, Below(v))
      BY <2>4 DEF Latency!UpTo, Below
    <2>6. Sum(counts, Below(v)) \in Nat
      BY <2>2, <2>3, SumNat
    <2>7. Sum(counts, Below(v)) <= Sum(counts, Values)
      <3>1. \A w \in Values : counts[w] \in Nat
        BY <1>2
      <3> QED BY <1>1, <2>1, <3>1, SumSubset
    <2> QED BY <1>4, <2>1, <2>2, <2>5, <2>6, <2>7
  <1>7. ASSUME NEW v \in Nat, NEW w \in Nat, v <= w
        PROVE  Latency!UpTo(v) <= Latency!UpTo(w)
    <2>1. Below(v) \in SUBSET Below(w)
      <3>1. \A z \in Values : z <= v => z <= w
        <4>1. \A z \in Values : z \in Nat
          BY <1>1
        <4> QED BY <1>7, <4>1
      <3> QED BY <3>1 DEF Below
    <2>2. \A z \in Below(w) : counts[z] \in Nat
      BY <1>2 DEF Below
    <2>3. Sum(counts, Below(v)) <= Sum(counts, Below(w))
      BY <1>6, <2>1, <2>2, SumSubset
    <2> QED BY <1>6, <2>3
  <1>8. \E v \in Values : Latency!UpTo(v) = Latency!n
    <2> DEFINE id == [v \in Values |-> v]
    <2>1. \A v \in Values : id[v] \in Int /\ id[v] = v
      BY <1>1
    <2> HIDE DEF id
    <2>2. PICK v \in Values : \A w \in Values : id[w] <= id[v]
      BY <1>1, <2>1, Largest
    <2>3. Below(v) = Values
      BY <2>1, <2>2 DEF Below
    <2>4. v \in Nat
      BY <1>1
    <2> QED BY <1>4, <1>6, <2>3, <2>4
  <1> QED BY <1>5, <1>6, <1>7, <1>8

(* The samples sorted. *)
LEMMA Sorted ==
  ASSUME counts \in [Values -> Counts]
  PROVE  /\ \A k \in 0 .. Latency!n - 1 :
              /\ Latency!At(k) \in Nat /\ k < Latency!UpTo(Latency!At(k))
              /\ Latency!UpTo(Latency!At(k)) \in Nat
         /\ \A k, l \in 0 .. Latency!n - 1 : k <= l => Latency!At(k) <= Latency!At(l)
  <1> DEFINE S(k) == {v \in Values : k < Latency!UpTo(v)}
  <1>1. /\ Latency!n \in Nat
        /\ \A v \in Nat : Latency!UpTo(v) \in Nat
        /\ \E v \in Values : Latency!UpTo(v) = Latency!n
    BY SamplesUpTo
  <1>2. ASSUME NEW k \in 0 .. Latency!n - 1
        PROVE  Latency!At(k) \in S(k) /\ \A v \in S(k) : Latency!At(k) <= v
    <2>1. S(k) \in SUBSET Nat
      BY ScriptConstants
    <2>2. S(k) # {}
      <3>1. PICK v \in Values : Latency!UpTo(v) = Latency!n
        BY <1>1
      <3>2. k < Latency!n
        BY <1>1
      <3> QED BY <3>1, <3>2
    <2>3. Latency!At(k) = Latency!Min(S(k))
      BY DEF Latency!At
    <2> HIDE DEF S
    <2>4. \E x \in S(k) : \A y \in S(k) : x <= y
      BY <2>1, <2>2, LeastNat
    <2> QED BY <2>3, <2>4 DEF Latency!Min
  <1>3. ASSUME NEW k \in 0 .. Latency!n - 1
        PROVE  /\ Latency!At(k) \in Nat /\ k < Latency!UpTo(Latency!At(k))
               /\ Latency!UpTo(Latency!At(k)) \in Nat
    <2>1. Latency!At(k) \in S(k)
      BY <1>2
    <2>2. Latency!At(k) \in Values /\ k < Latency!UpTo(Latency!At(k))
      BY <2>1
    <2>3. Latency!At(k) \in Nat
      BY <2>2, ScriptConstants
    <2> QED BY <1>1, <2>2, <2>3
  <1>4. ASSUME NEW k \in 0 .. Latency!n - 1, NEW l \in 0 .. Latency!n - 1, k <= l
        PROVE  Latency!At(k) <= Latency!At(l)
    <2>1. Latency!At(l) \in S(l)
      BY <1>2
    <2>2. Latency!At(l) \in Values /\ l < Latency!UpTo(Latency!At(l))
      BY <2>1
    <2>3. Latency!At(l) \in Nat /\ Latency!UpTo(Latency!At(l)) \in Nat
      BY <1>3
    <2>4. k < Latency!UpTo(Latency!At(l))
      BY <1>1, <1>4, <2>2, <2>3
    <2>5. Latency!At(l) \in S(k)
      BY <2>2, <2>4
    <2> QED BY <1>2, <2>5
  <1> QED BY <1>3, <1>4

(* What is d thousandths of the way from a to b.                           *)
Mix(a, b, d) == a * (1000 - d) + b * d

(* It is a line. *)
LEMMA MixIs ==
  ASSUME NEW a \in Nat, NEW b \in Nat, a <= b
  PROVE  \E g \in Nat : b = a + g /\ \A d \in Nat : Mix(a, b, d) = 1000 * a + g * d
  <1> DEFINE g == b - a
  <1>1. g \in Nat /\ b = a + g
    OBVIOUS
  <1> HIDE DEF g
  <1>2. ASSUME NEW d \in Nat PROVE Mix(a, b, d) = 1000 * a + g * d
    <2>1. \A p, q, r \in Int : p * (1000 - r) + (p + q) * r = 1000 * p + q * r
      OBVIOUS
    <2>2. a * (1000 - d) + (a + g) * d = 1000 * a + g * d
      BY <1>1, <2>1
    <2> QED BY <1>1, <2>2 DEF Mix
  <1> QED BY <1>1, <1>2

(* From the one to the other. *)
LEMMA MixBetween ==
  ASSUME NEW a \in Nat, NEW b \in Nat, a <= b, NEW d \in Nat, d <= 1000
  PROVE  Mix(a, b, d) \in Nat /\ 1000 * a <= Mix(a, b, d) /\ Mix(a, b, d) <= 1000 * b
  <1>1. PICK g \in Nat : b = a + g /\ \A c \in Nat : Mix(a, b, c) = 1000 * a + g * c
    BY MixIs
  <1>2. Mix(a, b, d) = 1000 * a + g * d
    BY <1>1
  <1>3. \A p, q \in Nat : q <= 1000 => p * q \in Nat /\ p * q <= 1000 * p
    OBVIOUS
  <1>4. g * d \in Nat /\ g * d <= 1000 * g
    BY <1>3
  <1> QED BY <1>1, <1>2, <1>4

(* Upwards. *)
LEMMA MixGrows ==
  ASSUME NEW a \in Nat, NEW b \in Nat, a <= b, NEW c \in Nat, NEW d \in Nat, c <= d
  PROVE  Mix(a, b, c) <= Mix(a, b, d)
  <1>1. PICK g \in Nat : b = a + g /\ \A e \in Nat : Mix(a, b, e) = 1000 * a + g * e
    BY MixIs
  <1>2. Mix(a, b, c) = 1000 * a + g * c /\ Mix(a, b, d) = 1000 * a + g * d
    BY <1>1
  <1>3. \A p, q, r \in Nat : q <= r => p * q <= p * r /\ p * q \in Nat /\ p * r \in Nat
    OBVIOUS
  <1>4. g * c <= g * d /\ g * c \in Nat /\ g * d \in Nat
    BY <1>3
  <1> QED BY <1>2, <1>4

(* Thousandths of the way through the sorted samples.                      *)
LEMMA Thousandths ==
  ASSUME NEW k \in Nat
  PROVE  /\ k \div 1000 \in Nat /\ k % 1000 \in 0 .. 999
         /\ k = 1000 * (k \div 1000) + (k % 1000)
  <1> DEFINE f == k \div 1000
             d == k % 1000
  <1>1. d = k - 1000 * f
    OBVIOUS
  <1>2. f \in Nat
    OBVIOUS
  <1>3. d \in 0 .. 999
    OBVIOUS
  <1> HIDE DEF f, d
  <1>4. k = 1000 * f + d
    BY <1>1, <1>2
  <1> QED BY <1>2, <1>3, <1>4 DEF f, d

(* An interpolated value lies between its neighbours.                      *)
LEMMA BetweenBounds ==
  ASSUME counts \in [Values -> Counts], NEW k \in Nat, k <= 1000 * (Latency!n - 1)
  PROVE  /\ Latency!Between(k) \in Nat
         /\ k \div 1000 \in 0 .. Latency!n - 1
         /\ 1000 * Latency!At(k \div 1000) <= Latency!Between(k)
         /\ \A l \in 0 .. Latency!n - 1 :
              k <= 1000 * l => Latency!Between(k) <= 1000 * Latency!At(l)
  <1> DEFINE f == k \div 1000
             d == k % 1000
  <1>1. f \in Nat /\ d \in 0 .. 999 /\ k = 1000 * f + d
    BY Thousandths
  <1>2. Latency!Between(k) = IF d = 0 THEN 1000 * Latency!At(f)
                             ELSE Mix(Latency!At(f), Latency!At(f + 1), d)
    BY DEF Latency!Between, Mix
  <1> HIDE DEF f, d
  <1>3. Latency!n \in Nat
    BY SamplesUpTo
  <1>4. f \in 0 .. Latency!n - 1
    BY <1>1, <1>3
  <1>5. /\ \A l \in 0 .. Latency!n - 1 : Latency!At(l) \in Nat
        /\ \A h, l \in 0 .. Latency!n - 1 : h <= l => Latency!At(h) <= Latency!At(l)
    BY Sorted
  <1>6. CASE d = 0
    <2>1. Latency!Between(k) = 1000 * Latency!At(f) /\ Latency!At(f) \in Nat
      BY <1>2, <1>4, <1>5, <1>6
    <2>2. ASSUME NEW l \in 0 .. Latency!n - 1, k <= 1000 * l
          PROVE  Latency!Between(k) <= 1000 * Latency!At(l)
      <3>1. f <= l
        BY <1>1, <2>2
      <3>2. Latency!At(f) <= Latency!At(l) /\ Latency!At(l) \in Nat
        BY <1>4, <1>5, <3>1
      <3> QED BY <2>1, <3>2
    <2> QED BY <1>4, <2>1, <2>2 DEF f
  <1>7. CASE d # 0
    <2>1. f + 1 \in 0 .. Latency!n - 1
      BY <1>1, <1>3, <1>7
    <2> DEFINE a == Latency!At(f)
               b == Latency!At(f + 1)
    <2>2. a \in Nat /\ b \in Nat /\ a <= b /\ d \in Nat /\ d <= 1000
      BY <1>1, <1>4, <1>5, <2>1
    <2>3. Latency!Between(k) = Mix(a, b, d)
      BY <1>2, <1>7
    <2> HIDE DEF a, b
    <2>4. /\ Mix(a, b, d) \in Nat
          /\ 1000 * a <= Mix(a, b, d) /\ Mix(a, b, d) <= 1000 * b
      <3>1. \A p, q, r \in Nat : p <= q /\ r <= 1000 =>
              /\ Mix(p, q, r) \in Nat
              /\ 1000 * p <= Mix(p, q, r) /\ Mix(p, q, r) <= 1000 * q
        BY ONLY MixBetween
      <3> QED BY ONLY <2>2, <3>1
    <2>5. Latency!Between(k) \in Nat /\ 1000 * a <= Latency!Between(k)
          /\ Latency!Between(k) <= 1000 * b
      BY <2>3, <2>4
    <2>6. ASSUME NEW l \in 0 .. Latency!n - 1, k <= 1000 * l
          PROVE  Latency!Between(k) <= 1000 * Latency!At(l)
      <3>1. f + 1 <= l
        BY <1>1, <1>7, <2>6
      <3>2. b <= Latency!At(l) /\ Latency!At(l) \in Nat
        BY <1>5, <2>1, <3>1 DEF b
      <3> QED BY <2>2, <2>5, <3>2
    <2> QED BY <1>4, <2>5, <2>6 DEF a, f
  <1> QED BY <1>6, <1>7

(* Farther is no less.                                                     *)
LEMMA BetweenGrows ==
  ASSUME counts \in [Values -> Counts], NEW k \in Nat, NEW l \in Nat, k <= l,
         l <= 1000 * (Latency!n - 1)
  PROVE  Latency!Between(k) <= Latency!Between(l)
  <1> DEFINE f == k \div 1000
             c == k % 1000
             g == l \div 1000
             d == l % 1000
  <1>1. f \in Nat /\ c \in 0 .. 999 /\ k = 1000 * f + c
    BY Thousandths
  <1>2. g \in Nat /\ d \in 0 .. 999 /\ l = 1000 * g + d
    BY Thousandths
  <1>3. Latency!n \in Nat
    BY SamplesUpTo
  <1>4. k <= 1000 * (Latency!n - 1)
    BY <1>3
  <1>5. /\ Latency!Between(k) \in Nat /\ f \in 0 .. Latency!n - 1
        /\ 1000 * Latency!At(f) <= Latency!Between(k)
        /\ \A h \in 0 .. Latency!n - 1 : k <= 1000 * h => Latency!Between(k) <= 1000 * Latency!At(h)
    BY <1>4, BetweenBounds
  <1>6. /\ Latency!Between(l) \in Nat /\ g \in 0 .. Latency!n - 1
        /\ 1000 * Latency!At(g) <= Latency!Between(l)
    BY BetweenBounds
  <1>7. Latency!Between(k) = IF c = 0 THEN 1000 * Latency!At(f)
                             ELSE Mix(Latency!At(f), Latency!At(f + 1), c)
    BY DEF Latency!Between, Mix
  <1>8. Latency!Between(l) = IF d = 0 THEN 1000 * Latency!At(g)
                             ELSE Mix(Latency!At(g), Latency!At(g + 1), d)
    BY DEF Latency!Between, Mix
  <1> HIDE DEF f, c, g, d
  <1>9. \A h \in 0 .. Latency!n - 1 : Latency!At(h) \in Nat
    BY Sorted
  <1>10. CASE k <= 1000 * g
    <2>1. Latency!Between(k) <= 1000 * Latency!At(g)
      BY <1>5, <1>6, <1>10
    <2> QED BY <1>5, <1>6, <1>9, <2>1
  <1>11. CASE ~(k <= 1000 * g)
    <2>1. f = g /\ c # 0 /\ d # 0 /\ c <= d
      BY <1>1, <1>2, <1>11
    <2>2. g + 1 \in 0 .. Latency!n - 1
      BY <1>2, <1>3, <2>1
    <2> DEFINE a == Latency!At(g)
               b == Latency!At(g + 1)
    <2>3. a \in Nat /\ b \in Nat /\ a <= b
      BY <1>6, <2>2, Sorted
    <2>4. /\ Latency!Between(k) = Mix(a, b, c)
          /\ Latency!Between(l) = Mix(a, b, d)
      BY <1>7, <1>8, <2>1
    <2> HIDE DEF a, b
    <2>5. c \in Nat /\ d \in Nat /\ c <= d
      BY <1>1, <1>2, <2>1
    <2>6. Mix(a, b, c) <= Mix(a, b, d)
      BY <2>3, <2>5, MixGrows
    <2> QED BY <2>4, <2>6
  <1> QED BY <1>10, <1>11

(* The percents of the scripts that pick a sample: 1000 - p divides 1000,  *)
(* so that a place between two samples is far enough from the lower one    *)
(* for the pick to be at the higher.                                       *)
Picked == {500, 950, 990, 999}

(* Of m samples, the place of the pick is one of them, and not before the  *)
(* place to interpolate at.                                                *)
FarEnough(m, p) ==
  /\ (m * p) \div 1000 \in 0 .. m - 1
  /\ (m - 1) * p \in Nat /\ (m - 1) * p <= 1000 * ((m * p) \div 1000)
  /\ m * p < 1000 * ((m * p) \div 1000) + 1000
  /\ m * p <= 1000 * m /\ (m - 1) * p <= 1000 * (m - 1) /\ m * p \in Nat
  /\ p * m = m * p

(* So it is for the percents of the scripts. *)
LEMMA PickIsFarEnough ==
  ASSUME NEW p \in Picked, NEW m \in Nat, m > 0
  PROVE  FarEnough(m, p)
  <1> DEFINE f == (m * p) \div 1000
  <1>1. p \in Nat /\ m * p \in Nat /\ p * m = m * p
    <2>1. p \in Nat
      BY DEF Picked
    <2>2. \A q, r \in Nat : q * r \in Nat /\ q * r = r * q
      OBVIOUS
    <2> QED BY <2>1, <2>2
  <1>2. f \in Nat /\ 1000 * f <= m * p /\ m * p < 1000 * f + 1000
    <2> DEFINE a == m * p
    <2>1. a \in Nat
      BY <1>1
    <2> HIDE DEF a
    <2>2. a \div 1000 \in Nat /\ 1000 * (a \div 1000) <= a /\ a < 1000 * (a \div 1000) + 1000
      BY <2>1
    <2> QED BY <2>2 DEF a
  <1> HIDE DEF f
  <1>3. p = 500 \/ p = 950 \/ p = 990 \/ p = 999
    BY DEF Picked
  <1>4. /\ f \in 0 .. m - 1 /\ (m - 1) * p \in Nat /\ (m - 1) * p <= 1000 * f
        /\ m * p <= 1000 * m /\ (m - 1) * p <= 1000 * (m - 1)
    <2>1. CASE p = 500
      BY <1>2, <2>1
    <2>2. CASE p = 950
      BY <1>2, <2>2
    <2>3. CASE p = 990
      BY <1>2, <2>3
    <2>4. CASE p = 999
      BY <1>2, <2>4
    <2> QED BY <1>3, <2>1, <2>2, <2>3, <2>4
  <1> QED BY <1>1, <1>2, <1>4 DEF f, FarEnough

(* A sample that is picked, at the k-th place.                             *)
LEMMA PickSound ==
  ASSUME counts \in [Values -> Counts], Latency!n > 0, NEW p \in Picked,
         NEW k \in 0 .. Latency!n - 1, (Latency!n * p) \div 1000 <= k
  PROVE  /\ Latency!percentile(p) <= 1000 * Latency!At(k)
         /\ 1000 * Latency!At(0) <= 1000 * Latency!At(k)
         /\ 1000 * Latency!At(k) <= 1000 * Latency!At(Latency!n - 1)
         /\ 1000 * Latency!UpTo((1000 * Latency!At(k)) \div 1000) >= p * Latency!n
  <1> DEFINE m == Latency!n
             f == (m * p) \div 1000
             x == (m - 1) * p
             v == Latency!At(k)
  <1>1. m \in Nat /\ m > 0
    BY SamplesUpTo
  <1> HIDE DEF m
  <1>2. /\ f \in 0 .. m - 1 /\ x \in Nat /\ x <= 1000 * f /\ m * p < 1000 * f + 1000
        /\ x <= 1000 * (m - 1) /\ m * p \in Nat /\ p * m = m * p
    <2>1. FarEnough(m, p)
      BY <1>1, PickIsFarEnough
    <2> QED BY <2>1 DEF FarEnough
  <1>3. f <= k /\ k \in 0 .. m - 1
    BY DEF m
  <1>4. Latency!percentile(p) = Latency!Between(x)
    BY DEF Latency!percentile, m
  <1>5. /\ v \in Nat /\ k < Latency!UpTo(v) /\ Latency!UpTo(v) \in Nat
        /\ Latency!At(0) \in Nat /\ Latency!At(0) <= v
        /\ Latency!At(m - 1) \in Nat /\ v <= Latency!At(m - 1)
    <2>1. 0 \in 0 .. Latency!n - 1 /\ Latency!n - 1 \in 0 .. Latency!n - 1
          /\ 0 <= k /\ k <= Latency!n - 1
      BY <1>1 DEF m
    <2>2. v \in Nat /\ k < Latency!UpTo(v) /\ Latency!UpTo(v) \in Nat
      BY Sorted
    <2>3. Latency!At(0) \in Nat /\ Latency!At(0) <= v
      BY <2>1, Sorted
    <2>4. Latency!At(Latency!n - 1) \in Nat /\ v <= Latency!At(Latency!n - 1)
      BY <2>1, Sorted
    <2> QED BY <2>2, <2>3, <2>4 DEF m
  <1>6. Latency!Between(x) <= 1000 * v
    <2>1. \A l \in 0 .. Latency!n - 1 : x <= 1000 * l => Latency!Between(x) <= 1000 * Latency!At(l)
      <3>1. x \in Nat /\ x <= 1000 * (Latency!n - 1)
        BY <1>2 DEF m
      <3> HIDE DEF x
      <3> QED BY <3>1, BetweenBounds
    <2>2. x <= 1000 * k
      <3> HIDE DEF x, f
      <3> QED BY <1>2, <1>3
    <2> HIDE DEF x
    <2> QED BY <2>1, <2>2
  <1>7. (1000 * v) \div 1000 = v
    <2> HIDE DEF v
    <2> QED BY <1>5
  <1>8. 1000 * Latency!UpTo(v) >= m * p
    <2> HIDE DEF v, f
    <2>1. \A a, b, c, d \in Nat : a < 1000 * b + 1000 /\ b <= c /\ c < d => 1000 * d >= a
      OBVIOUS
    <2>2. f \in Nat /\ k \in Nat
      BY <1>2, <1>3
    <2> QED BY <1>2, <1>3, <1>5, <2>1, <2>2
  <1> HIDE DEF v, x
  <1>9. 1000 * Latency!UpTo((1000 * v) \div 1000) >= p * m
    BY <1>2, <1>7, <1>8
  <1>10. 1000 * Latency!At(0) <= 1000 * v /\ 1000 * v <= 1000 * Latency!At(m - 1)
    BY <1>5
  <1> QED BY <1>4, <1>6, <1>9, <1>10 DEF v, m

(* The place of the sample that a script picks.                            *)
PickOf(s, p) ==
  IF s = "ch12" /\ ~(Latency!n > Latency!enough[p]) THEN Latency!n - 1
  ELSE (Latency!n * p) \div 1000

(* The scripts pick it, at a place that grows with the percent. *)
LEMMA Picks ==
  ASSUME counts \in [Values -> Counts], Latency!n > 0, NEW s \in {"ch10", "ch12"},
         NEW p \in Latency!Percents[s]
  PROVE  /\ p \in Picked
         /\ Latency!value(s, p) = 1000 * Latency!At(PickOf(s, p))
         /\ PickOf(s, p) \in 0 .. Latency!n - 1 /\ (Latency!n * p) \div 1000 <= PickOf(s, p)
         /\ \A r \in Latency!Percents[s] : p <= r => PickOf(s, p) <= PickOf(s, r)
  <1> DEFINE m == Latency!n
  <1>1. m \in Nat /\ m > 0
    BY SamplesUpTo
  <1>2. /\ s = "ch10" => Latency!Percents[s] = {500, 990, 999}
        /\ s = "ch12" => Latency!Percents[s] = {950, 990}
    BY DEF Latency!Percents
  <1>3. Latency!Percents[s] \subseteq Picked
    BY <1>2 DEF Picked
  <1>4. ASSUME NEW q \in Latency!Percents[s]
        PROVE  (m * q) \div 1000 \in 0 .. m - 1 /\ q \in Picked
    <2>1. q \in Picked
      BY <1>3
    <2> HIDE DEF m
    <2>2. FarEnough(m, q)
      BY <1>1, <2>1, PickIsFarEnough
    <2> QED BY <2>1, <2>2 DEF FarEnough
  <1>5. Latency!value(s, p) = 1000 * Latency!At(PickOf(s, p))
    <2>1. CASE s = "ch10"
      <3>1. Latency!value(s, p) = Latency!q(p)
        BY <2>1 DEF Latency!value
      <3> DEFINE f == (m * p) \div 1000
                 S == {m - 1, f}
      <3>2. f \in 0 .. m - 1
        BY <1>4
      <3>3. Latency!q(p) = 1000 * Latency!At(Latency!Min(S))
        BY DEF Latency!q
      <3>4. PickOf(s, p) = f
        BY <2>1 DEF PickOf
      <3> HIDE DEF f, m
      <3>5. Latency!Min(S) = f
        <4>1. f \in S /\ \A y \in S : f <= y
          BY <1>1, <3>2
        <4>2. \A z \in S : (\A y \in S : z <= y) => z = f
          BY <1>1, <3>2, <4>1
        <4> HIDE DEF S
        <4>3. Latency!Min(S) \in S /\ \A y \in S : Latency!Min(S) <= y
          BY <4>1 DEF Latency!Min
        <4> QED BY <4>2, <4>3
      <3> QED BY <3>1, <3>3, <3>4, <3>5
    <2>2. CASE s = "ch12"
      <3>1. Latency!value(s, p) = Latency!ranked(p)
        BY <2>2 DEF Latency!value
      <3> QED BY <2>2, <3>1 DEF Latency!ranked, PickOf
    <2> QED BY <2>1, <2>2
  <1>6. ASSUME NEW q \in Latency!Percents[s]
        PROVE  PickOf(s, q) \in 0 .. m - 1 /\ (m * q) \div 1000 <= PickOf(s, q)
    <2> DEFINE f == (m * q) \div 1000
    <2>1. f \in 0 .. m - 1
      BY <1>4
    <2>2. PickOf(s, q) = m - 1 \/ PickOf(s, q) = f
      BY DEF PickOf
    <2> HIDE DEF m, f
    <2>3. PickOf(s, q) \in 0 .. m - 1 /\ f <= PickOf(s, q)
      BY <1>1, <2>1, <2>2
    <2> QED BY <2>3 DEF f
  <1>7. ASSUME NEW r \in Latency!Percents[s], p <= r
        PROVE  PickOf(s, p) <= PickOf(s, r)
    <2> DEFINE f == (m * p) \div 1000
               g == (m * r) \div 1000
    <2>1. f \in 0 .. m - 1 /\ g \in 0 .. m - 1
      BY <1>4
    <2>2. f <= g
      <3>1. p \in Nat /\ r \in Nat
        BY <1>4 DEF Picked
      <3> DEFINE a == m * p
                 b == m * r
      <3>2. a \in Nat /\ b \in Nat /\ a <= b
        <4>1. \A x, y, z \in Nat : y <= z => x * y \in Nat /\ x * z \in Nat /\ x * y <= x * z
          OBVIOUS
        <4> HIDE DEF m
        <4> QED BY <1>1, <1>7, <3>1, <4>1
      <3> HIDE DEF a, b
      <3>3. a \div 1000 <= b \div 1000
        BY <3>2
      <3> QED BY <3>3 DEF a, b
    <2>3. PickOf(s, r) = m - 1 \/ (PickOf(s, p) = f /\ PickOf(s, r) = g)
      <3>1. CASE s = "ch10"
        BY <3>1 DEF PickOf
      <3>2. CASE s = "ch12"
        <4>1. Latency!enough[950] = 20 /\ Latency!enough[990] = 100
          BY DEF Latency!enough
        <4>2. p \in {950, 990} /\ r \in {950, 990}
          BY <1>2, <3>2
        <4>3. Latency!enough[p] <= Latency!enough[r] /\ Latency!enough[p] \in Nat
              /\ Latency!enough[r] \in Nat
          BY <1>7, <4>1, <4>2
        <4> HIDE DEF f, g
        <4>4. m > Latency!enough[r] => m > Latency!enough[p]
          <5> HIDE DEF m
          <5> QED BY <1>1, <4>3
        <4> QED BY <3>2, <4>4 DEF PickOf, f, g
      <3> QED BY <3>1, <3>2
    <2>4. PickOf(s, p) \in 0 .. m - 1
      BY <1>6
    <2> HIDE DEF m, f, g
    <2> QED BY <1>1, <2>1, <2>2, <2>3, <2>4
  <1> QED BY <1>3, <1>5, <1>6, <1>7

(* What a script has printed are the percentiles of the samples it read.   *)
PercentInv ==
  /\ counts \in [Values -> Counts] /\ script \in DOMAIN Latency!Percents
  /\ \/ percentiles = <<>>
     \/ /\ Latency!n > 0
        /\ percentiles = [p \in Latency!Percents[script] |-> Latency!value(script, p)]

(* A script prints nothing if there are no samples.                        *)
LEMMA PrintsSamples == Latency!Read(script) = "printed" => Latency!n > 0
  <1>1. "exception" # "printed" /\ "nan" # "printed"
    OBVIOUS
  <1>2. "no samples" # "printed"
    BY Zenon
  <1> QED
    BY <1>1, <1>2, Zenon DEF Latency!Read

(* A step keeps it. *)
LEMMA PercentStep ==
  ASSUME PercentInv, [Next]_vars
  PROVE  PercentInv'
  <1> DEFINE P == [p \in Latency!Percents[script] |-> Latency!value(script, p)]
  <1>1. ASSUME counts' = counts, script' = script
        PROVE  Latency!n' = Latency!n /\ P' = P
               /\ Latency!Percents[script]' = Latency!Percents[script]
    <2>1. Latency!n' = Latency!n
      BY <1>1 DEF Latency!n
    <2>2. \A v : Latency!UpTo(v)' = Latency!UpTo(v)
      BY <1>1 DEF Latency!UpTo
    <2>3. \A k : Latency!At(k)' = Latency!At(k)
      BY <2>2 DEF Latency!At
    <2>4. \A k : Latency!Between(k)' = Latency!Between(k)
      BY <2>3 DEF Latency!Between
    <2>5. \A s, p : Latency!value(s, p)' = Latency!value(s, p)
      <3> TAKE s, p
      <3>1. Latency!percentile(p)' = Latency!percentile(p)
        BY <2>1, <2>4 DEF Latency!percentile
      <3>2. Latency!q(p)' = Latency!q(p)
        BY <2>1, <2>3 DEF Latency!q
      <3>3. Latency!ranked(p)' = Latency!ranked(p)
        BY <2>1, <2>3 DEF Latency!ranked, Latency!enough
      <3> QED BY <3>1, <3>2, <3>3 DEF Latency!value
    <2>6. Latency!Percents[script]' = Latency!Percents[script]
      BY <1>1 DEF Latency!Percents
    <2> QED BY <1>1, <2>1, <2>5, <2>6
  <1>2. CASE RunPercentiles
    <2>1. Latency!Main
      BY <1>2 DEF RunPercentiles, Latency!Next
    <2>2. /\ counts' = counts /\ script' = script
          /\ outcome' = Latency!Read(script)
          /\ percentiles' = IF outcome' = "printed" THEN P ELSE <<>>
      BY <2>1 DEF Latency!Main
    <2> HIDE DEF P
    <2>3. Latency!n' = Latency!n /\ P' = P
      BY <1>1, <2>2
    <2>4. percentiles' = <<>> \/ (Latency!n' > 0 /\ percentiles' = P')
      <3>1. CASE outcome' = "printed"
        <4>1. Latency!n > 0
          BY <2>2, <3>1, PrintsSamples
        <4> QED BY <2>2, <2>3, <3>1, <4>1
      <3>2. CASE outcome' # "printed"
        BY <2>2, <3>2
      <3> QED BY <3>1, <3>2
    <2>5. counts' \in [Values -> Counts] /\ script' \in (DOMAIN Latency!Percents)'
      BY <2>2 DEF PercentInv, Latency!Percents
    <2> QED BY <2>4, <2>5 DEF PercentInv, P
  <1>3. CASE UNCHANGED latency
    <2>1. counts' = counts /\ script' = script /\ percentiles' = percentiles
      BY <1>3 DEF latency
    <2> HIDE DEF P
    <2>2. Latency!n' = Latency!n /\ P' = P
      BY <1>1, <2>1
    <2>3. counts' \in [Values -> Counts] /\ script' \in (DOMAIN Latency!Percents)'
      BY <2>1 DEF PercentInv, Latency!Percents
    <2>4. percentiles = <<>> \/ (Latency!n > 0 /\ percentiles = P)
      BY DEF PercentInv, P
    <2>5. percentiles' = <<>> \/ (Latency!n' > 0 /\ percentiles' = P')
      BY <2>1, <2>2, <2>4
    <2> QED BY <2>3, <2>5 DEF PercentInv, P
  <1> QED
    BY <1>2, <1>3 DEF Next, vars, RunQs, ProbeRuns, RunFairness, RunCluster,
                      RunThrottling, RunBenchmark

(* The invariant. *)
LEMMA PercentHolds == Spec => []PercentInv
  <1>1. Init => PercentInv
    <2> SUFFICES ASSUME Init PROVE PercentInv
      OBVIOUS
    <2>1. Latency!Init
      BY DEF Init
    <2> QED BY <2>1 DEF Latency!Init, PercentInv
  <1>2. PercentInv /\ [Next]_vars => PercentInv'
    BY PercentStep
  <1> QED
    BY <1>1, <1>2, PTL DEF Spec

(* Thousandths. *)
Shares == 0 .. 1000

(* The scripts that interpolate.                                           *)
LEMMA InterpolatedSound ==
  ASSUME counts \in [Values -> Counts], Latency!n > 0, NEW p \in Shares
  PROVE  /\ Latency!percentile(p) \in Nat
         /\ 1000 * Latency!At(0) <= Latency!percentile(p)
         /\ Latency!percentile(p) <= 1000 * Latency!At(Latency!n - 1)
         /\ \A r \in Shares : p <= r => Latency!percentile(p) <= Latency!percentile(r)
  <1> DEFINE m == Latency!n - 1
             x(r) == m * r
  <1>1. m \in Nat
    BY SamplesUpTo
  <1>2. ASSUME NEW r \in Shares
        PROVE  /\ x(r) \in Nat /\ x(r) <= 1000 * m
               /\ Latency!percentile(r) = Latency!Between(x(r))
               /\ \A q \in Shares : q <= r => x(q) <= x(r)
    <2>1. Latency!percentile(r) = Latency!Between(x(r))
      BY DEF Latency!percentile
    <2> HIDE DEF m
    <2>2. \A a, b, c \in Nat : b <= c => a * b \in Nat /\ a * b <= a * c
      OBVIOUS
    <2>3. r \in Nat /\ r <= 1000 /\ r <= r
      BY DEF Shares
    <2>4. m * r \in Nat /\ m * r <= m * 1000
      BY <1>1, <2>2, <2>3
    <2>5. m * 1000 = 1000 * m
      BY <1>1
    <2>6. \A q \in Shares : q <= r => m * q <= m * r
      <3> TAKE q \in Shares
      <3>1. q \in Nat
        BY DEF Shares
      <3> QED BY <1>1, <2>2, <2>3, <3>1
    <2> QED BY <2>1, <2>4, <2>5, <2>6
  <1> HIDE DEF x
  <1>3. ASSUME NEW r \in Shares, p <= r
        PROVE  Latency!percentile(p) <= Latency!percentile(r)
    <2> DEFINE a == x(p)
               b == x(r)
    <2>1. /\ a \in Nat /\ b \in Nat /\ b <= 1000 * m /\ a <= b
          /\ Latency!percentile(p) = Latency!Between(a)
          /\ Latency!percentile(r) = Latency!Between(b)
      BY <1>2, <1>3
    <2> HIDE DEF a, b
    <2>2. Latency!Between(a) <= Latency!Between(b)
      BY <2>1, BetweenGrows
    <2> QED BY <2>1, <2>2
  <1>4. /\ Latency!percentile(p) \in Nat
        /\ 1000 * Latency!At(0) <= Latency!percentile(p)
        /\ Latency!percentile(p) <= 1000 * Latency!At(m)
    <2> DEFINE a == x(p)
               f == a \div 1000
    <2>1. a \in Nat /\ a <= 1000 * m /\ Latency!percentile(p) = Latency!Between(a)
      BY <1>2
    <2> HIDE DEF a
    <2>2. /\ Latency!Between(a) \in Nat /\ f \in 0 .. m
          /\ 1000 * Latency!At(f) <= Latency!Between(a)
          /\ \A l \in 0 .. m : a <= 1000 * l => Latency!Between(a) <= 1000 * Latency!At(l)
      BY <2>1, BetweenBounds
    <2> HIDE DEF f
    <2>3. 0 \in 0 .. m /\ m \in 0 .. m /\ 0 <= f
      BY <1>1, <2>2
    <2>4. Latency!At(0) <= Latency!At(f) /\ Latency!At(0) \in Nat /\ Latency!At(f) \in Nat
      BY <2>2, <2>3, Sorted
    <2>5. Latency!Between(a) <= 1000 * Latency!At(m)
      BY <2>1, <2>2, <2>3
    <2>6. 1000 * Latency!At(0) <= Latency!Between(a)
      BY <2>2, <2>4
    <2>7. Latency!percentile(p) \in Nat
      BY ONLY <2>1, <2>2
    <2>8. 1000 * Latency!At(0) <= Latency!percentile(p)
      BY ONLY <2>1, <2>6
    <2>9. Latency!percentile(p) <= 1000 * Latency!At(m)
      BY ONLY <2>1, <2>5
    <2> QED BY <2>7, <2>8, <2>9
  <1> QED BY <1>3, <1>4

(* Whatever a script prints, its tail is not hidden.                       *)
LEMMA TailSound ==
  ASSUME PercentInv, NEW p \in DOMAIN percentiles
  PROVE  /\ \A r \in DOMAIN percentiles : p <= r => percentiles[p] <= percentiles[r]
         /\ percentiles[p] \in 1000 * Latency!At(0) .. 1000 * Latency!At(Latency!n - 1)
         /\ percentiles[p] >= Latency!percentile(p)
         /\ script \in {"ch10", "ch12"} =>
              1000 * Latency!UpTo(percentiles[p] \div 1000) >= p * Latency!n
  <1> DEFINE P == Latency!Percents[script]
  <1>1. /\ counts \in [Values -> Counts] /\ script \in DOMAIN Latency!Percents
        /\ Latency!n > 0 /\ Latency!n \in Nat /\ DOMAIN percentiles = P /\ p \in P
        /\ \A r \in P : percentiles[r] = Latency!value(script, r)
    <2>1. percentiles # <<>>
      OBVIOUS
    <2>2. /\ Latency!n > 0
          /\ percentiles = [r \in Latency!Percents[script] |-> Latency!value(script, r)]
      BY <2>1 DEF PercentInv
    <2>3. Latency!n \in Nat
      BY SamplesUpTo DEF PercentInv
    <2> QED BY <2>2, <2>3 DEF PercentInv
  <1>2. 0 \in 0 .. Latency!n - 1 /\ Latency!n - 1 \in 0 .. Latency!n - 1
    BY <1>1
  <1>3. Latency!At(0) \in Nat /\ Latency!At(Latency!n - 1) \in Nat
    BY <1>1, <1>2, Sorted
  <1>4. CASE script \in {"ch10", "ch12"}
    <2>1. ASSUME NEW r \in P
          PROVE  /\ r \in Picked /\ percentiles[r] = 1000 * Latency!At(PickOf(script, r))
                 /\ PickOf(script, r) \in 0 .. Latency!n - 1
                 /\ (Latency!n * r) \div 1000 <= PickOf(script, r)
                 /\ \A s \in P : r <= s => PickOf(script, r) <= PickOf(script, s)
      BY <1>1, <1>4, Picks
    <2> DEFINE k == PickOf(script, p)
    <2>2. /\ p \in Picked /\ percentiles[p] = 1000 * Latency!At(k) /\ k \in 0 .. Latency!n - 1
          /\ (Latency!n * p) \div 1000 <= k
      BY <1>1, <2>1
    <2> HIDE DEF k
    <2>3. Latency!At(k) \in Nat
      BY <1>1, <2>2, Sorted
    <2>4. /\ Latency!percentile(p) <= 1000 * Latency!At(k)
          /\ 1000 * Latency!At(0) <= 1000 * Latency!At(k)
          /\ 1000 * Latency!At(k) <= 1000 * Latency!At(Latency!n - 1)
          /\ 1000 * Latency!UpTo((1000 * Latency!At(k)) \div 1000) >= p * Latency!n
      BY <1>1, <2>2, PickSound
    <2>5. ASSUME NEW r \in P, p <= r PROVE percentiles[p] <= percentiles[r]
      <3> DEFINE l == PickOf(script, r)
      <3>1. k <= l /\ l \in 0 .. Latency!n - 1 /\ percentiles[r] = 1000 * Latency!At(l)
        BY <1>1, <2>1, <2>5 DEF k
      <3> HIDE DEF l
      <3>2. Latency!At(k) <= Latency!At(l) /\ Latency!At(l) \in Nat
        BY <1>1, <2>2, <3>1, Sorted
      <3> QED BY <2>2, <2>3, <3>1, <3>2
    <2>6. percentiles[p] \in 1000 * Latency!At(0) .. 1000 * Latency!At(Latency!n - 1)
      BY <1>3, <2>2, <2>3, <2>4
    <2>7. percentiles[p] >= Latency!percentile(p)
      <3>1. p \in Shares
        BY <2>2 DEF Picked, Shares
      <3>2. Latency!percentile(p) \in Nat
        BY <1>1, <3>1, InterpolatedSound
      <3> QED BY <2>2, <2>3, <2>4, <3>2
    <2>8. 1000 * Latency!UpTo(percentiles[p] \div 1000) >= p * Latency!n
      BY <2>2, <2>4
    <2> QED BY <1>1, <2>5, <2>6, <2>7, <2>8
  <1>5. CASE script \notin {"ch10", "ch12"}
    <2>1. P \subseteq Shares
      <3>1. /\ Latency!Percents["ch04"] = {500, 900, 990}
            /\ Latency!Percents["ch05"] = {500, 900, 990, 999}
            /\ Latency!Percents["project"] = {500, 950, 990}
        BY DEF Latency!Percents
      <3>2. script \in {"ch04", "ch05", "project"}
        BY <1>1, <1>5 DEF Latency!Percents
      <3> QED BY <3>1, <3>2 DEF Shares
    <2>2. ASSUME NEW r \in P PROVE percentiles[r] = Latency!percentile(r)
      <3>1. percentiles[r] = Latency!value(script, r)
        BY <1>1
      <3> QED BY <1>5, <3>1 DEF Latency!value
    <2>3. /\ Latency!percentile(p) \in Nat
          /\ 1000 * Latency!At(0) <= Latency!percentile(p)
          /\ Latency!percentile(p) <= 1000 * Latency!At(Latency!n - 1)
          /\ \A r \in Shares : p <= r => Latency!percentile(p) <= Latency!percentile(r)
      <3>1. p \in Shares
        BY <1>1, <2>1
      <3> QED BY <1>1, <3>1, InterpolatedSound
    <2>4. percentiles[p] = Latency!percentile(p)
      BY <1>1, <2>2
    <2>5. ASSUME NEW r \in P, p <= r PROVE percentiles[p] <= percentiles[r]
      <3>1. r \in Shares /\ percentiles[r] = Latency!percentile(r)
        BY <2>1, <2>2
      <3> QED BY <2>3, <2>4, <2>5, <3>1
    <2>6. percentiles[p] \in 1000 * Latency!At(0) .. 1000 * Latency!At(Latency!n - 1)
      BY <1>3, <2>3, <2>4
    <2>7. percentiles[p] >= Latency!percentile(p)
      BY <2>3, <2>4
    <2> QED BY <1>1, <1>5, <2>5, <2>6, <2>7
  <1> QED BY <1>4, <1>5

(* No percentile script makes the tail smaller than it is, for any file:   *)
(* of any latencies, any number of each and any lines that do not parse.   *)
(* The percentiles are ordered and between the least and the greatest      *)
(* sample, int(n * p) is a place of the sorted samples and never one       *)
(* before the interpolated value, and what a script picks has at least so  *)
(* many samples up to it.                                                  *)
THEOREM PercentilesKeepTail == Spec => []TailNotHidden
  <1>1. PercentInv => TailNotHidden
    BY TailSound DEF TailNotHidden, Latency!TailNotHidden
  <1> QED
    BY <1>1, PercentHolds, PTL

==============================================================================
