----------------------------- MODULE FiniteSums -----------------------------
(***************************************************************************)
(* Sums over finite sets, as MapThenSumSet computes them, for proofs: the  *)
(* recursion is well defined, the order of the terms does not matter, and  *)
(* a sum follows the changes of its terms.  Induction is on the strict     *)
(* subsets of a finite set, by the minimal counterexample.                 *)
(***************************************************************************)
EXTENDS Integers, FiniteSetsExt, FiniteSetTheorems, WellFoundedInduction, TLAPS

(* The sum of h[x] for x in S. *)
SumOf(h, S) == MapThenSumSet(LAMBDA x : h[x], S)

Pick(s) == CHOOSE x \in s : TRUE

(* f is what the recursion of SumOf defines on the subsets of S. *)
Sums(f, h, S) ==
  f = [s \in SUBSET S |->
         IF s = {} THEN 0 ELSE h[Pick(s)] + f[s \ {Pick(s)}]]

LEMMA SumOfDef ==
  ASSUME NEW h, NEW S
  PROVE  SumOf(h, S) = (CHOOSE f : Sums(f, h, S))[S]
BY DEF SumOf, MapThenSumSet, MapThenFoldSet, Sums, Pick

(* Induction over the subsets of a finite set. *)
LEMMA SubsetInduction ==
  ASSUME NEW D, IsFiniteSet(D), NEW Good,
         \A T \in SUBSET D : (\A U \in SUBSET T : U # T => U \in Good) => T \in Good
  PROVE  \A T \in SUBSET D : T \in Good
<1> DEFINE Bad == {T \in SUBSET D : T \notin Good}
<1>1. SUFFICES ASSUME Bad # {} PROVE FALSE
  OBVIOUS
<1>2. IsWellFoundedOn(StrictSubsetOrdering(D), SUBSET D)
  BY FS_StrictSubsetOrderingWellFounded, FS_FiniteSubsetsOfFinite
<1>3. PICK T \in Bad : \A U \in Bad : ~(<<U, T>> \in StrictSubsetOrdering(D))
  <2> HIDE DEF Bad
  <2>1. Bad \subseteq SUBSET D BY DEF Bad
  <2> QED BY <1>1, <1>2, <2>1, WFMin
<1>4. ASSUME NEW U \in SUBSET T, U # T PROVE U \in Good
  <2>1. <<U, T>> \in StrictSubsetOrdering(D)
    BY <1>4 DEF StrictSubsetOrdering
  <2> QED BY <1>3, <2>1
<1> QED BY <1>4

(* Two functions that the recursion defines agree where both are defined. *)
LEMMA SumsAgree ==
  ASSUME NEW D, IsFiniteSet(D), NEW h, NEW A \in SUBSET D, NEW B \in SUBSET D,
         NEW f, NEW g, Sums(f, h, A), Sums(g, h, B)
  PROVE  \A T \in SUBSET D : T \subseteq A /\ T \subseteq B => f[T] = g[T]
<1> DEFINE Good == {T \in SUBSET D : T \subseteq A /\ T \subseteq B => f[T] = g[T]}
<1>1. ASSUME NEW T \in SUBSET D, \A U \in SUBSET T : U # T => U \in Good
      PROVE  T \in Good
  <2> SUFFICES ASSUME T \subseteq A, T \subseteq B PROVE f[T] = g[T]
    OBVIOUS
  <2>1. CASE T = {}
    BY <2>1 DEF Sums
  <2>2. CASE T # {}
    <3>1. Pick(T) \in T
      BY <2>2 DEF Pick
    <3>2. T \ {Pick(T)} \in Good
      BY <1>1, <3>1
    <3>3. f[T \ {Pick(T)}] = g[T \ {Pick(T)}]
      BY <3>2
    <3>4. f[T] = h[Pick(T)] + f[T \ {Pick(T)}]
      BY <2>2 DEF Sums
    <3>5. g[T] = h[Pick(T)] + g[T \ {Pick(T)}]
      BY <2>2 DEF Sums
    <3> QED BY <3>3, <3>4, <3>5
  <2> QED BY <2>1, <2>2
<1> HIDE DEF Good
<1>2. \A T \in SUBSET D : T \in Good
  BY <1>1, SubsetInduction
<1> QED BY <1>2 DEF Good

(* The value of the sum of a set, by any function the recursion defines. *)
Value(h, s) == CHOOSE v : \E f : Sums(f, h, s) /\ v = f[s]

(* The recursion defines a function on the subsets of a finite set. *)
LEMMA SumsExist ==
  ASSUME NEW D, IsFiniteSet(D), NEW h
  PROVE  \E f : Sums(f, h, D)
<1> DEFINE Good == {T \in SUBSET D : \E f : Sums(f, h, T)}
<1>1. ASSUME NEW T \in SUBSET D, \A U \in SUBSET T : U # T => U \in Good
      PROVE  T \in Good
  <2>1. ASSUME NEW U \in SUBSET T, U # T, NEW f, Sums(f, h, U)
        PROVE  f[U] = Value(h, U)
    <3>1. \A g : Sums(g, h, U) => g[U] = f[U]
      <4>1. U \in SUBSET D OBVIOUS
      <4> QED BY <2>1, <4>1, SumsAgree
    <3> QED BY <2>1, <3>1 DEF Value
  <2> DEFINE last == IF T = {} THEN 0 ELSE h[Pick(T)] + Value(h, T \ {Pick(T)})
  <2> DEFINE f == [s \in SUBSET T |-> IF s = T THEN last ELSE Value(h, s)]
  <2>2. ASSUME NEW s \in SUBSET T
        PROVE  f[s] = IF s = {} THEN 0 ELSE h[Pick(s)] + f[s \ {Pick(s)}]
    <3>0. s # {} => Pick(s) \in s
      BY DEF Pick
    <3>1. CASE s = T
      BY <3>0, <3>1
    <3>2. CASE s # T
      <4>1. PICK g : Sums(g, h, s)
        BY <1>1, <3>2
      <4>2. f[s] = g[s]
        BY <2>1, <3>2, <4>1
      <4>3. CASE s = {}
        <5>1. g[s] = 0 BY <4>1, <4>3 DEF Sums
        <5> QED BY <4>2, <4>3, <5>1
      <4>4. CASE s # {}
        <5> DEFINE U == s \ {Pick(s)}
        <5>1. g[s] = h[Pick(s)] + g[U]
          BY <4>1, <4>4 DEF Sums
        <5>2. U \in SUBSET T /\ U # T /\ U \subseteq s
          BY <3>2, <3>0, <4>4
        <5>3. PICK k : Sums(k, h, U)
          BY <1>1, <5>2
        <5>4. k[U] = g[U]
          <6>1. U \in SUBSET D /\ s \in SUBSET D BY <5>2
          <6> QED BY <4>1, <5>3, <5>2, <6>1, SumsAgree
        <5>5. k[U] = Value(h, U)
          BY <2>1, <5>2, <5>3
        <5>6. f[U] = Value(h, U)
          BY <5>2
        <5> QED BY <4>2, <4>4, <5>1, <5>4, <5>5, <5>6
      <4> QED BY <4>3, <4>4
    <3> QED BY <3>1, <3>2
  <2>3. Sums(f, h, T)
    BY <2>2 DEF Sums
  <2> QED BY <2>3
<1> HIDE DEF Good
<1>2. \A T \in SUBSET D : T \in Good
  BY <1>1, SubsetInduction
<1> QED BY <1>2 DEF Good

(* The sum of a finite set is computed term by term. *)
LEMMA SumOfUnfold ==
  ASSUME NEW D, IsFiniteSet(D), NEW h
  PROVE  /\ SumOf(h, {}) = 0
         /\ D # {} => SumOf(h, D) = h[Pick(D)] + SumOf(h, D \ {Pick(D)})
<1> DEFINE F(S) == CHOOSE f : Sums(f, h, S)
<1>1. ASSUME NEW S \in SUBSET D PROVE Sums(F(S), h, S)
  BY SumsExist, FS_Subset
<1>2. ASSUME NEW S PROVE SumOf(h, S) = F(S)[S]
  BY SumOfDef
<1> HIDE DEF F
<1>3. SumOf(h, {}) = 0
  BY <1>1, <1>2 DEF Sums
<1>4. ASSUME D # {} PROVE SumOf(h, D) = h[Pick(D)] + SumOf(h, D \ {Pick(D)})
  <2> DEFINE U == D \ {Pick(D)}
  <2>1. F(D)[D] = h[Pick(D)] + F(D)[U]
    <3>1. Sums(F(D), h, D) BY <1>1
    <3> QED BY <3>1, <1>4 DEF Sums
  <2>2. F(D)[U] = F(U)[U]
    BY <1>1, SumsAgree
  <2> QED BY <1>2, <2>1, <2>2
<1> QED BY <1>3, <1>4

(* Sums of integers are integers. *)
LEMMA SumOfInt ==
  ASSUME NEW D, IsFiniteSet(D), NEW h, \A x \in D : h[x] \in Int
  PROVE  SumOf(h, D) \in Int
<1> DEFINE Good == {T \in SUBSET D : SumOf(h, T) \in Int}
<1>1. ASSUME NEW T \in SUBSET D, \A U \in SUBSET T : U # T => U \in Good
      PROVE  T \in Good
  <2>1. CASE T = {}
    <3>1. SumOf(h, T) = 0 BY <2>1, SumOfUnfold
    <3> QED BY <3>1
  <2>2. CASE T # {}
    <3>1. Pick(T) \in T
      BY <2>2 DEF Pick
    <3>2. SumOf(h, T \ {Pick(T)}) \in Int
      BY <1>1, <3>1
    <3>3. SumOf(h, T) = h[Pick(T)] + SumOf(h, T \ {Pick(T)})
      BY <2>2, SumOfUnfold, FS_Subset
    <3> QED BY <3>1, <3>2, <3>3
  <2> QED BY <2>1, <2>2
<1> HIDE DEF Good
<1>2. \A T \in SUBSET D : T \in Good
  BY <1>1, SubsetInduction
<1> QED BY <1>2 DEF Good

(* Any term may be taken out first. *)
LEMMA SumOfRemove ==
  ASSUME NEW D, IsFiniteSet(D), NEW h, \A x \in D : h[x] \in Int
  PROVE  \A x \in D : SumOf(h, D) = h[x] + SumOf(h, D \ {x})
<1> DEFINE Good == {T \in SUBSET D : \A x \in T : SumOf(h, T) = h[x] + SumOf(h, T \ {x})}
<1>1. ASSUME NEW T \in SUBSET D, \A U \in SUBSET T : U # T => U \in Good
      PROVE  T \in Good
  <2> SUFFICES ASSUME NEW x \in T PROVE SumOf(h, T) = h[x] + SumOf(h, T \ {x})
    OBVIOUS
  <2> DEFINE c == Pick(T)
             U == T \ {c}
             V == T \ {x}
             W == T \ {c, x}
  <2>1. c \in T
    BY DEF Pick
  <2>2. IsFiniteSet(T)
    BY FS_Subset
  <2>3. SumOf(h, T) = h[c] + SumOf(h, U)
    BY <2>2, SumOfUnfold
  <2>4. CASE x = c
    BY <2>3, <2>4
  <2>5. CASE x # c
    <3>1. SumOf(h, U) = h[x] + SumOf(h, W)
      <4>1. U \in Good BY <1>1, <2>1
      <4>2. x \in U /\ U \ {x} = W BY <2>5
      <4> QED BY <4>1, <4>2
    <3>2. SumOf(h, V) = h[c] + SumOf(h, W)
      <4>1. V \in Good BY <1>1
      <4>2. c \in V /\ V \ {c} = W BY <2>1, <2>5
      <4> QED BY <4>1, <4>2
    <3>3. SumOf(h, W) \in Int
      BY <2>2, FS_Subset, SumOfInt
    <3>4. h[x] \in Int /\ h[c] \in Int
      BY <2>1
    <3> QED BY <2>3, <3>1, <3>2, <3>3, <3>4
  <2> QED BY <2>4, <2>5
<1> HIDE DEF Good
<1>2. \A T \in SUBSET D : T \in Good
  BY <1>1, SubsetInduction
<1> QED BY <1>2 DEF Good

(* Sums with the same terms are equal. *)
LEMMA SumOfSame ==
  ASSUME NEW D, IsFiniteSet(D), NEW h, NEW g, \A x \in D : h[x] = g[x]
  PROVE  SumOf(h, D) = SumOf(g, D)
<1> DEFINE Good == {T \in SUBSET D : SumOf(h, T) = SumOf(g, T)}
<1>1. ASSUME NEW T \in SUBSET D, \A U \in SUBSET T : U # T => U \in Good
      PROVE  T \in Good
  <2>1. CASE T = {}
    BY <2>1, SumOfUnfold
  <2>2. CASE T # {}
    <3>1. Pick(T) \in T
      BY <2>2 DEF Pick
    <3>2. SumOf(h, T \ {Pick(T)}) = SumOf(g, T \ {Pick(T)})
      BY <1>1, <3>1
    <3>3. /\ SumOf(h, T) = h[Pick(T)] + SumOf(h, T \ {Pick(T)})
          /\ SumOf(g, T) = g[Pick(T)] + SumOf(g, T \ {Pick(T)})
      BY <2>2, SumOfUnfold, FS_Subset
    <3> QED BY <3>1, <3>2, <3>3
  <2> QED BY <2>1, <2>2
<1> HIDE DEF Good
<1>2. \A T \in SUBSET D : T \in Good
  BY <1>1, SubsetInduction
<1> QED BY <1>2 DEF Good

(* A sum follows the change of one of its terms. *)
LEMMA SumOfChange ==
  ASSUME NEW D, IsFiniteSet(D), NEW x \in D,
         NEW h, \A y \in D : h[y] \in Int,
         NEW g, \A y \in D : g[y] \in Int,
         \A y \in D \ {x} : h[y] = g[y]
  PROVE  SumOf(g, D) = SumOf(h, D) + g[x] - h[x]
<1>1. /\ SumOf(h, D) = h[x] + SumOf(h, D \ {x})
      /\ SumOf(g, D) = g[x] + SumOf(g, D \ {x})
  BY SumOfRemove
<1>2. IsFiniteSet(D \ {x})
  BY FS_Subset
<1>3. SumOf(h, D \ {x}) = SumOf(g, D \ {x})
  BY <1>2, SumOfSame
<1>4. SumOf(h, D \ {x}) \in Int
  BY <1>2, SumOfInt
<1> QED BY <1>1, <1>3, <1>4

(* Sums are monotonic in their terms. *)
LEMMA SumOfLeq ==
  ASSUME NEW D, IsFiniteSet(D),
         NEW h, \A y \in D : h[y] \in Int,
         NEW g, \A y \in D : g[y] \in Int,
         \A y \in D : h[y] <= g[y]
  PROVE  SumOf(h, D) <= SumOf(g, D)
<1> DEFINE Good == {T \in SUBSET D : SumOf(h, T) <= SumOf(g, T)}
<1>1. ASSUME NEW T \in SUBSET D, \A U \in SUBSET T : U # T => U \in Good
      PROVE  T \in Good
  <2>1. CASE T = {}
    <3>1. SumOf(h, T) = 0 /\ SumOf(g, T) = 0 BY <2>1, SumOfUnfold
    <3> QED BY <3>1
  <2>2. CASE T # {}
    <3>1. Pick(T) \in T
      BY <2>2 DEF Pick
    <3>2. SumOf(h, T \ {Pick(T)}) <= SumOf(g, T \ {Pick(T)})
      BY <1>1, <3>1
    <3>3. /\ SumOf(h, T) = h[Pick(T)] + SumOf(h, T \ {Pick(T)})
          /\ SumOf(g, T) = g[Pick(T)] + SumOf(g, T \ {Pick(T)})
      BY <2>2, SumOfUnfold, FS_Subset
    <3>4. SumOf(h, T \ {Pick(T)}) \in Int /\ SumOf(g, T \ {Pick(T)}) \in Int
      BY FS_Subset, SumOfInt
    <3>5. /\ h[Pick(T)] \in Int /\ g[Pick(T)] \in Int
          /\ h[Pick(T)] <= g[Pick(T)]
      BY <3>1
    <3>6. h[Pick(T)] + SumOf(h, T \ {Pick(T)}) <= g[Pick(T)] + SumOf(g, T \ {Pick(T)})
      BY <3>2, <3>4, <3>5
    <3> QED BY <3>3, <3>6
  <2> QED BY <2>1, <2>2
<1> HIDE DEF Good
<1>2. \A T \in SUBSET D : T \in Good
  BY <1>1, SubsetInduction
<1> QED BY <1>2 DEF Good

(* A sum of zeros is zero. *)
LEMMA SumOfZero ==
  ASSUME NEW D, IsFiniteSet(D), NEW h, \A y \in D : h[y] = 0
  PROVE  SumOf(h, D) = 0
<1> DEFINE Good == {T \in SUBSET D : SumOf(h, T) = 0}
<1>1. ASSUME NEW T \in SUBSET D, \A U \in SUBSET T : U # T => U \in Good
      PROVE  T \in Good
  <2>1. CASE T = {}
    BY <2>1, SumOfUnfold
  <2>2. CASE T # {}
    <3>1. Pick(T) \in T
      BY <2>2 DEF Pick
    <3>2. SumOf(h, T \ {Pick(T)}) = 0
      BY <1>1, <3>1
    <3>3. SumOf(h, T) = h[Pick(T)] + SumOf(h, T \ {Pick(T)})
      BY <2>2, SumOfUnfold, FS_Subset
    <3> QED BY <3>1, <3>2, <3>3
  <2> QED BY <2>1, <2>2
<1> HIDE DEF Good
<1>2. \A T \in SUBSET D : T \in Good
  BY <1>1, SubsetInduction
<1> QED BY <1>2 DEF Good

(* Sums of amounts that are not negative are not. *)
LEMMA SumNotNegative ==
  ASSUME NEW D, IsFiniteSet(D), NEW h, \A x \in D : h[x] \in Int /\ h[x] >= 0
  PROVE  SumOf(h, D) >= 0
<1> DEFINE zero == [x \in D |-> 0]
<1>1. SumOf(zero, D) = 0
  BY SumOfZero
<1>2. /\ \A x \in D : zero[x] \in Int
      /\ \A x \in D : zero[x] <= h[x]
  OBVIOUS
<1>3. SumOf(h, D) \in Int
  BY SumOfInt
<1> HIDE DEF zero
<1> QED
  BY <1>1, <1>2, <1>3, SumOfLeq

(* A sum of naturals is at least any one of them. *)
LEMMA SumOfAtLeast ==
  ASSUME NEW D, IsFiniteSet(D), NEW h, \A y \in D : h[y] \in Nat, NEW x \in D
  PROVE  SumOf(h, D) >= h[x]
<1> DEFINE one == [y \in D |-> IF y = x THEN h[x] ELSE 0]
           zero == [y \in D |-> 0]
<1>1. SumOf(zero, D) = 0
  BY SumOfZero
<1>2. SumOf(one, D) = SumOf(zero, D) + one[x] - zero[x]
  BY SumOfChange
<1>3. SumOf(one, D) <= SumOf(h, D)
  BY SumOfLeq
<1>4. SumOf(h, D) \in Int /\ SumOf(one, D) \in Int
  BY SumOfInt
<1>5. one[x] = h[x] /\ zero[x] = 0
  OBVIOUS
<1> HIDE DEF one, zero
<1> QED BY <1>1, <1>2, <1>3, <1>4, <1>5

(* The members of a finite set, counted class by class. *)
ClassOf(f, W, g) == {w \in W : f[w] = g}
ClassesOf(f, W, D) == {w \in W : f[w] \in D}

LEMMA SumOfClasses ==
  ASSUME NEW D, IsFiniteSet(D), NEW W, IsFiniteSet(W), NEW f, NEW h,
         \A g \in D : h[g] = Cardinality(ClassOf(f, W, g))
  PROVE  SumOf(h, D) = Cardinality(ClassesOf(f, W, D))
<1> USE DEF ClassOf, ClassesOf
<1> DEFINE In(T) == {w \in W : f[w] \in T}
           Good == {T \in SUBSET D : SumOf(h, T) = Cardinality(In(T))}
<1>1. ASSUME NEW T PROVE IsFiniteSet(In(T)) /\ Cardinality(In(T)) \in Nat
  BY FS_Subset, FS_CardinalityType
<1>2. \A g \in D : h[g] \in Int
  <2> TAKE g \in D
  <2> DEFINE C == {w \in W : f[w] = g}
  <2>1. IsFiniteSet(C)
    BY FS_Subset
  <2>2. h[g] = Cardinality(C)
    OBVIOUS
  <2> HIDE DEF C
  <2> QED BY <2>1, <2>2, FS_CardinalityType
<1>3. ASSUME NEW T \in SUBSET D, \A U \in SUBSET T : U # T => U \in Good
      PROVE  T \in Good
  <2>1. IsFiniteSet(T)
    BY FS_Subset
  <2>2. CASE T = {}
    <3>1. In(T) = {} BY <2>2
    <3>2. SumOf(h, T) = 0 BY <2>2, SumOfUnfold, <2>1
    <3> QED BY <3>1, <3>2, FS_EmptySet
  <2>3. CASE T # {}
    <3>1. PICK x \in T : TRUE BY <2>3
    <3> DEFINE U == T \ {x}
               C == {w \in W : f[w] = x}
    <3>2. SumOf(h, T) = h[x] + SumOf(h, U)
      BY <1>2, <2>1, SumOfRemove
    <3>3. SumOf(h, U) = Cardinality(In(U))
      <4>1. U \in SUBSET T /\ U # T BY <3>1
      <4>2. U \in Good BY <1>3, <4>1
      <4> QED BY <4>2
    <3>4. h[x] = Cardinality(C) /\ IsFiniteSet(C) /\ Cardinality(C) \in Nat
      BY FS_Subset, FS_CardinalityType
    <3>5. In(T) = C \cup In(U) /\ C \cap In(U) = {}
      OBVIOUS
    <3>6. IsFiniteSet(In(U)) /\ Cardinality(In(U)) \in Nat
      BY <1>1
    <3> HIDE DEF In, U, C
    <3>7. Cardinality(In(T)) = Cardinality(C) + Cardinality(In(U)) - Cardinality({})
      BY <3>4, <3>5, <3>6, FS_Union
    <3>8. Cardinality(In(T)) = Cardinality(C) + Cardinality(In(U))
      BY <3>4, <3>6, <3>7, FS_EmptySet
    <3> QED BY <3>2, <3>3, <3>4, <3>8
  <2> QED BY <2>2, <2>3
<1> HIDE DEF Good
<1>4. D \in Good
  BY <1>3, SubsetInduction
<1> QED BY <1>4 DEF Good
=============================================================================
