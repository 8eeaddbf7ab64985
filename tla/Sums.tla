-------------------------------- MODULE Sums --------------------------------
(***************************************************************************)
(* Facts about SumFunctionOnSet, the fold of addition over a finite set,   *)
(* for the invariants that are about sums: units on shelves, units planned *)
(* and units received.  The sum does not depend on the order in which the  *)
(* fold takes the elements.  Induction over the subsets of a finite set    *)
(* goes by a minimal counterexample, of which the strict order of subsets  *)
(* has one.                                                                *)
(***************************************************************************)
EXTENDS Integers, FiniteSets, Functions, FiniteSetTheorems, WellFoundedInduction, TLAPS

\* A property of subsets that follows from that of all smaller ones holds of all.
LEMMA SubsetInduction ==
  ASSUME NEW S, IsFiniteSet(S), NEW T,
         ASSUME NEW A \in SUBSET S, \A B \in SUBSET A : B # A => B \in T
         PROVE  A \in T
  PROVE  \A A \in SUBSET S : A \in T
<1> DEFINE Bad == {A \in SUBSET S : A \notin T}
<1> SUFFICES ASSUME Bad # {} PROVE FALSE
  OBVIOUS
<1>1. IsWellFoundedOn(StrictSubsetOrdering(S), FiniteSubsetsOf(S))
  BY FS_StrictSubsetOrderingWellFounded
<1>2. Bad \subseteq FiniteSubsetsOf(S)
  BY FS_Subset DEF FiniteSubsetsOf
<1>3. PICK A \in Bad : \A B \in Bad : ~ (<<B, A>> \in StrictSubsetOrdering(S))
  <2> HIDE DEF Bad
  <2> QED BY <1>1, <1>2, WFMin
<1>4. ASSUME NEW B \in SUBSET A, B # A PROVE B \in T
  <2>1. <<B, A>> \in StrictSubsetOrdering(S)
    BY <1>4 DEF StrictSubsetOrdering
  <2> QED BY <1>3, <2>1
<1> QED BY <1>4

-----------------------------------------------------------------------------
(* The fold, as the function it is defined by.                              *)

\* The element that the fold takes first.
Choice(s) == CHOOSE x \in s : TRUE

\* g computes the sum of f over every subset of S.
IsSum(g, f, S) ==
    g = [s \in SUBSET S |-> IF s = {} THEN 0 ELSE f[Choice(s)] + g[s \ {Choice(s)}]]

\* The sum is the value at S of a function the definition chooses.
LEMMA SumIs ==
  ASSUME NEW f, NEW S
  PROVE  SumFunctionOnSet(f, S) = (CHOOSE g : IsSum(g, f, S))[S]
  BY DEF SumFunctionOnSet, FoldFunctionOnSet, MapThenFoldSet, IsSum, Choice

\* What such a function is at a smaller set.
LEMMA IsSumAt ==
  ASSUME NEW g, NEW f, NEW S, IsSum(g, f, S), NEW s \in SUBSET S
  PROVE  g[s] = IF s = {} THEN 0 ELSE f[Choice(s)] + g[s \ {Choice(s)}]
<1> DEFINE body(t) == IF t = {} THEN 0 ELSE f[Choice(t)] + g[t \ {Choice(t)}]
<1>1. g = [t \in SUBSET S |-> body(t)]
  BY DEF IsSum
<1> HIDE DEF body
<1>2. g[s] = body(s)
  BY <1>1
<1> QED BY <1>2 DEF body

\* A set that has elements has the chosen one.
LEMMA ChoiceIn == ASSUME NEW s, s # {} PROVE Choice(s) \in s
  BY DEF Choice

\* Two such functions, for a set and a larger one, agree on the smaller.
LEMMA IsSumUnique ==
  ASSUME NEW f, NEW S, IsFiniteSet(S), NEW g, NEW h, NEW R,
         S \in SUBSET R, IsSum(g, f, S), IsSum(h, f, R)
  PROVE  \A A \in SUBSET S : g[A] = h[A]
<1> DEFINE T == {A \in SUBSET S : g[A] = h[A]}
<1>1. ASSUME NEW A \in SUBSET S, \A B \in SUBSET A : B # A => B \in T
      PROVE  A \in T
  <2>1. CASE A = {}
    BY <2>1, IsSumAt
  <2>2. CASE A # {}
    <3>1. A \ {Choice(A)} \in T
      BY <1>1, <2>2, ChoiceIn
    <3>2. A \in SUBSET R
      OBVIOUS
    <3> QED BY <2>2, <3>1, <3>2, IsSumAt
  <2> QED BY <2>1, <2>2
<1>2. \A A \in SUBSET S : A \in T
  <2> HIDE DEF T
  <2> QED BY <1>1, SubsetInduction
<1> QED BY <1>2

\* For a finite set there is one, so the definition chooses it.
LEMMA SumExists ==
  ASSUME NEW f, NEW S, IsFiniteSet(S)
  PROVE  IsSum(CHOOSE g : IsSum(g, f, S), f, S)
<1> DEFINE T == {A \in SUBSET S : \E g : IsSum(g, f, A)}
           total(A) == SumFunctionOnSet(f, A)
<1>1. ASSUME NEW A \in SUBSET S, \A B \in SUBSET A : B # A => B \in T
      PROVE  A \in T
  <2> DEFINE g == [s \in SUBSET A |-> IF s = {} THEN 0
                                      ELSE f[Choice(s)] + total(s \ {Choice(s)})]
  <2>1. ASSUME NEW B \in SUBSET A, B # A
        PROVE  g[B] = total(B)
    <3> DEFINE b == CHOOSE h : IsSum(h, f, B)
    <3>1. IsSum(b, f, B)
      BY <1>1, <2>1
    <3>2. total(B) = b[B]
      BY SumIs
    <3>3. b[B] = IF B = {} THEN 0 ELSE f[Choice(B)] + b[B \ {Choice(B)}]
      BY <3>1, IsSumAt
    <3>4. ASSUME B # {} PROVE b[B \ {Choice(B)}] = total(B \ {Choice(B)})
      <4> DEFINE D == B \ {Choice(B)}
                 d == CHOOSE h : IsSum(h, f, D)
      <4>1. D \in SUBSET B /\ D # A /\ D \in SUBSET A
        BY <3>4, ChoiceIn
      <4>2. IsSum(d, f, D)
        BY <1>1, <4>1
      <4>3. IsFiniteSet(D)
        BY <4>1, FS_Subset
      <4>4. \A s \in SUBSET D : d[s] = b[s]
        <5> HIDE DEF D, d, b
        <5> QED BY <3>1, <4>1, <4>2, <4>3, IsSumUnique
      <4>5. total(D) = d[D]
        BY SumIs
      <4> QED BY <4>4, <4>5
    <3>5. g[B] = IF B = {} THEN 0 ELSE f[Choice(B)] + total(B \ {Choice(B)})
      OBVIOUS
    <3> HIDE DEF g, b, total
    <3> QED BY <3>2, <3>3, <3>4, <3>5
  <2>2. ASSUME NEW s \in SUBSET A
        PROVE  (IF s = {} THEN 0 ELSE f[Choice(s)] + total(s \ {Choice(s)})) =
               (IF s = {} THEN 0 ELSE f[Choice(s)] + g[s \ {Choice(s)}])
    <3>1. s # {} => s \ {Choice(s)} \in SUBSET A /\ s \ {Choice(s)} # A
      BY ChoiceIn
    <3> HIDE DEF g, total
    <3> QED BY <2>1, <3>1
  <2>3. g = [s \in SUBSET A |-> IF s = {} THEN 0 ELSE f[Choice(s)] + g[s \ {Choice(s)}]]
    <3> DEFINE old(s) == IF s = {} THEN 0 ELSE f[Choice(s)] + total(s \ {Choice(s)})
               new(s) == IF s = {} THEN 0 ELSE f[Choice(s)] + g[s \ {Choice(s)}]
    <3>1. \A s \in SUBSET A : old(s) = new(s)
      BY <2>2
    <3>2. g = [s \in SUBSET A |-> old(s)]
      OBVIOUS
    <3> HIDE DEF old, new, g
    <3>3. g = [s \in SUBSET A |-> new(s)]
      BY <3>1, <3>2
    <3> QED BY <3>3 DEF new
  <2>4. IsSum(g, f, A)
    <3> HIDE DEF g
    <3> QED BY <2>3 DEF IsSum
  <2> QED BY <2>4
<1>2. \A A \in SUBSET S : A \in T
  <2> HIDE DEF T
  <2> QED BY <1>1, SubsetInduction
<1>3. \E g : IsSum(g, f, S)
  BY <1>2
<1> QED BY <1>3

-----------------------------------------------------------------------------
(* What the sum is.                                                         *)

\* The sum of a smaller set is what the fold over a larger one computes for it.
LEMMA SumWithin ==
  ASSUME NEW f, NEW S, IsFiniteSet(S), NEW A \in SUBSET S
  PROVE  SumFunctionOnSet(f, A) = (CHOOSE g : IsSum(g, f, S))[A]
<1> DEFINE g == CHOOSE h : IsSum(h, f, S)
           a == CHOOSE h : IsSum(h, f, A)
<1>1. IsFiniteSet(A)
  BY FS_Subset
<1>2. IsSum(g, f, S) /\ IsSum(a, f, A)
  BY <1>1, SumExists
<1>3. a[A] = g[A]
  <2> HIDE DEF a, g
  <2> QED BY <1>1, <1>2, IsSumUnique
<1> QED BY <1>3, SumIs

\* Nothing sums to zero.
LEMMA SumEmpty == ASSUME NEW f PROVE SumFunctionOnSet(f, {}) = 0
<1>1. IsFiniteSet({})
  BY FS_EmptySet
<1> QED BY <1>1, SumIs, SumExists, IsSumAt

\* The chosen element, and the sum of the others.
LEMMA SumChoice ==
  ASSUME NEW f, NEW S, IsFiniteSet(S), S # {}
  PROVE  SumFunctionOnSet(f, S) = f[Choice(S)] + SumFunctionOnSet(f, S \ {Choice(S)})
<1> DEFINE g == CHOOSE h : IsSum(h, f, S)
<1>1. IsSum(g, f, S)
  BY SumExists
<1>2. g[S] = f[Choice(S)] + g[S \ {Choice(S)}]
  <2> HIDE DEF g
  <2> QED BY <1>1, IsSumAt
<1>3. SumFunctionOnSet(f, S) = g[S] /\ SumFunctionOnSet(f, S \ {Choice(S)}) = g[S \ {Choice(S)}]
  BY SumWithin
<1> QED BY <1>2, <1>3

\* A sum of integers is an integer.
LEMMA SumInt ==
  ASSUME NEW f, NEW S, IsFiniteSet(S), \A x \in S : f[x] \in Int
  PROVE  SumFunctionOnSet(f, S) \in Int
<1> DEFINE T == {A \in SUBSET S : SumFunctionOnSet(f, A) \in Int}
<1>1. ASSUME NEW A \in SUBSET S, \A B \in SUBSET A : B # A => B \in T
      PROVE  A \in T
  <2>1. CASE A = {}
    BY <2>1, SumEmpty
  <2>2. CASE A # {}
    <3>1. A \ {Choice(A)} \in T /\ f[Choice(A)] \in Int
      BY <1>1, <2>2, ChoiceIn
    <3>2. SumFunctionOnSet(f, A) = f[Choice(A)] + SumFunctionOnSet(f, A \ {Choice(A)})
      BY <2>2, SumChoice, FS_Subset
    <3> QED BY <3>1, <3>2
  <2> QED BY <2>1, <2>2
<1>2. \A A \in SUBSET S : A \in T
  <2> HIDE DEF T
  <2> QED BY <1>1, SubsetInduction
<1> QED BY <1>2

\* Any element can be taken out first.
LEMMA SumRemove ==
  ASSUME NEW f, NEW S, IsFiniteSet(S), \A x \in S : f[x] \in Int, NEW y \in S
  PROVE  SumFunctionOnSet(f, S) = f[y] + SumFunctionOnSet(f, S \ {y})
<1> DEFINE total(A) == SumFunctionOnSet(f, A)
           T == {A \in SUBSET S : \A x \in A : total(A) = f[x] + total(A \ {x})}
<1>0. \A A \in SUBSET S : IsFiniteSet(A) /\ total(A) \in Int
  BY FS_Subset, SumInt
<1>1. ASSUME NEW A \in SUBSET S, \A B \in SUBSET A : B # A => B \in T
      PROVE  A \in T
  <2> SUFFICES ASSUME NEW x \in A PROVE total(A) = f[x] + total(A \ {x})
    OBVIOUS
  <2> DEFINE c == Choice(A)
  <2>1. c \in A
    BY ChoiceIn
  <2>2. total(A) = f[c] + total(A \ {c})
    BY <1>0, SumChoice
  <2>3. CASE x = c
    BY <2>2, <2>3
  <2>4. CASE x # c
    <3>1. A \ {c} \in T /\ A \ {x} \in T /\ x \in A \ {c} /\ c \in A \ {x}
      BY <1>1, <2>1, <2>4
    <3>2. (A \ {c}) \ {x} = (A \ {x}) \ {c}
      OBVIOUS
    <3>3. total(A \ {c}) = f[x] + total((A \ {x}) \ {c})
      BY <3>1, <3>2
    <3>4. total(A \ {x}) = f[c] + total((A \ {x}) \ {c})
      BY <3>1
    <3>5. f[c] \in Int /\ f[x] \in Int /\ total((A \ {x}) \ {c}) \in Int
      BY <1>0, <2>1
    <3> HIDE DEF total
    <3> QED BY <2>2, <3>3, <3>4, <3>5
  <2> QED BY <2>3, <2>4
<1>2. \A A \in SUBSET S : A \in T
  <2> HIDE DEF T
  <2> QED BY <1>1, SubsetInduction
<1> QED BY <1>2

\* Only the values on the set matter.
LEMMA SumSame ==
  ASSUME NEW f, NEW g, NEW S, IsFiniteSet(S), \A x \in S : f[x] = g[x]
  PROVE  SumFunctionOnSet(f, S) = SumFunctionOnSet(g, S)
<1> DEFINE T == {A \in SUBSET S : SumFunctionOnSet(f, A) = SumFunctionOnSet(g, A)}
<1>1. ASSUME NEW A \in SUBSET S, \A B \in SUBSET A : B # A => B \in T
      PROVE  A \in T
  <2>1. CASE A = {}
    BY <2>1, SumEmpty
  <2>2. CASE A # {}
    <3>1. A \ {Choice(A)} \in T /\ f[Choice(A)] = g[Choice(A)]
      BY <1>1, <2>2, ChoiceIn
    <3>2. IsFiniteSet(A)
      BY FS_Subset
    <3> QED BY <2>2, <3>1, <3>2, SumChoice
  <2> QED BY <2>1, <2>2
<1>2. \A A \in SUBSET S : A \in T
  <2> HIDE DEF T
  <2> QED BY <1>1, SubsetInduction
<1> QED BY <1>2

\* One value changes, and the sum by as much.
LEMMA SumUpdate ==
  ASSUME NEW f, NEW g, NEW S, IsFiniteSet(S), NEW y \in S,
         \A x \in S : f[x] \in Int /\ g[x] \in Int,
         \A x \in S \ {y} : f[x] = g[x]
  PROVE  SumFunctionOnSet(g, S) = SumFunctionOnSet(f, S) + (g[y] - f[y])
<1>1. IsFiniteSet(S \ {y})
  BY FS_Subset
<1>2. SumFunctionOnSet(f, S \ {y}) = SumFunctionOnSet(g, S \ {y})
  BY <1>1, SumSame
<1>3. SumFunctionOnSet(f, S) = f[y] + SumFunctionOnSet(f, S \ {y})
  BY SumRemove
<1>4. SumFunctionOnSet(g, S) = g[y] + SumFunctionOnSet(g, S \ {y})
  BY SumRemove
<1>5. SumFunctionOnSet(g, S \ {y}) \in Int
  BY <1>1, SumInt
<1> QED BY <1>2, <1>3, <1>4, <1>5

\* Larger values, larger sum.
LEMMA SumMonotone ==
  ASSUME NEW f, NEW g, NEW S, IsFiniteSet(S),
         \A x \in S : f[x] \in Int /\ g[x] \in Int /\ f[x] <= g[x]
  PROVE  SumFunctionOnSet(f, S) <= SumFunctionOnSet(g, S)
<1> DEFINE T == {A \in SUBSET S : SumFunctionOnSet(f, A) <= SumFunctionOnSet(g, A)}
<1>1. ASSUME NEW A \in SUBSET S, \A B \in SUBSET A : B # A => B \in T
      PROVE  A \in T
  <2>1. CASE A = {}
    BY <2>1, SumEmpty
  <2>2. CASE A # {}
    <3> DEFINE B == A \ {Choice(A)}
    <3>1. B \in T /\ Choice(A) \in S
      BY <1>1, <2>2, ChoiceIn
    <3>2. IsFiniteSet(A) /\ IsFiniteSet(B)
      BY FS_Subset
    <3>3. SumFunctionOnSet(f, B) \in Int /\ SumFunctionOnSet(g, B) \in Int
      BY <3>2, SumInt
    <3>4. /\ SumFunctionOnSet(f, A) = f[Choice(A)] + SumFunctionOnSet(f, B)
          /\ SumFunctionOnSet(g, A) = g[Choice(A)] + SumFunctionOnSet(g, B)
      BY <2>2, <3>2, SumChoice
    <3>5. SumFunctionOnSet(f, B) <= SumFunctionOnSet(g, B)
      BY <3>1
    <3>6. f[Choice(A)] \in Int /\ g[Choice(A)] \in Int /\ f[Choice(A)] <= g[Choice(A)]
      BY <3>1
    <3> HIDE DEF B
    <3> QED BY <3>3, <3>4, <3>5, <3>6
  <2> QED BY <2>1, <2>2
<1>2. \A A \in SUBSET S : A \in T
  <2> HIDE DEF T
  <2> QED BY <1>1, SubsetInduction
<1> QED BY <1>2

\* A term is at most a sum of natural numbers, and the sum is one.
LEMMA SumNat ==
  ASSUME NEW f, NEW S, IsFiniteSet(S), \A x \in S : f[x] \in Nat
  PROVE  /\ SumFunctionOnSet(f, S) \in Nat
         /\ \A y \in S : f[y] <= SumFunctionOnSet(f, S)
<1>0. ASSUME NEW A, IsFiniteSet(A), A \subseteq S
      PROVE  SumFunctionOnSet(f, A) \in Nat
  <2> DEFINE T == {B \in SUBSET A : SumFunctionOnSet(f, B) \in Nat}
  <2>1. ASSUME NEW B \in SUBSET A, \A C \in SUBSET B : C # B => C \in T
        PROVE  B \in T
    <3>1. CASE B = {}
      BY <3>1, SumEmpty
    <3>2. CASE B # {}
      <4>1. B \ {Choice(B)} \in T /\ f[Choice(B)] \in Nat
        BY <1>0, <2>1, <3>2, ChoiceIn
      <4>2. SumFunctionOnSet(f, B) = f[Choice(B)] + SumFunctionOnSet(f, B \ {Choice(B)})
        BY <1>0, <3>2, SumChoice, FS_Subset
      <4> QED BY <4>1, <4>2
    <3> QED BY <3>1, <3>2
  <2>2. \A B \in SUBSET A : B \in T
    <3> HIDE DEF T
    <3> QED BY <1>0, <2>1, SubsetInduction
  <2> QED BY <2>2
<1>1. ASSUME NEW y \in S PROVE f[y] <= SumFunctionOnSet(f, S)
  <2>1. SumFunctionOnSet(f, S) = f[y] + SumFunctionOnSet(f, S \ {y})
    BY SumRemove
  <2>2. SumFunctionOnSet(f, S \ {y}) \in Nat
    BY <1>0, FS_Subset
  <2> QED BY <2>1, <2>2
<1> QED BY <1>0, <1>1

\* Zeroes sum to zero.
LEMMA SumZero ==
  ASSUME NEW f, NEW S, IsFiniteSet(S), \A x \in S : f[x] = 0
  PROVE  SumFunctionOnSet(f, S) = 0
<1> DEFINE T == {A \in SUBSET S : SumFunctionOnSet(f, A) = 0}
<1>1. ASSUME NEW A \in SUBSET S, \A B \in SUBSET A : B # A => B \in T
      PROVE  A \in T
  <2>1. CASE A = {}
    BY <2>1, SumEmpty
  <2>2. CASE A # {}
    <3>1. A \ {Choice(A)} \in T /\ f[Choice(A)] = 0
      BY <1>1, <2>2, ChoiceIn
    <3>2. SumFunctionOnSet(f, A) = f[Choice(A)] + SumFunctionOnSet(f, A \ {Choice(A)})
      BY <2>2, SumChoice, FS_Subset
    <3> QED BY <3>1, <3>2
  <2> QED BY <2>1, <2>2
<1>2. \A A \in SUBSET S : A \in T
  <2> HIDE DEF T
  <2> QED BY <1>1, SubsetInduction
<1> QED BY <1>2

\* Zeroes outside a subset: the sum over the subset.
LEMMA SumSupport ==
  ASSUME NEW f, NEW g, NEW S, IsFiniteSet(S), NEW A \in SUBSET S,
         \A x \in A : f[x] \in Int /\ g[x] = f[x], \A x \in S \ A : g[x] = 0
  PROVE  SumFunctionOnSet(f, A) = SumFunctionOnSet(g, S)
<1>0. \A B \in SUBSET S : IsFiniteSet(B)
  BY FS_Subset
<1>1. \A x \in S : g[x] \in Int
  OBVIOUS
<1> DEFINE T == {B \in SUBSET S : SumFunctionOnSet(g, B) = SumFunctionOnSet(f, B \cap A)}
<1>2. ASSUME NEW B \in SUBSET S, \A C \in SUBSET B : C # B => C \in T
      PROVE  B \in T
  <2>1. CASE B = {}
    <3>1. B \cap A = {}
      BY <2>1
    <3> QED BY <2>1, <3>1, SumEmpty
  <2>2. CASE B # {}
    <3>1. PICK y \in B : TRUE
      BY <2>2
    <3> DEFINE R == B \ {y}
    <3>2. IsFiniteSet(B) /\ IsFiniteSet(B \cap A) /\ IsFiniteSet(R \cap A)
      BY <1>0
    <3>3. SumFunctionOnSet(g, R) = SumFunctionOnSet(f, R \cap A)
      BY <1>2
    <3>4. SumFunctionOnSet(g, B) = g[y] + SumFunctionOnSet(g, B \ {y})
      BY <1>1, <3>2, SumRemove
    <3>5. CASE y \in A
      <4>1. (B \cap A) \ {y} = R \cap A /\ y \in B \cap A
        BY <3>5
      <4> DEFINE D == B \cap A
      <4>2. IsFiniteSet(D) /\ y \in D /\ \A x \in D : f[x] \in Int
        BY <3>2, <4>1
      <4> HIDE DEF D
      <4>3. SumFunctionOnSet(f, D) = f[y] + SumFunctionOnSet(f, D \ {y})
        BY <4>2, SumRemove
      <4> QED BY <3>3, <3>4, <3>5, <4>1, <4>3 DEF D
    <3>6. CASE y \notin A
      <4>1. B \cap A = R \cap A /\ g[y] = 0
        BY <3>6
      <4> DEFINE D == R \cap A
      <4>2. IsFiniteSet(D) /\ \A x \in D : f[x] \in Int
        BY <3>2
      <4>3. SumFunctionOnSet(g, B) = g[y] + SumFunctionOnSet(f, D)
        BY <3>3, <3>4
      <4> HIDE DEF D
      <4>4. SumFunctionOnSet(f, D) \in Int
        BY <4>2, SumInt
      <4>5. SumFunctionOnSet(g, B) = SumFunctionOnSet(f, D)
        BY <4>1, <4>3, <4>4
      <4> QED BY <4>1, <4>5 DEF D
    <3> QED BY <3>5, <3>6
  <2> QED BY <2>1, <2>2
<1>3. \A B \in SUBSET S : B \in T
  <2> HIDE DEF T
  <2> QED BY <1>2, SubsetInduction
<1>4. SumFunctionOnSet(g, S) = SumFunctionOnSet(f, S \cap A) /\ S \cap A = A
  BY <1>3
<1> QED BY <1>4
=============================================================================
