----------------------------- MODULE SumsProofs -----------------------------
(***************************************************************************)
(* What the sums of Sums amount to, for every finite set.  Each lemma that *)
(* needs induction looks at a smallest counterexample, which exists among  *)
(* the subsets of a finite set.                                            *)
(***************************************************************************)
EXTENDS Sums, FiniteSetTheorems, WellFoundedInduction, TLAPS

LEMMA LeastNat ==
    ASSUME NEW T \in SUBSET Nat, T # {}
    PROVE  \E n \in T : \A m \in T : n <= m
<1> DEFINE R == OpToRel(<, Nat)
<1>1. IsWellFoundedOn(R, Nat)  BY NatLessThanWellFounded
<1>2. \A m, n \in Nat : <<m, n>> \in R <=> m < n  BY DEF OpToRel
<1>3. T \subseteq Nat OBVIOUS
<1> HIDE DEF R
<1>4. PICK n \in T : \A m \in T : ~(<<m, n>> \in R)
  BY <1>1, <1>3, WFMin
<1>5. \A m \in T : m \in Nat /\ n \in Nat /\ ~(m < n)  BY <1>2, <1>3, <1>4
<1> QED  BY <1>5

LEMMA SmallestSubset ==
    ASSUME NEW S, IsFiniteSet(S), NEW F \in SUBSET SUBSET S, F # {}
    PROVE  \E A \in F : \A B \in F : B \subseteq A => B = A
<1>1. IsWellFoundedOn(StrictSubsetOrdering(S), SUBSET S)
  BY FS_StrictSubsetOrderingWellFounded, FS_FiniteSubsetsOfFinite
<1>2. F \subseteq SUBSET S OBVIOUS
<1>3. PICK A \in F : \A B \in F : ~(<<B, A>> \in StrictSubsetOrdering(S))
  BY <1>1, <1>2, WFMin
<1> QED  BY <1>3 DEF StrictSubsetOrdering

-----------------------------------------------------------------------------
(* The sum is the function that is defined by taking away one member after *)
(* another; there is one such function, and only one.                      *)

Step(g, f, s) ==
    IF s = {} THEN 0
    ELSE LET x == CHOOSE x \in s : TRUE IN f[x] + g[s \ {x}]

Iterates(g, f, D) == g = [s \in D |-> Step(g, f, s)]

LEMMA SumIsIteration ==
    ASSUME NEW f, NEW S
    PROVE  SumOver(f, S) = (CHOOSE g : Iterates(g, f, SUBSET S))[S]
  BY DEF SumOver, MapThenSumSet, MapThenFoldSet, Iterates, Step

Small(S, k) == {s \in SUBSET S : Cardinality(s) <= k}

LEMMA IterationOfSmall ==
    ASSUME NEW f, NEW S, IsFiniteSet(S)
    PROVE  \A k \in Nat : \E g : Iterates(g, f, Small(S, k))
<1> DEFINE Bad == {k \in Nat : ~\E g : Iterates(g, f, Small(S, k))}
<1>1. SUFFICES ASSUME Bad # {} PROVE FALSE
  OBVIOUS
<1>2. PICK k \in Bad : \A m \in Bad : k <= m
  <2>1. Bad \in SUBSET Nat  OBVIOUS
  <2> HIDE DEF Bad
  <2> QED  BY <1>1, <2>1, LeastNat
<1>3. \A s \in SUBSET S : IsFiniteSet(s) /\ Cardinality(s) \in Nat
  BY FS_Subset, FS_CardinalityType
<1>4. CASE k = 0
  <2>1. \A s \in Small(S, k) : s = {}
    BY <1>3, <1>4, FS_EmptySet DEF Small
  <2> DEFINE g == [s \in Small(S, k) |-> 0]
  <2>2. g = [s \in Small(S, k) |-> Step(g, f, s)]
    BY <2>1 DEF Step
  <2>3. Iterates(g, f, Small(S, k))
    BY <2>2 DEF Iterates
  <2> QED  BY <2>3
<1>5. CASE k # 0
  <2>1. k - 1 \in Nat /\ k - 1 \notin Bad
    BY <1>2, <1>5
  <2>2. PICK h : Iterates(h, f, Small(S, k - 1))
    BY <2>1
  <2> DEFINE g == [s \in Small(S, k) |-> Step(h, f, s)]
  <2>3. ASSUME NEW s \in Small(S, k), s # {}
        PROVE  g[s \ {CHOOSE x \in s : TRUE}] = h[s \ {CHOOSE x \in s : TRUE}]
    <3> DEFINE x == CHOOSE x \in s : TRUE
               t == s \ {x}
    <3>1. x \in s  BY <2>3
    <3>2. t \in Small(S, k - 1) /\ t \in Small(S, k)
      <4>1. Cardinality(t) = Cardinality(s) - 1
        BY <1>3, <3>1, FS_RemoveElement DEF Small
      <4>2. Cardinality(s) \in Nat /\ Cardinality(s) <= k /\ s \in SUBSET S
        BY <1>3 DEF Small
      <4>3. k \in Nat  BY <1>2
      <4> HIDE DEF t
      <4>5. Cardinality(t) <= k - 1 /\ Cardinality(t) <= k
        BY <4>1, <4>2, <4>3
      <4>6. t \in SUBSET S  BY <4>2 DEF t
      <4> QED  BY <4>5, <4>6 DEF Small
    <3>3. g[t] = Step(h, f, t)  BY <3>2
    <3>4. h[t] = Step(h, f, t)  BY <2>2, <3>2 DEF Iterates
    <3> QED  BY <3>3, <3>4
  <2>4. \A s \in Small(S, k) : Step(g, f, s) = Step(h, f, s)
    <3> SUFFICES ASSUME NEW s \in Small(S, k) PROVE Step(g, f, s) = Step(h, f, s)
      OBVIOUS
    <3>1. CASE s = {}  BY <3>1 DEF Step
    <3>2. CASE s # {}
      <4>1. g[s \ {CHOOSE x \in s : TRUE}] = h[s \ {CHOOSE x \in s : TRUE}]
        BY <2>3, <3>2
      <4> HIDE DEF g
      <4> QED  BY <4>1 DEF Step
    <3> QED  BY <3>1, <3>2
  <2>5. g = [s \in Small(S, k) |-> Step(g, f, s)]
    <3>1. g = [s \in Small(S, k) |-> Step(h, f, s)]  OBVIOUS
    <3> HIDE DEF g
    <3> QED  BY <3>1, <2>4
  <2>6. Iterates(g, f, Small(S, k))
    <3> HIDE DEF g
    <3> QED  BY <2>5 DEF Iterates
  <2> HIDE DEF g
  <2> QED  BY <2>6
<1> QED  BY <1>4, <1>5

LEMMA IterationExists ==
    ASSUME NEW f, NEW S, IsFiniteSet(S)
    PROVE  \E g : Iterates(g, f, SUBSET S)
<1>1. Cardinality(S) \in Nat  BY FS_CardinalityType
<1>2. Small(S, Cardinality(S)) = SUBSET S
  BY FS_Subset DEF Small
<1>3. \E g : Iterates(g, f, Small(S, Cardinality(S)))
  BY <1>1, IterationOfSmall
<1> QED  BY <1>2, <1>3

\* Two iterations agree wherever both are defined.
LEMMA IterationUnique ==
    ASSUME NEW f, NEW S, IsFiniteSet(S), NEW T \in SUBSET S, NEW g, NEW h,
           Iterates(g, f, SUBSET S), Iterates(h, f, SUBSET T)
    PROVE  \A s \in SUBSET T : g[s] = h[s]
<1> DEFINE Bad == {s \in SUBSET T : g[s] # h[s]}
<1>1. SUFFICES ASSUME Bad # {} PROVE FALSE
  OBVIOUS
<1>2. PICK s \in Bad : \A r \in Bad : r \subseteq s => r = s
  <2>1. Bad \in SUBSET SUBSET T /\ IsFiniteSet(T)  BY FS_Subset
  <2> HIDE DEF Bad
  <2> QED  BY <1>1, <2>1, SmallestSubset
<1>3. s \in SUBSET T /\ s \in SUBSET S  OBVIOUS
<1>4. g[s] = Step(g, f, s) /\ h[s] = Step(h, f, s)
  BY <1>3 DEF Iterates
<1>5. CASE s = {}  BY <1>2, <1>4, <1>5 DEF Step
<1>6. CASE s # {}
  <2> DEFINE x == CHOOSE x \in s : TRUE
  <2>1. x \in s  BY <1>6
  <2>2. g[s \ {x}] = h[s \ {x}]
    BY <1>2, <1>3, <2>1
  <2>3. g[s] = f[x] + g[s \ {x}] /\ h[s] = f[x] + h[s \ {x}]
    BY <1>4, <1>6 DEF Step
  <2> QED  BY <1>2, <2>2, <2>3
<1> QED  BY <1>5, <1>6

\* The sum over no members is 0, and over others that of a certain member and the rest.
LEMMA SumChosen ==
    ASSUME NEW f, NEW S, IsFiniteSet(S)
    PROVE  /\ S = {} => SumOver(f, S) = 0
           /\ S # {} => \E x \in S : SumOver(f, S) = f[x] + SumOver(f, S \ {x})
<1> DEFINE G(T) == CHOOSE g : Iterates(g, f, SUBSET T)
<1>1. \A T \in SUBSET S : Iterates(G(T), f, SUBSET T)
  BY FS_Subset, IterationExists
<1>2. \A T \in SUBSET S : SumOver(f, T) = G(T)[T]
  BY SumIsIteration
<1> HIDE DEF G
<1>3. \A T \in SUBSET S : G(S)[T] = G(T)[T]
  <2> SUFFICES ASSUME NEW T \in SUBSET S PROVE G(S)[T] = G(T)[T]
    OBVIOUS
  <2>1. Iterates(G(S), f, SUBSET S) /\ Iterates(G(T), f, SUBSET T)
    BY <1>1
  <2>2. \A g, h : Iterates(g, f, SUBSET S) /\ Iterates(h, f, SUBSET T) => g[T] = h[T]
    BY IterationUnique
  <2> QED  BY <2>1, <2>2
<1>4. \A T \in SUBSET S : SumOver(f, T) = G(S)[T]
  BY <1>2, <1>3
<1>5. SumOver(f, S) = Step(G(S), f, S)
  BY <1>1, <1>4 DEF Iterates
<1>6. CASE S = {}  BY <1>5, <1>6 DEF Step
<1>7. CASE S # {}
  <2> DEFINE x == CHOOSE x \in S : TRUE
  <2>1. x \in S  BY <1>7
  <2>2. SumOver(f, S) = f[x] + G(S)[S \ {x}]
    BY <1>5, <1>7 DEF Step
  <2> QED  BY <1>4, <2>1, <2>2, <1>7
<1> QED  BY <1>6, <1>7

LEMMA SumEmpty == ASSUME NEW f PROVE SumOver(f, {}) = 0
  BY SumChosen, FS_EmptySet

LEMMA SumInt ==
    ASSUME NEW S, IsFiniteSet(S), NEW f, \A x \in S : f[x] \in Int
    PROVE  SumOver(f, S) \in Int
<1> DEFINE Bad == {T \in SUBSET S : SumOver(f, T) \notin Int}
<1>1. SUFFICES ASSUME Bad # {} PROVE FALSE
  OBVIOUS
<1>2. PICK T \in Bad : \A U \in Bad : U \subseteq T => U = T
  <2>1. Bad \in SUBSET SUBSET S  OBVIOUS
  <2> HIDE DEF Bad
  <2> QED  BY <1>1, <2>1, SmallestSubset
<1>3. IsFiniteSet(T) /\ T \in SUBSET S  BY FS_Subset
<1>4. T # {}  BY SumEmpty
<1>5. PICK x \in T : SumOver(f, T) = f[x] + SumOver(f, T \ {x})
  BY <1>3, <1>4, SumChosen
<1>6. SumOver(f, T \ {x}) \in Int
  BY <1>2, <1>3
<1> QED  BY <1>3, <1>5, <1>6

\* Any member may be taken away first.
LEMMA SumMember ==
    ASSUME NEW S, IsFiniteSet(S), NEW f, \A x \in S : f[x] \in Int
    PROVE  \A x \in S : SumOver(f, S) = f[x] + SumOver(f, S \ {x})
<1> DEFINE Bad == {T \in SUBSET S : ~\A x \in T : SumOver(f, T) = f[x] + SumOver(f, T \ {x})}
<1>1. SUFFICES ASSUME Bad # {} PROVE FALSE
  OBVIOUS
<1>2. PICK T \in Bad : \A U \in Bad : U \subseteq T => U = T
  <2>1. Bad \in SUBSET SUBSET S  OBVIOUS
  <2> HIDE DEF Bad
  <2> QED  BY <1>1, <2>1, SmallestSubset
<1>3. \A U \in SUBSET T : IsFiniteSet(U) /\ U \in SUBSET S /\ SumOver(f, U) \in Int
  BY FS_Subset, SumInt
<1>4. PICK x \in T : SumOver(f, T) # f[x] + SumOver(f, T \ {x})
  OBVIOUS
<1>5. PICK y \in T : SumOver(f, T) = f[y] + SumOver(f, T \ {y})
  BY <1>3, <1>4, SumChosen
<1>6. x # y  BY <1>4, <1>5
<1>7. SumOver(f, T \ {y}) = f[x] + SumOver(f, (T \ {y}) \ {x})
  BY <1>2, <1>3, <1>6
<1>8. SumOver(f, T \ {x}) = f[y] + SumOver(f, (T \ {x}) \ {y})
  BY <1>2, <1>3, <1>6
<1> DEFINE U == (T \ {x}) \ {y}
           a == SumOver(f, T \ {x})
           b == SumOver(f, T \ {y})
<1>9. (T \ {y}) \ {x} = U  OBVIOUS
<1>10. f[x] \in Int /\ f[y] \in Int /\ SumOver(f, U) \in Int
  BY <1>3
<1> HIDE DEF U
<1>11. b = f[x] + SumOver(f, U)  BY <1>7, <1>9
<1>12. a = f[y] + SumOver(f, U)  BY <1>8 DEF U
<1> HIDE DEF a, b
<1>13. f[y] + b = f[x] + a  BY <1>10, <1>11, <1>12
<1> QED  BY <1>4, <1>5, <1>13 DEF a, b

LEMMA SumSingle == ASSUME NEW f, NEW x, f[x] \in Int PROVE SumOver(f, {x}) = f[x]
<1> DEFINE S == {x}
<1>1. IsFiniteSet(S) /\ x \in S /\ \A y \in S : f[y] \in Int  BY FS_Singleton
<1>2. SumOver(f, S) = f[x] + SumOver(f, S \ {x})  BY <1>1, SumMember
<1>3. S \ {x} = {}  OBVIOUS
<1>4. SumOver(f, S \ {x}) = 0  BY <1>3, SumEmpty
<1> HIDE DEF S
<1>5. SumOver(f, S) = f[x]  BY <1>2, <1>4
<1> QED  BY <1>5 DEF S

\* A member that is not there yet adds its value.
LEMMA SumAdd ==
    ASSUME NEW S, IsFiniteSet(S), NEW f, \A x \in S : f[x] \in Int,
           NEW y, y \notin S, f[y] \in Int
    PROVE  SumOver(f, S \cup {y}) = SumOver(f, S) + f[y]
<1> DEFINE T == S \cup {y}
<1>1. IsFiniteSet(T)  BY FS_AddElement
<1>2. SumOver(f, T) = f[y] + SumOver(f, T \ {y})
  BY <1>1, SumMember
<1>3. T \ {y} = S  OBVIOUS
<1>4. SumOver(f, S) \in Int  BY SumInt
<1>5. SumOver(f, T \ {y}) = SumOver(f, S)  BY <1>3
<1> HIDE DEF T
<1>6. SumOver(f, T) = SumOver(f, S) + f[y]  BY <1>2, <1>4, <1>5
<1> QED  BY <1>6 DEF T

LEMMA SumNat ==
    ASSUME NEW S, IsFiniteSet(S), NEW f, \A x \in S : f[x] \in Nat
    PROVE  SumOver(f, S) \in Nat
<1> DEFINE Bad == {T \in SUBSET S : SumOver(f, T) \notin Nat}
<1>1. SUFFICES ASSUME Bad # {} PROVE FALSE
  OBVIOUS
<1>2. PICK T \in Bad : \A U \in Bad : U \subseteq T => U = T
  <2>1. Bad \in SUBSET SUBSET S  OBVIOUS
  <2> HIDE DEF Bad
  <2> QED  BY <1>1, <2>1, SmallestSubset
<1>3. IsFiniteSet(T) /\ T \in SUBSET S  BY FS_Subset
<1>4. T # {}  BY SumEmpty
<1>5. PICK x \in T : SumOver(f, T) = f[x] + SumOver(f, T \ {x})
  BY <1>3, <1>4, SumChosen
<1>6. SumOver(f, T \ {x}) \in Nat
  BY <1>2, <1>3
<1> QED  BY <1>3, <1>5, <1>6

\* A sum of positive numbers, if it has any, is positive.
LEMMA SumPositive ==
    ASSUME NEW S, IsFiniteSet(S), S # {}, NEW f, \A x \in S : f[x] \in Nat \ {0}
    PROVE  SumOver(f, S) \in Nat \ {0}
<1>1. PICK x \in S : SumOver(f, S) = f[x] + SumOver(f, S \ {x})
  BY SumChosen
<1>2. SumOver(f, S \ {x}) \in Nat
  BY SumNat, FS_Subset
<1> QED  BY <1>1, <1>2

LEMMA SumEqual ==
    ASSUME NEW S, IsFiniteSet(S), NEW f, NEW g, \A x \in S : f[x] \in Int,
           \A x \in S : f[x] = g[x]
    PROVE  SumOver(f, S) = SumOver(g, S)
<1> DEFINE Bad == {T \in SUBSET S : SumOver(f, T) # SumOver(g, T)}
<1>1. SUFFICES ASSUME Bad # {} PROVE FALSE
  OBVIOUS
<1>2. PICK T \in Bad : \A U \in Bad : U \subseteq T => U = T
  <2>1. Bad \in SUBSET SUBSET S  OBVIOUS
  <2> HIDE DEF Bad
  <2> QED  BY <1>1, <2>1, SmallestSubset
<1>3. IsFiniteSet(T) /\ T \in SUBSET S /\ \A x \in T : g[x] \in Int  BY FS_Subset
<1>4. T # {}  BY SumEmpty
<1>5. PICK x \in T : SumOver(f, T) = f[x] + SumOver(f, T \ {x})
  BY <1>3, <1>4, SumChosen
<1>6. SumOver(g, T) = g[x] + SumOver(g, T \ {x})
  BY <1>3, SumMember
<1>7. SumOver(f, T \ {x}) = SumOver(g, T \ {x})
  BY <1>2, <1>3
<1> QED  BY <1>5, <1>6, <1>7

\* The sum of two functions is the sum of their sums.
LEMMA SumPlus ==
    ASSUME NEW S, IsFiniteSet(S), NEW f, NEW g, NEW h,
           \A x \in S : f[x] \in Int /\ g[x] \in Int /\ h[x] = f[x] + g[x]
    PROVE  SumOver(h, S) = SumOver(f, S) + SumOver(g, S)
<1> DEFINE Bad == {T \in SUBSET S : SumOver(h, T) # SumOver(f, T) + SumOver(g, T)}
<1>0. SumOver(h, {}) = SumOver(f, {}) + SumOver(g, {})
  <2>1. SumOver(h, {}) = 0 /\ SumOver(f, {}) = 0 /\ SumOver(g, {}) = 0  BY SumEmpty
  <2> QED  BY <2>1
<1>1. SUFFICES ASSUME Bad # {} PROVE FALSE
  OBVIOUS
<1>2. PICK T \in Bad : \A U \in Bad : U \subseteq T => U = T
  <2>1. Bad \in SUBSET SUBSET S  OBVIOUS
  <2> HIDE DEF Bad
  <2> QED  BY <1>1, <2>1, SmallestSubset
<1>3. /\ IsFiniteSet(T) /\ T \in SUBSET S
      /\ \A x \in T : f[x] \in Int /\ g[x] \in Int /\ h[x] \in Int
  BY FS_Subset
<1>4. T # {}  BY <1>0
<1>5. PICK x \in T : SumOver(f, T) = f[x] + SumOver(f, T \ {x})
  BY <1>3, <1>4, SumChosen
<1>6. SumOver(g, T) = g[x] + SumOver(g, T \ {x}) /\ SumOver(h, T) = h[x] + SumOver(h, T \ {x})
  BY <1>3, SumMember
<1>7. SumOver(h, T \ {x}) = SumOver(f, T \ {x}) + SumOver(g, T \ {x})
  BY <1>2, <1>3
<1>8. /\ SumOver(f, T \ {x}) \in Int /\ SumOver(g, T \ {x}) \in Int
  <2>1. IsFiniteSet(T \ {x}) /\ \A y \in T \ {x} : f[y] \in Int /\ g[y] \in Int
    BY <1>3, FS_Subset
  <2> QED  BY <2>1, SumInt
<1>9. f[x] \in Int /\ g[x] \in Int /\ h[x] = f[x] + g[x]  BY <1>3
<1> HIDE DEF Bad
<1>10. SumOver(h, T) = SumOver(f, T) + SumOver(g, T)
  BY <1>5, <1>6, <1>7, <1>8, <1>9
<1> QED  BY <1>10 DEF Bad

\* The sums of two sets that share no member add up.
LEMMA SumDisjoint ==
    ASSUME NEW A, IsFiniteSet(A), NEW B, IsFiniteSet(B), A \cap B = {},
           NEW f, \A x \in A \cup B : f[x] \in Int
    PROVE  SumOver(f, A \cup B) = SumOver(f, A) + SumOver(f, B)
<1> DEFINE Bad == {T \in SUBSET B : SumOver(f, A \cup T) # SumOver(f, A) + SumOver(f, T)}
<1>1. SUFFICES ASSUME Bad # {} PROVE FALSE
  OBVIOUS
<1>2. PICK T \in Bad : \A U \in Bad : U \subseteq T => U = T
  <2>1. Bad \in SUBSET SUBSET B  OBVIOUS
  <2> HIDE DEF Bad
  <2> QED  BY <1>1, <2>1, SmallestSubset
<1>3. /\ IsFiniteSet(T) /\ T \in SUBSET B
      /\ \A x \in T : f[x] \in Int
  BY FS_Subset
<1>4. SumOver(f, A) \in Int  BY SumInt
<1>5. T # {}
  <2>1. SumOver(f, {}) = 0 /\ A \cup {} = A  BY SumEmpty
  <2>2. SumOver(f, A \cup {}) = SumOver(f, A) + SumOver(f, {})  BY <1>4, <2>1
  <2> QED  BY <2>2
<1>6. PICK x \in T : SumOver(f, T) = f[x] + SumOver(f, T \ {x})
  BY <1>3, <1>5, SumChosen
<1>7. IsFiniteSet(A \cup T) /\ IsFiniteSet(T \ {x})  BY <1>3, FS_Union, FS_Subset
<1>8. SumOver(f, A \cup T) = f[x] + SumOver(f, A \cup (T \ {x}))
  <2>1. (A \cup T) \ {x} = A \cup (T \ {x})  BY <1>3
  <2>2. \A y \in A \cup T : f[y] \in Int  BY <1>3
  <2> QED  BY <1>7, <2>1, <2>2, SumMember
<1>9. SumOver(f, A \cup (T \ {x})) = SumOver(f, A) + SumOver(f, T \ {x})
  BY <1>2, <1>3
<1>10. SumOver(f, T \ {x}) \in Int
  BY <1>3, <1>7, SumInt
<1>11. f[x] \in Int  BY <1>3
<1> HIDE DEF Bad
<1>12. SumOver(f, A \cup T) = SumOver(f, A) + SumOver(f, T)
  BY <1>4, <1>6, <1>8, <1>9, <1>10, <1>11
<1> QED  BY <1>12 DEF Bad

LEMMA SumZero ==
    ASSUME NEW S, IsFiniteSet(S), NEW f, \A x \in S : f[x] = 0
    PROVE  SumOver(f, S) = 0
<1> DEFINE Bad == {T \in SUBSET S : SumOver(f, T) # 0}
<1>1. SUFFICES ASSUME Bad # {} PROVE FALSE
  OBVIOUS
<1>2. PICK T \in Bad : \A U \in Bad : U \subseteq T => U = T
  <2>1. Bad \in SUBSET SUBSET S  OBVIOUS
  <2> HIDE DEF Bad
  <2> QED  BY <1>1, <2>1, SmallestSubset
<1>3. IsFiniteSet(T) /\ T \in SUBSET S  BY FS_Subset
<1>4. T # {}  BY SumEmpty
<1>5. PICK x \in T : SumOver(f, T) = f[x] + SumOver(f, T \ {x})
  BY <1>3, <1>4, SumChosen
<1>6. SumOver(f, T \ {x}) = 0
  BY <1>2, <1>3
<1> QED  BY <1>3, <1>5, <1>6

\* Members that count nothing may be left out.
LEMMA SumSupport ==
    ASSUME NEW S, IsFiniteSet(S), NEW T \in SUBSET S, NEW f,
           \A x \in T : f[x] \in Int, \A x \in S \ T : f[x] = 0
    PROVE  SumOver(f, S) = SumOver(f, T)
<1>1. IsFiniteSet(T) /\ IsFiniteSet(S \ T)  BY FS_Subset
<1> DEFINE U == S \ T
<1>2. T \cup U = S /\ T \cap U = {}  OBVIOUS
<1>3. \A x \in T \cup U : f[x] \in Int  OBVIOUS
<1>4. SumOver(f, U) = 0  BY <1>1, SumZero
<1>5. SumOver(f, T) \in Int  BY <1>1, SumInt
<1>6. IsFiniteSet(U)  BY <1>1
<1> HIDE DEF U
<1>7. SumOver(f, T \cup U) = SumOver(f, T) + SumOver(f, U)
  BY <1>1, <1>2, <1>3, <1>6, SumDisjoint
<1>8. SumOver(f, T \cup U) = SumOver(f, S)  BY <1>2
<1> QED  BY <1>4, <1>5, <1>7, <1>8

Fibre(key, S, k) == {x \in S : key[x] = k}

\* Summing by key and then over the keys is summing it all.
LEMMA SumByKey ==
    ASSUME NEW S, IsFiniteSet(S), NEW K, IsFiniteSet(K),
           NEW key, \A x \in S : key[x] \in K,
           NEW f, \A x \in S : f[x] \in Int,
           NEW g, \A k \in K : g[k] = SumOver(f, Fibre(key, S, k))
    PROVE  SumOver(f, S) = SumOver(g, K)
<1> DEFINE h(T) == [k \in K |-> SumOver(f, Fibre(key, T, k))]
           Bad == {T \in SUBSET S : SumOver(f, T) # SumOver(h(T), K)}
<1>0. \A T \in SUBSET S : \A k \in K :
         /\ IsFiniteSet(Fibre(key, T, k))
         /\ \A x \in Fibre(key, T, k) : f[x] \in Int
         /\ SumOver(f, Fibre(key, T, k)) \in Int
  <2> SUFFICES ASSUME NEW T \in SUBSET S, NEW k \in K
               PROVE /\ IsFiniteSet(Fibre(key, T, k)) 
                     /\ \A x \in Fibre(key, T, k) : f[x] \in Int
                     /\ SumOver(f, Fibre(key, T, k)) \in Int
    OBVIOUS
  <2>1. Fibre(key, T, k) \subseteq S  BY DEF Fibre
  <2>2. IsFiniteSet(Fibre(key, T, k))  BY <2>1, FS_Subset
  <2> QED  BY <2>1, <2>2, SumInt
<1>1. Bad = {}
  <2> SUFFICES ASSUME Bad # {} PROVE FALSE
    OBVIOUS
  <2>2. PICK T \in Bad : \A U \in Bad : U \subseteq T => U = T
    <3>1. Bad \in SUBSET SUBSET S  OBVIOUS
    <3> HIDE DEF Bad
    <3> QED  BY <3>1, SmallestSubset
  <2>3. IsFiniteSet(T) /\ T \in SUBSET S /\ \A x \in T : f[x] \in Int  BY FS_Subset
  <2>4. T # {}
    <3> SUFFICES ASSUME T = {} PROVE FALSE
      OBVIOUS
    <3>1. \A k \in K : Fibre(key, T, k) = {}  BY DEF Fibre
    <3>2. \A k \in K : h(T)[k] = 0  BY <3>1, SumEmpty
    <3>3. SumOver(h(T), K) = 0
      <4> HIDE DEF h
      <4> QED  BY <3>2, SumZero
    <3> QED  BY <3>3, SumEmpty
  <2>5. PICK x \in T : SumOver(f, T) = f[x] + SumOver(f, T \ {x})
    BY <2>3, <2>4, SumChosen
  <2> DEFINE U == T \ {x}
             c == key[x]
  <2>6. c \in K /\ f[x] \in Int /\ U \in SUBSET S  BY <2>3
  <2>7. SumOver(f, U) = SumOver(h(U), K)
    BY <2>2, <2>3
  <2>8. \A k \in K \ {c} : h(T)[k] = h(U)[k]
    <3>1. \A k \in K \ {c} : Fibre(key, T, k) = Fibre(key, U, k)  BY DEF Fibre
    <3> QED  BY <3>1
  <2>9. h(T)[c] = f[x] + h(U)[c]
    <3>1. Fibre(key, U, c) = Fibre(key, T, c) \ {x} /\ x \in Fibre(key, T, c)
      BY DEF Fibre
    <3>2. SumOver(f, Fibre(key, T, c)) = f[x] + SumOver(f, Fibre(key, T, c) \ {x})
      <4>1. IsFiniteSet(Fibre(key, T, c)) /\ \A y \in Fibre(key, T, c) : f[y] \in Int
        BY <1>0, <2>3, <2>6
      <4> QED  BY <3>1, <4>1, SumMember
    <3> QED  BY <2>6, <3>1, <3>2
  <2>10. \A k \in K : h(T)[k] \in Int /\ h(U)[k] \in Int
    BY <1>0, <2>3, <2>6
  <2> HIDE DEF h, c, U
  <2>11. IsFiniteSet(K \ {c})  BY FS_Subset
  <2>12. SumOver(h(T), K) = h(T)[c] + SumOver(h(T), K \ {c})
    BY <2>6, <2>10, SumMember
  <2>13. SumOver(h(U), K) = h(U)[c] + SumOver(h(U), K \ {c})
    BY <2>6, <2>10, SumMember
  <2>14. SumOver(h(T), K \ {c}) = SumOver(h(U), K \ {c})
    BY <2>8, <2>10, <2>11, SumEqual
  <2>15. SumOver(h(U), K \ {c}) \in Int
    BY <2>10, <2>11, SumInt
  <2>16. h(U)[c] \in Int  BY <2>6, <2>10
  <2>17. SumOver(h(T), K) = f[x] + SumOver(f, U)
    BY <2>6, <2>7, <2>9, <2>12, <2>13, <2>14, <2>15, <2>16
  <2> QED  BY <2>5, <2>17 DEF U
<1>2. SumOver(f, S) = SumOver(h(S), K)  BY <1>1
<1>3. \A k \in K : h(S)[k] = g[k] /\ h(S)[k] \in Int  BY <1>0
<1> HIDE DEF h
<1> QED  BY <1>2, <1>3, SumEqual

\* A sum does not depend on what its members are called.
LEMMA SumRenamed ==
    ASSUME NEW S, IsFiniteSet(S), NEW name,
           \A x, y \in S : name[x] = name[y] => x = y,
           NEW f, \A x \in S : f[name[x]] \in Int,
           NEW g, \A x \in S : g[x] = f[name[x]]
    PROVE  SumOver(g, S) = SumOver(f, {name[x] : x \in S})
<1> DEFINE K == {name[x] : x \in S}
<1>1. IsFiniteSet(K)
  <2>1. [x \in S |-> name[x]] \in Surjection(S, K)  BY DEF Surjection
  <2> QED  BY <2>1, FS_Surjection
<1>2. \A x \in S : name[x] \in K /\ g[x] \in Int  OBVIOUS
<1>3. \A k \in K : f[k] = SumOver(g, Fibre(name, S, k))
  <2> SUFFICES ASSUME NEW k \in K PROVE f[k] = SumOver(g, Fibre(name, S, k))
    OBVIOUS
  <2>1. PICK x \in S : name[x] = k  OBVIOUS
  <2>2. Fibre(name, S, k) = {x}  BY <2>1 DEF Fibre
  <2>3. g[x] \in Int /\ f[k] = g[x]  BY <1>2, <2>1
  <2> QED  BY <2>2, <2>3, SumSingle
<1> HIDE DEF K
<1>4. SumOver(g, S) = SumOver(f, K)
  BY <1>1, <1>2, <1>3, SumByKey
<1> QED  BY <1>4 DEF K
=============================================================================
