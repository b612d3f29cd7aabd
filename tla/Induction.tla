----------------------------- MODULE Induction ------------------------------
(***************************************************************************)
(* Facts that take induction, for the other proofs: every set of naturals  *)
(* and every family of finite sets has a least member, and what a sum over *)
(* a finite set (SumFunctionOnSet of the community modules) is made of.    *)
(* Induction is by the least counterexample.                               *)
(***************************************************************************)
EXTENDS Integers, FiniteSets, Functions, Folds, FiniteSetTheorems,
        WellFoundedInduction, TLAPS

(* Every nonempty set of naturals has a least member.                      *)
LEMMA LeastNatural ==
  ASSUME NEW T, T \subseteq Nat, T # {}
  PROVE  \E n \in T : \A m \in T : n <= m
<1> DEFINE R == {p \in Nat \X Nat : p[1] < p[2]}
<1>1. R = OpToRel(<, Nat)
  BY DEF OpToRel
<1>2. IsWellFoundedOn(R, Nat)
  BY <1>1, NatLessThanWellFounded
<1>3. \A m, n \in Nat : m < n => <<m, n>> \in R
  OBVIOUS
<1> HIDE DEF R
<1>4. PICK n \in T : \A m \in T : ~ (<<m, n>> \in R)
  BY <1>2, WFMin
<1>5. \A m \in T : ~ (m < n)
  <2> SUFFICES ASSUME NEW m \in T, m < n PROVE FALSE
    OBVIOUS
  <2>1. m \in Nat /\ n \in Nat
    OBVIOUS
  <2>2. <<m, n>> \in R
    BY <2>1, <1>3
  <2> QED
    BY <2>2, <1>4
<1>6. \A m \in T : m \in Int /\ n \in Int
  OBVIOUS
<1> QED
  BY <1>5, <1>6

(* What holds of 0, and of l + 1 whenever it holds of l, holds up to n.     *)
LEMMA Climb ==
  ASSUME NEW n \in Nat, NEW S, 0 \in S, \A l \in 0..(n - 1) : l \in S => l + 1 \in S
  PROVE  0..n \subseteq S
<1> DEFINE T == (0..n) \ S
<1> SUFFICES ASSUME T # {} PROVE FALSE
  OBVIOUS
<1>1. T \subseteq Nat
  OBVIOUS
<1>2. PICK k \in T : \A m \in T : k <= m
  <2> HIDE DEF T
  <2> QED
    BY <1>1, LeastNatural
<1>3. k - 1 \in 0..(n - 1) /\ k - 1 \notin T
  <2>1. k \in 0..n /\ k # 0 /\ k \notin S
    OBVIOUS
  <2>2. k - 1 \in 0..(n - 1)
    BY <2>1
  <2>3. \A m \in T : k <= m
    BY <1>2
  <2> HIDE DEF T
  <2> QED
    BY <2>1, <2>2, <2>3
<1>4. k - 1 \in S
  BY <1>3
<1>5. (k - 1) + 1 \in S
  BY <1>3, <1>4
<1> QED
  BY <1>3, <1>5

(* Every nonempty family of finite sets has a member with fewest elements. *)
LEMMA LeastSet ==
  ASSUME NEW F, F # {}, \A T \in F : IsFiniteSet(T)
  PROVE  \E T \in F : \A U \in F : Cardinality(T) <= Cardinality(U)
<1> DEFINE C == {Cardinality(T) : T \in F}
<1>1. C \subseteq Nat /\ C # {}
  BY FS_CardinalityType
<1>2. PICK n \in C : \A m \in C : n <= m
  <2> HIDE DEF C
  <2> QED
    BY <1>1, LeastNatural
<1> QED
  BY <1>2

-----------------------------------------------------------------------------
(* Sums over finite sets                                                   *)

(* The member a fold takes first, and the fold's equation for the sum of f *)
(* over s, where g has the sums over smaller sets.                         *)
First(s) == CHOOSE x \in s : TRUE
Turn(f, g, s) == IF s = {} THEN 0 ELSE f[First(s)] + g[s \ {First(s)}]
Summing(f, S, g) == g = [s \in SUBSET S |-> Turn(f, g, s)]
Agree(e, f, S) == \A x \in S : e[x] = f[x]

(* The definition of the community modules, unfolded.                      *)
LEMMA SumUnfolded ==
  ASSUME NEW f, NEW S
  PROVE  SumFunctionOnSet(f, S) = (CHOOSE g : Summing(f, S, g))[S]
  BY DEF SumFunctionOnSet, FoldFunctionOnSet, MapThenFoldSet, Summing, Turn, First

(* The member taken first is a member, and leaves a smaller finite set.     *)
LEMMA FirstFacts ==
  ASSUME NEW s, s # {}, IsFiniteSet(s)
  PROVE  /\ First(s) \in s
         /\ IsFiniteSet(s \ {First(s)})
         /\ Cardinality(s \ {First(s)}) = Cardinality(s) - 1
         /\ Cardinality(s) \in Nat /\ Cardinality(s \ {First(s)}) \in Nat
<1>1. First(s) \in s
  BY DEF First
<1> QED
  BY <1>1, FS_RemoveElement, FS_CardinalityType

(* A sum depends on the values of f on the set and on nothing else.        *)
LEMMA SummingUnique ==
  ASSUME NEW e, NEW f, NEW S, NEW T \in SUBSET S, IsFiniteSet(T), Agree(e, f, T),
         NEW g, NEW h, Summing(e, S, g), Summing(f, T, h)
  PROVE  \A U \in SUBSET T : g[U] = h[U]
<1> DEFINE F == {U \in SUBSET T : g[U] # h[U]}
<1> SUFFICES ASSUME F # {} PROVE FALSE
  OBVIOUS
<1>1. \A U \in SUBSET T : IsFiniteSet(U)
  BY FS_Subset
<1>2. PICK U \in F : \A V \in F : Cardinality(U) <= Cardinality(V)
  <2>1. \A V \in F : IsFiniteSet(V)
    BY <1>1
  <2> HIDE DEF F
  <2> QED
    BY <2>1, LeastSet
<1>3. g[U] = Turn(e, g, U) /\ h[U] = Turn(f, h, U)
  BY DEF Summing
<1>4. CASE U = {}
  BY <1>3, <1>4 DEF Turn
<1>5. CASE U # {}
  <2> DEFINE c == First(U)
             V == U \ {c}
  <2>1. IsFiniteSet(U) /\ U \in SUBSET T
    BY <1>1
  <2>2. /\ c \in U /\ Cardinality(V) = Cardinality(U) - 1
         /\ Cardinality(U) \in Nat /\ Cardinality(V) \in Nat
    BY <2>1, <1>5, FirstFacts
  <2>3. V \in SUBSET T /\ c \in T
    BY <2>1, <2>2
  <2>4. g[V] = h[V]
    <3>1. ~ (Cardinality(U) <= Cardinality(V))
      BY <2>2
    <3>2. V \notin F
      BY <1>2, <3>1
    <3> QED
      BY <2>3, <3>2
  <2>5. e[c] = f[c]
    BY <2>3 DEF Agree
  <2> QED
    BY <1>3, <1>5, <2>4, <2>5 DEF Turn
<1> QED
  BY <1>4, <1>5

(* If the sums over s and over s without its first member exist, they are  *)
(* as they ought to be.                                                    *)
LEMMA SumTurned ==
  ASSUME NEW f, NEW s, IsFiniteSet(s), s # {},
         \E g : Summing(f, s, g), \E h : Summing(f, s \ {First(s)}, h)
  PROVE  SumFunctionOnSet(f, s) = f[First(s)] + SumFunctionOnSet(f, s \ {First(s)})
<1> DEFINE t == s \ {First(s)}
           g == CHOOSE g : Summing(f, s, g)
           h == CHOOSE h : Summing(f, t, h)
<1>1. Summing(f, s, g) /\ Summing(f, t, h)
  OBVIOUS
<1>2. SumFunctionOnSet(f, s) = g[s] /\ SumFunctionOnSet(f, t) = h[t]
  BY SumUnfolded
<1> HIDE DEF g, h
<1>3. g[s] = f[First(s)] + g[t]
  BY <1>1 DEF Summing, Turn
<1>4. g[t] = h[t]
  <2>1. t \in SUBSET s /\ t \in SUBSET t /\ IsFiniteSet(t) /\ Agree(f, f, t)
    BY FirstFacts DEF Agree
  <2> HIDE DEF t
  <2> QED
    BY <1>1, <2>1, SummingUnique
<1> QED
  BY <1>2, <1>3, <1>4

(* Sums over finite sets exist.                                            *)
LEMMA SummingExists ==
  ASSUME NEW f, NEW S, IsFiniteSet(S)
  PROVE  \E g : Summing(f, S, g)
<1> DEFINE F == {T \in SUBSET S : ~ \E g : Summing(f, T, g)}
<1> SUFFICES ASSUME F # {} PROVE FALSE
  OBVIOUS
<1>1. \A T \in SUBSET S : IsFiniteSet(T) /\ Cardinality(T) \in Nat
  BY FS_Subset, FS_CardinalityType
<1>2. PICK T \in F : \A U \in F : Cardinality(T) <= Cardinality(U)
  <2>1. \A V \in F : IsFiniteSet(V)
    BY <1>1
  <2> HIDE DEF F
  <2> QED
    BY <2>1, LeastSet
<1>3. \A U \in SUBSET T : U # T => \E g : Summing(f, U, g)
  <2> SUFFICES ASSUME NEW U \in SUBSET T, U # T PROVE U \notin F
    OBVIOUS
  <2>1. IsFiniteSet(T) /\ Cardinality(U) <= Cardinality(T) /\ Cardinality(U) # Cardinality(T)
    BY <1>1, FS_Subset
  <2>2. Cardinality(U) \in Nat /\ Cardinality(T) \in Nat
    BY <1>1
  <2> QED
    BY <1>2, <2>1, <2>2
<1>4. \A U \in SUBSET T : U # T /\ U # {} =>
        SumFunctionOnSet(f, U) = f[First(U)] + SumFunctionOnSet(f, U \ {First(U)})
  <2> SUFFICES ASSUME NEW U \in SUBSET T, U # T, U # {}
               PROVE  SumFunctionOnSet(f, U) = f[First(U)] + SumFunctionOnSet(f, U \ {First(U)})
    OBVIOUS
  <2>1. IsFiniteSet(U) /\ U \ {First(U)} \in SUBSET T /\ U \ {First(U)} # T
    BY <1>1
  <2> QED
    BY <1>3, <2>1, SumTurned
<1>5. \A U \in SUBSET T : U # T /\ U = {} => SumFunctionOnSet(f, U) = 0
  <2> SUFFICES ASSUME {} # T PROVE SumFunctionOnSet(f, {}) = 0
    OBVIOUS
  <2>1. \E g : Summing(f, {}, g)
    BY <1>3
  <2>2. Summing(f, {}, CHOOSE g : Summing(f, {}, g))
    BY <2>1
  <2>3. (CHOOSE g : Summing(f, {}, g))[{}] = 0
    BY <2>2 DEF Summing, Turn
  <2> QED
    BY <2>3, SumUnfolded
<1> DEFINE G == [s \in SUBSET T |->
                   IF s = T THEN Turn(f, [u \in SUBSET T |-> SumFunctionOnSet(f, u)], s)
                   ELSE SumFunctionOnSet(f, s)]
<1>6. ASSUME NEW s \in SUBSET T PROVE G[s] = Turn(f, G, s)
  <2>1. s # {} => /\ s \ {First(s)} \in SUBSET T /\ s \ {First(s)} # T
                  /\ G[s \ {First(s)}] = SumFunctionOnSet(f, s \ {First(s)})
    BY DEF First
  <2>2. CASE s = {} /\ s # T
    BY <1>5, <2>2 DEF Turn
  <2>3. CASE s = {} /\ s = T
    BY <2>3 DEF Turn
  <2>4. CASE s # {} /\ s # T
    BY <1>4, <2>1, <2>4 DEF Turn
  <2>5. CASE s # {} /\ s = T
    BY <2>1, <2>5 DEF Turn
  <2> QED
    BY <2>2, <2>3, <2>4, <2>5
<1>7. Summing(f, T, G)
  <2>1. G = [s \in SUBSET T |-> G[s]]
    OBVIOUS
  <2> HIDE DEF G
  <2> QED
    BY <1>6, <2>1 DEF Summing
<1> QED
  BY <1>7

(* The sum of nothing.                                                     *)
LEMMA SumEmpty ==
  ASSUME NEW f
  PROVE  SumFunctionOnSet(f, {}) = 0
<1>1. \E g : Summing(f, {}, g)
  BY SummingExists, FS_EmptySet
<1>2. Summing(f, {}, CHOOSE g : Summing(f, {}, g))
  BY <1>1
<1>3. (CHOOSE g : Summing(f, {}, g))[{}] = 0
  BY <1>2 DEF Summing, Turn
<1> QED
  BY <1>3, SumUnfolded

(* The sum of something.                                                   *)
LEMMA SumFirst ==
  ASSUME NEW f, NEW s, IsFiniteSet(s), s # {}
  PROVE  SumFunctionOnSet(f, s) = f[First(s)] + SumFunctionOnSet(f, s \ {First(s)})
  BY FirstFacts, SummingExists, SumTurned

(* Equal values have equal sums.                                           *)
LEMMA SumSame ==
  ASSUME NEW e, NEW f, NEW S, IsFiniteSet(S), \A x \in S : e[x] = f[x]
  PROVE  SumFunctionOnSet(e, S) = SumFunctionOnSet(f, S)
<1> DEFINE g == CHOOSE g : Summing(e, S, g)
           h == CHOOSE h : Summing(f, S, h)
<1>1. Summing(e, S, g) /\ Summing(f, S, h)
  BY SummingExists
<1>2. SumFunctionOnSet(e, S) = g[S] /\ SumFunctionOnSet(f, S) = h[S]
  BY SumUnfolded
<1> HIDE DEF g, h
<1>3. S \in SUBSET S /\ Agree(e, f, S)
  BY DEF Agree
<1> QED
  BY <1>1, <1>2, <1>3, SummingUnique

(* A sum of naturals is a natural.                                         *)
LEMMA SumType ==
  ASSUME NEW f, NEW S, IsFiniteSet(S), \A x \in S : f[x] \in Nat
  PROVE  SumFunctionOnSet(f, S) \in Nat
<1> DEFINE F == {T \in SUBSET S : SumFunctionOnSet(f, T) \notin Nat}
<1> SUFFICES ASSUME F # {} PROVE FALSE
  OBVIOUS
<1>1. \A T \in SUBSET S : IsFiniteSet(T) /\ Cardinality(T) \in Nat
  BY FS_Subset, FS_CardinalityType
<1>2. PICK T \in F : \A U \in F : Cardinality(T) <= Cardinality(U)
  <2>1. \A V \in F : IsFiniteSet(V)
    BY <1>1
  <2> HIDE DEF F
  <2> QED
    BY <2>1, LeastSet
<1>3. T # {}
  BY SumEmpty
<1> DEFINE U == T \ {First(T)}
<1>4. /\ First(T) \in T /\ U \in SUBSET S /\ Cardinality(U) = Cardinality(T) - 1
      /\ Cardinality(T) \in Nat /\ Cardinality(U) \in Nat
  BY <1>1, <1>3, FirstFacts
<1>5. SumFunctionOnSet(f, U) \in Nat
  <2>1. U \notin F
    BY <1>2, <1>4
  <2> QED
    BY <1>4, <2>1
<1>6. SumFunctionOnSet(f, T) = f[First(T)] + SumFunctionOnSet(f, U)
  BY <1>1, <1>3, SumFirst
<1>7. f[First(T)] \in Nat
  BY <1>4
<1> QED
  BY <1>5, <1>6, <1>7

(* Any member can be taken out of a sum.                                   *)
LEMMA SumSplit ==
  ASSUME NEW f, NEW S, IsFiniteSet(S), \A x \in S : f[x] \in Nat, NEW a \in S
  PROVE  /\ SumFunctionOnSet(f, S) = f[a] + SumFunctionOnSet(f, S \ {a})
         /\ SumFunctionOnSet(f, S) \in Nat
         /\ SumFunctionOnSet(f, S \ {a}) \in Nat
<1> DEFINE Sum(T) == SumFunctionOnSet(f, T)
           F == {T \in SUBSET S : \E x \in T : Sum(T) # f[x] + Sum(T \ {x})}
<1>1. \A T \in SUBSET S : IsFiniteSet(T) /\ Cardinality(T) \in Nat /\ Sum(T) \in Nat
  BY FS_Subset, FS_CardinalityType, SumType
<1>2. ASSUME F # {} PROVE FALSE
  <2>1. PICK T \in F : \A U \in F : Cardinality(T) <= Cardinality(U)
    <3>1. \A V \in F : IsFiniteSet(V)
      BY <1>1
    <3> HIDE DEF F
    <3> QED
      BY <1>2, <3>1, LeastSet
  <2>2. PICK x \in T : Sum(T) # f[x] + Sum(T \ {x})
    OBVIOUS
  <2> DEFINE c == First(T)
  <2>3. T \in SUBSET S /\ IsFiniteSet(T) /\ T # {}
    BY <1>1
  <2>4. c \in T /\ Sum(T) = f[c] + Sum(T \ {c})
    BY <2>3, SumFirst, FirstFacts
  <2> HIDE DEF c
  <2>5. x # c
    BY <2>2, <2>4
  <2>6. ASSUME NEW y \in T, NEW z \in T, y # z
        PROVE  Sum(T \ {y}) = f[z] + Sum((T \ {y}) \ {z})
    <3> DEFINE U == T \ {y}
    <3>1. U \in SUBSET S /\ z \in U
      BY <2>3, <2>6
    <3>2. Cardinality(U) = Cardinality(T) - 1 /\ Cardinality(U) \in Nat /\ Cardinality(T) \in Nat
      BY <1>1, <2>3, FS_RemoveElement
    <3>3. U \notin F
      BY <2>1, <3>2
    <3> QED
      BY <3>1, <3>3
  <2>7. /\ Sum(T \ {c}) = f[x] + Sum((T \ {c}) \ {x})
        /\ Sum(T \ {x}) = f[c] + Sum((T \ {x}) \ {c})
    BY <2>4, <2>5, <2>6
  <2>8. (T \ {c}) \ {x} = (T \ {x}) \ {c}
    OBVIOUS
  <2>9. (T \ {x}) \ {c} \in SUBSET S
    BY <2>3
  <2>10. Sum((T \ {x}) \ {c}) \in Nat /\ f[x] \in Nat /\ f[c] \in Nat
    BY <1>1, <2>3, <2>4, <2>9
  <2>11. Sum(T \ {c}) = f[x] + Sum((T \ {x}) \ {c})
    BY <2>7, <2>8, Zenon
  <2> QED
    BY <2>2, <2>4, <2>7, <2>10, <2>11
<1>3. S \notin F
  BY <1>2
<1> QED
  BY <1>1, <1>3
=============================================================================
