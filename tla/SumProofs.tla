------------------------------ MODULE SumProofs ------------------------------
(***************************************************************************)
(* Sums over finite sets, for the conservation laws.  The induction these  *)
(* facts need is stated for sets: a property is the set of things that     *)
(* have it, and a least counterexample is taken from a well-founded order. *)
(***************************************************************************)
EXTENDS Integers, Functions, FiniteSetTheorems, TLAPS

\* The least-number principle, as a fact about sets.
LEMMA LeastNatural ==
    ASSUME NEW T \in SUBSET Nat, T # {}
    PROVE  \E m \in T : \A k \in T : m <= k
<1> DEFINE U == {0 .. n : n \in T}
<1>1. U \subseteq FiniteSubsetsOf(Nat) /\ U # {}
    <2>1. \A n \in T : IsFiniteSet(0 .. n)
        BY FS_Interval
    <2>2. \A n \in T : 0 .. n \in SUBSET Nat
        OBVIOUS
    <2>3. \A n \in T : 0 .. n \in FiniteSubsetsOf(Nat)
        BY <2>1, <2>2 DEF FiniteSubsetsOf
    <2> QED
        BY <2>3
<1>2. PICK x \in U : \A y \in U : <<y, x>> \notin StrictSubsetOrdering(Nat)
    BY <1>1, FS_StrictSubsetOrderingWellFounded, WFMin
<1>3. PICK m \in T : x = 0 .. m
    OBVIOUS
<1>4. ASSUME NEW k \in T, k < m
      PROVE  FALSE
    <2>1. 0 .. k \subseteq 0 .. m /\ 0 .. k # 0 .. m
        BY <1>4
    <2>2. <<0 .. k, x>> \in StrictSubsetOrdering(Nat)
        BY <1>3, <2>1 DEF StrictSubsetOrdering
    <2> QED
        BY <1>2, <2>2
<1> QED
    BY <1>4

\* Induction on the natural numbers, for a property given as a set.
LEMMA NatInductionSet ==
    ASSUME NEW P \in SUBSET Nat, 0 \in P, \A n \in P : n + 1 \in P
    PROVE  P = Nat
<1> SUFFICES ASSUME Nat \ P # {} PROVE FALSE
    OBVIOUS
<1>1. PICK m \in Nat \ P : \A k \in Nat \ P : m <= k
    BY LeastNatural
<1>2. m - 1 \in Nat /\ ~(m <= m - 1)
    BY <1>1
<1>3. m - 1 \in P
    BY <1>1, <1>2
<1> QED
    BY <1>1, <1>2, <1>3

\* A minimal one among finite subsets of a set.
LEMMA MinimalSubset ==
    ASSUME NEW S, IsFiniteSet(S), NEW U \in SUBSET SUBSET S, U # {}
    PROVE  \E T \in U : \A V \in U : V \subseteq T => V = T
<1>1. U \subseteq FiniteSubsetsOf(S)
    BY FS_FiniteSubsetsOfFinite
<1>2. PICK T \in U : \A V \in U : <<V, T>> \notin StrictSubsetOrdering(S)
    BY <1>1, FS_StrictSubsetOrderingWellFounded, WFMin
<1> QED
    BY <1>2 DEF StrictSubsetOrdering

\* Induction over the subsets of a finite set, for a property given as a set.
LEMMA SubsetInductionSet ==
    ASSUME NEW S, IsFiniteSet(S), NEW P \in SUBSET SUBSET S,
           \A T \in SUBSET S : (\A V \in SUBSET T : V # T => V \in P) => T \in P
    PROVE  P = SUBSET S
<1> SUFFICES ASSUME (SUBSET S) \ P # {} PROVE FALSE
    OBVIOUS
<1> DEFINE U == (SUBSET S) \ P
<1>0. U \in SUBSET SUBSET S /\ U # {}
    OBVIOUS
<1> HIDE DEF U
<1>1. PICK T \in U : \A V \in U : V \subseteq T => V = T
    BY <1>0, MinimalSubset
<1>2. T \in SUBSET S /\ T \notin P /\ \A V \in SUBSET T : V # T => V \in P
    BY <1>1 DEF U
<1> QED
    BY <1>2

-----------------------------------------------------------------------------
(* The recursion behind SumFunctionOnSet. *)

\* The element that the sum takes out of a set first.
Pick(s) == CHOOSE x \in s : TRUE

\* g sums f over each member of a set of sets, element by element.
SumsOf(g, f, D) ==
    g = [s \in D |-> IF s = {} THEN 0 ELSE f[Pick(s)] + g[s \ {Pick(s)}]]

\* A set with elements has the one that is picked.
LEMMA PickIn == ASSUME NEW s, s # {} PROVE Pick(s) \in s
BY DEF Pick

\* The recursion of SumFunctionOnSet has a solution.
LEMMA SumsExist ==
    ASSUME NEW S, IsFiniteSet(S), NEW f
    PROVE  \E g : SumsOf(g, f, SUBSET S)
<1> DEFINE Small(n) == {s \in SUBSET S : Cardinality(s) <= n}
           P == {n \in Nat : \E g : SumsOf(g, f, Small(n))}
<1>0. \A s \in SUBSET S : IsFiniteSet(s) /\ Cardinality(s) \in Nat
    BY FS_Subset, FS_CardinalityType
<1>1. 0 \in P
    <2>1. \A s \in Small(0) : s = {}
        BY <1>0, FS_EmptySet
    <2>2. SumsOf([s \in Small(0) |-> 0], f, Small(0))
        BY <2>1 DEF SumsOf
    <2> QED
        BY <2>2
<1>2. ASSUME NEW n \in P PROVE n + 1 \in P
    <2>1. PICK g : SumsOf(g, f, Small(n))
        BY <1>2
    <2> DEFINE h == [s \in Small(n + 1) |->
                        IF s = {} THEN 0 ELSE f[Pick(s)] + g[s \ {Pick(s)}]]
    <2>2. \A s \in Small(n) : s \in Small(n + 1) /\ h[s] = g[s]
        <3>1. \A s \in Small(n) : s \in Small(n + 1)
            BY <1>0
        <3>2. \A s \in Small(n) : g[s] = IF s = {} THEN 0 ELSE f[Pick(s)] + g[s \ {Pick(s)}]
            BY <2>1 DEF SumsOf
        <3> QED
            BY <3>1, <3>2
    <2>3. ASSUME NEW s \in Small(n + 1), s # {}
          PROVE  s \ {Pick(s)} \in Small(n)
        <3>1. Pick(s) \in s /\ IsFiniteSet(s)
            BY <1>0, <2>3, PickIn
        <3>2. Cardinality(s \ {Pick(s)}) = Cardinality(s) - 1
            BY <3>1, FS_RemoveElement
        <3> QED
            BY <1>0, <3>2
    <2>4. h = [s \in Small(n + 1) |-> IF s = {} THEN 0 ELSE f[Pick(s)] + h[s \ {Pick(s)}]]
        BY <2>2, <2>3
    <2>5. SumsOf(h, f, Small(n + 1))
        BY <2>4 DEF SumsOf
    <2>6. n + 1 \in Nat
        BY <1>2
    <2> QED
        BY <2>5, <2>6
<1>3. P = Nat
    BY <1>1, <1>2, NatInductionSet
<1>4. Cardinality(S) \in Nat /\ Small(Cardinality(S)) = SUBSET S
    BY <1>0, FS_Subset
<1> QED
    BY <1>3, <1>4

\* SumFunctionOnSet is the value of that solution.
LEMMA SumUnfold ==
    ASSUME NEW S, IsFiniteSet(S), NEW f
    PROVE  \E g : SumsOf(g, f, SUBSET S) /\ SumFunctionOnSet(f, S) = g[S]
<1>1. SumFunctionOnSet(f, S) = (CHOOSE g : SumsOf(g, f, SUBSET S))[S]
    BY DEF SumFunctionOnSet, FoldFunctionOnSet, MapThenFoldSet, SumsOf, Pick
<1>2. SumsOf(CHOOSE g : SumsOf(g, f, SUBSET S), f, SUBSET S)
    BY SumsExist
<1> QED
    BY <1>1, <1>2
-----------------------------------------------------------------------------
(* The order of the elements does not matter. *)

\* The function has integers for values on the set.
IntOn(f, S) == \A x \in S : f[x] \in Int

\* A sum may be split at any of its elements.
LEMMA SumsAtAny ==
    ASSUME NEW S, IsFiniteSet(S), NEW f, IntOn(f, S),
           NEW g, SumsOf(g, f, SUBSET S)
    PROVE  \A T \in SUBSET S : /\ g[T] \in Int
                              /\ \A x \in T : g[T] = f[x] + g[T \ {x}]
<1> DEFINE Good(T) == g[T] \in Int /\ \A x \in T : g[T] = f[x] + g[T \ {x}]
           P == {T \in SUBSET S : Good(T)}
<1>0. \A T \in SUBSET S : g[T] = IF T = {} THEN 0 ELSE f[Pick(T)] + g[T \ {Pick(T)}]
    BY DEF SumsOf
<1>1. ASSUME NEW T \in SUBSET S, \A V \in SUBSET T : V # T => V \in P
      PROVE  T \in P
    <2>1. CASE T = {}
        <3>1. g[T] = 0
            BY <1>0, <2>1
        <3> QED
            BY <2>1, <3>1
    <2>2. CASE T # {}
        <3> DEFINE c == Pick(T)
        <3>1. c \in T /\ g[T] = f[c] + g[T \ {c}]
            BY <1>0, <2>2, PickIn
        <3> HIDE DEF c
        <3>2. f[c] \in Int /\ g[T \ {c}] \in Int
            BY <1>1, <3>1 DEF IntOn
        <3>3. ASSUME NEW x \in T
              PROVE  g[T] = f[x] + g[T \ {x}]
            <4>1. CASE x = c
                BY <3>1, <4>1
            <4>2. CASE x # c
                <5> DEFINE V == T \ {c}
                           W == T \ {x}
                           R == T \ {c, x}
                <5>1. /\ V \in P /\ x \in V /\ V \ {x} = R
                      /\ W \in P /\ c \in W /\ W \ {c} = R
                    BY <1>1, <3>1, <4>2
                <5>2. R \in P
                    BY <1>1, <3>1
                <5>3. g[V] = f[x] + g[R] /\ g[W] = f[c] + g[R] /\ g[R] \in Int
                    BY <5>1, <5>2
                <5> HIDE DEF R
                <5>4. f[x] \in Int
                    BY DEF IntOn
                <5> QED
                    BY <3>1, <3>2, <5>3, <5>4
            <4> QED
                BY <4>1, <4>2
        <3>4. g[T] \in Int
            BY <3>1, <3>2
        <3> QED
            BY <3>3, <3>4
    <2> QED
        BY <2>1, <2>2
<1>2. P = SUBSET S
    <2>1. P \in SUBSET SUBSET S
        OBVIOUS
    <2> HIDE DEF P
    <2> QED
        BY <1>1, <2>1, SubsetInductionSet
<1> QED
    BY <1>2

\* The empty sum.
LEMMA SumEmpty == ASSUME NEW f PROVE SumFunctionOnSet(f, {}) = 0
<1>1. PICK g : SumsOf(g, f, SUBSET {}) /\ SumFunctionOnSet(f, {}) = g[{}]
    BY SumUnfold, FS_EmptySet
<1> QED
    BY <1>1 DEF SumsOf

\* A sum of integers is an integer.
LEMMA SumType ==
    ASSUME NEW S, IsFiniteSet(S), NEW f, IntOn(f, S)
    PROVE  SumFunctionOnSet(f, S) \in Int
<1>1. PICK g : SumsOf(g, f, SUBSET S) /\ SumFunctionOnSet(f, S) = g[S]
    BY SumUnfold
<1>2. g[S] \in Int
    BY <1>1, SumsAtAny
<1> QED
    BY <1>1, <1>2

\* Functions that are ordered on a set have ordered sums over its subsets.
LEMMA SumsCompare ==
    ASSUME NEW S, IsFiniteSet(S),
           NEW f, IntOn(f, S), NEW g, SumsOf(g, f, SUBSET S),
           NEW e, IntOn(e, S), NEW h, SumsOf(h, e, SUBSET S),
           \A x \in S : f[x] <= e[x]
    PROVE  \A T \in SUBSET S : g[T] <= h[T]
<1>g. \A T \in SUBSET S : g[T] \in Int /\ \A x \in T : g[T] = f[x] + g[T \ {x}]
    BY SumsAtAny
<1>h. \A T \in SUBSET S : h[T] \in Int /\ \A x \in T : h[T] = e[x] + h[T \ {x}]
    BY SumsAtAny
<1> DEFINE P == {T \in SUBSET S : g[T] <= h[T]}
<1>1. ASSUME NEW T \in SUBSET S, \A V \in SUBSET T : V # T => V \in P
      PROVE  T \in P
    <2>1. CASE T = {}
        BY <2>1 DEF SumsOf
    <2>2. CASE T # {}
        <3>1. PICK x \in T : TRUE
            BY <2>2
        <3>2. g[T] = f[x] + g[T \ {x}] /\ h[T] = e[x] + h[T \ {x}]
            BY <1>g, <1>h, <3>1
        <3>3. g[T \ {x}] \in Int /\ h[T \ {x}] \in Int
            BY <1>g, <1>h
        <3>4. g[T \ {x}] <= h[T \ {x}]
            BY <1>1, <3>1
        <3>5. f[x] \in Int /\ e[x] \in Int /\ f[x] <= e[x]
            BY <3>1 DEF IntOn
        <3> QED
            BY <3>2, <3>3, <3>4, <3>5
    <2> QED
        BY <2>1, <2>2
<1>2. P = SUBSET S
    <2>1. P \in SUBSET SUBSET S
        OBVIOUS
    <2> HIDE DEF P
    <2> QED
        BY <1>1, <2>1, SubsetInductionSet
<1> QED
    BY <1>2

\* Functions that agree on a set have the same sum over it.
LEMMA SumEqual ==
    ASSUME NEW S, IsFiniteSet(S), NEW f, IntOn(f, S), NEW e, IntOn(e, S),
           \A x \in S : f[x] = e[x]
    PROVE  SumFunctionOnSet(f, S) = SumFunctionOnSet(e, S)
<1>1. PICK g : SumsOf(g, f, SUBSET S) /\ SumFunctionOnSet(f, S) = g[S]
    BY SumUnfold
<1>2. PICK h : SumsOf(h, e, SUBSET S) /\ SumFunctionOnSet(e, S) = h[S]
    BY SumUnfold
<1>3. (\A x \in S : f[x] <= e[x]) /\ (\A x \in S : e[x] <= f[x])
    BY DEF IntOn
<1>4. g[S] <= h[S] /\ h[S] <= g[S]
    BY <1>1, <1>2, <1>3, SumsCompare
<1>5. g[S] \in Int /\ h[S] \in Int
    BY <1>1, <1>2, SumType
<1> QED
    BY <1>1, <1>2, <1>4, <1>5

\* Functions that are ordered on a set have ordered sums over it.
LEMMA SumMonotone ==
    ASSUME NEW S, IsFiniteSet(S), NEW f, IntOn(f, S), NEW e, IntOn(e, S),
           \A x \in S : f[x] <= e[x]
    PROVE  SumFunctionOnSet(f, S) <= SumFunctionOnSet(e, S)
<1>1. PICK g : SumsOf(g, f, SUBSET S) /\ SumFunctionOnSet(f, S) = g[S]
    BY SumUnfold
<1>2. PICK h : SumsOf(h, e, SUBSET S) /\ SumFunctionOnSet(e, S) = h[S]
    BY SumUnfold
<1> QED
    BY <1>1, <1>2, SumsCompare

\* Any element may be taken out of a sum.
LEMMA SumRemove ==
    ASSUME NEW S, IsFiniteSet(S), NEW f, IntOn(f, S), NEW x \in S
    PROVE  SumFunctionOnSet(f, S) = f[x] + SumFunctionOnSet(f, S \ {x})
<1> DEFINE T == S \ {x}
<1>1. PICK g : SumsOf(g, f, SUBSET S) /\ SumFunctionOnSet(f, S) = g[S]
    BY SumUnfold
<1>2. IsFiniteSet(T) /\ IntOn(f, T) /\ T \in SUBSET S
    BY FS_Subset DEF IntOn
<1>3. PICK h : SumsOf(h, f, SUBSET T) /\ SumFunctionOnSet(f, T) = h[T]
    BY <1>2, SumUnfold
<1> HIDE DEF T
<1> DEFINE r == [s \in SUBSET T |-> g[s]]
<1>4. SumsOf(r, f, SUBSET T)
    <2>1. \A s \in SUBSET T : s \in SUBSET S /\ (s \ {Pick(s)}) \in SUBSET T
        BY <1>2
    <2>2. \A s \in SUBSET S : g[s] = IF s = {} THEN 0 ELSE f[Pick(s)] + g[s \ {Pick(s)}]
        BY <1>1 DEF SumsOf
    <2>3. \A s \in SUBSET T : r[s] = IF s = {} THEN 0 ELSE f[Pick(s)] + r[s \ {Pick(s)}]
        BY <2>1, <2>2
    <2> QED
        BY <2>3 DEF SumsOf
<1>5. \A y \in T : f[y] <= f[y]
    BY <1>2 DEF IntOn
<1>r. r[T] = g[T]
    OBVIOUS
<1> HIDE DEF r
<1>6. r[T] <= h[T] /\ h[T] <= r[T]
    BY <1>2, <1>3, <1>4, <1>5, SumsCompare
<1>7. r[T] \in Int /\ h[T] \in Int
    BY <1>2, <1>3, <1>4, SumsAtAny
<1>8. g[S] = f[x] + g[S \ {x}]
    BY <1>1, SumsAtAny
<1>9. r[T] = h[T]
    BY <1>6, <1>7
<1> QED
    BY <1>1, <1>3, <1>8, <1>9, <1>r DEF T

-----------------------------------------------------------------------------
(* Sums of all the values of a function. *)

\* The sum of a function to the integers is an integer.
LEMMA TotalType ==
    ASSUME NEW S, IsFiniteSet(S), NEW f \in [S -> Int]
    PROVE  SumFunction(f) \in Int
<1>1. IntOn(f, S) /\ DOMAIN f = S
    BY DEF IntOn
<1> QED
    BY <1>1, SumType DEF SumFunction

\* A larger function has a larger sum.
LEMMA TotalMonotone ==
    ASSUME NEW S, IsFiniteSet(S), NEW f \in [S -> Int], NEW e \in [S -> Int],
           \A x \in S : f[x] <= e[x]
    PROVE  SumFunction(f) <= SumFunction(e)
<1>1. IntOn(f, S) /\ DOMAIN f = S /\ IntOn(e, S) /\ DOMAIN e = S
    BY DEF IntOn
<1> QED
    BY <1>1, SumMonotone DEF SumFunction

\* Changing one value of a function changes its sum by the difference.
LEMMA TotalUpdate ==
    ASSUME NEW S, IsFiniteSet(S), NEW f \in [S -> Int], NEW e \in [S -> Int],
           NEW x \in S, \A y \in S : y # x => e[y] = f[y]
    PROVE  SumFunction(e) = SumFunction(f) + (e[x] - f[x])
<1> DEFINE T == S \ {x}
<1>1. IntOn(f, S) /\ DOMAIN f = S /\ IntOn(e, S) /\ DOMAIN e = S
    BY DEF IntOn
<1>2. IsFiniteSet(T) /\ IntOn(f, T) /\ IntOn(e, T) /\ \A y \in T : e[y] = f[y]
    BY FS_Subset DEF IntOn
<1>3. /\ SumFunctionOnSet(f, S) = f[x] + SumFunctionOnSet(f, T)
      /\ SumFunctionOnSet(e, S) = e[x] + SumFunctionOnSet(e, T)
    BY <1>1, SumRemove
<1> HIDE DEF T
<1>4. SumFunctionOnSet(e, T) = SumFunctionOnSet(f, T)
    BY <1>2, SumEqual
<1>5. SumFunctionOnSet(f, T) \in Int /\ f[x] \in Int /\ e[x] \in Int
    BY <1>2, SumType
<1> QED
    BY <1>1, <1>3, <1>4, <1>5 DEF SumFunction

\* A new value adds itself to the sum.
LEMMA TotalExtend ==
    ASSUME NEW S, IsFiniteSet(S), NEW f \in [S -> Int], NEW x, x \notin S,
           NEW e \in [S \cup {x} -> Int], \A y \in S : e[y] = f[y]
    PROVE  SumFunction(e) = SumFunction(f) + e[x]
<1> DEFINE U == S \cup {x}
<1>1. IntOn(f, S) /\ DOMAIN f = S /\ IntOn(e, S) /\ IntOn(e, U) /\ DOMAIN e = U
    BY DEF IntOn
<1>2. IsFiniteSet(U) /\ x \in U /\ U \ {x} = S
    BY FS_AddElement
<1> HIDE DEF U
<1>3. SumFunctionOnSet(e, U) = e[x] + SumFunctionOnSet(e, S)
    BY <1>1, <1>2, SumRemove
<1>4. SumFunctionOnSet(e, S) = SumFunctionOnSet(f, S)
    BY <1>1, SumEqual
<1>5. SumFunctionOnSet(f, S) \in Int /\ e[x] \in Int
    BY <1>1, <1>2, SumType
<1> QED
    BY <1>1, <1>3, <1>4, <1>5 DEF SumFunction

\* The sum of no values.
LEMMA TotalEmpty ==
    ASSUME NEW f, DOMAIN f = {}
    PROVE  SumFunction(f) = 0
BY SumEmpty DEF SumFunction
=============================================================================
