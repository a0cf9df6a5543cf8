------------------------------- MODULE Sommes -------------------------------
(***************************************************************************)
(* Facts about SumFunctionOnSet(f, S), the sum of f over a finite set: the *)
(* money of several tills, vaults or payments.  They are all proved from   *)
(* one principle: among some subsets of a finite set there is a minimal    *)
(* one, so a property that fails for a subset fails for a minimal one.     *)
(***************************************************************************)
EXTENDS Integers, FiniteSets, Functions, FiniteSetTheorems, WellFoundedInduction, TLAPS

(* The element that the fold takes out of s first.                         *)
Tete(s) == CHOOSE x \in s : TRUE

Reste(s) == s \ {Tete(s)}

(* g gives the sum of f over each set of D.                                *)
SommeSur(g, f, D) == g = [s \in D |-> IF s = {} THEN 0 ELSE f[Tete(s)] + g[Reste(s)]]

(* Among some subsets of a finite set there is a minimal one.              *)
LEMMA Minimal ==
    ASSUME NEW S, IsFiniteSet(S), NEW B \in SUBSET (SUBSET S), B # {}
    PROVE  \E T \in B : \A U \in B : U \subseteq T => U = T
<1>1. IsWellFoundedOn(StrictSubsetOrdering(S), SUBSET S)
    BY FS_StrictSubsetOrderingWellFounded, FS_FiniteSubsetsOfFinite
<1>2. PICK T \in B : \A U \in B : ~(<<U, T>> \in StrictSubsetOrdering(S))
    BY <1>1, WFMin
<1> QED BY <1>2 DEF StrictSubsetOrdering

(* Among some natural numbers there is a least one.                        *)
LEMMA PlusPetit ==
    ASSUME NEW B \in SUBSET Nat, B # {}
    PROVE  \E n \in B : \A m \in B : n <= m
<1>1. PICK n \in B : TRUE
    OBVIOUS
<1> DEFINE S == 1..n
           I == {T \in SUBSET S : \E k \in B : T = 1..k}
<1>2. /\ IsFiniteSet(S)
      /\ I \in SUBSET (SUBSET S)
      /\ S \in I
    BY <1>1, FS_Interval
<1>3. PICK T \in I : \A U \in I : U \subseteq T => U = T
    <2> HIDE DEF I, S
    <2> QED BY <1>2, Minimal
<1>4. PICK k \in B : T = 1..k
    BY <1>3
<1>5. ASSUME NEW m \in B, m < k
      PROVE  FALSE
    <2>1. 1..m \subseteq T /\ T \subseteq S /\ k \in T
        BY <1>3, <1>4, <1>5
    <2>2. 1..m = T
        BY <2>1, <1>3
    <2> QED BY <2>1, <2>2, <1>5
<1> QED BY <1>5

(* Taking the first element out leaves a smaller set.                      *)
LEMMA TeteDedans ==
    ASSUME NEW s, s # {}
    PROVE  Tete(s) \in s /\ Reste(s) \subseteq s /\ Reste(s) # s /\ s = Reste(s) \cup {Tete(s)}
BY DEF Tete, Reste

-----------------------------------------------------------------------------
(***************************************************************************)
(* The recursive definition of the sum defines something.                  *)
(***************************************************************************)
Tailles(S, n) == {s \in SUBSET S : Cardinality(s) <= n}

(* Over the subsets of a finite set a function with this recursion exists, *)
(* since it does for the subsets of each size.                             *)
LEMMA SommeExiste ==
    ASSUME NEW f, NEW S, IsFiniteSet(S)
    PROVE  \E g : SommeSur(g, f, SUBSET S)
<1> DEFINE B == {n \in Nat : ~ \E g : SommeSur(g, f, Tailles(S, n))}
<1>1. \A s \in SUBSET S : IsFiniteSet(s) /\ Cardinality(s) \in Nat /\ Cardinality(s) <= Cardinality(S)
    BY FS_Subset, FS_CardinalityType
<1>2. B = {}
    <2> SUFFICES ASSUME B # {}
                 PROVE  FALSE
        OBVIOUS
    <2>1. PICK n \in B : \A m \in B : n <= m
        BY PlusPetit
    <2>2. \E g : SommeSur(g, f, Tailles(S, n))
        <3>1. CASE n = 0
            <4>1. Tailles(S, n) = {{}}
                BY <1>1, <3>1, FS_EmptySet DEF Tailles
            <4> DEFINE g == [s \in Tailles(S, n) |-> 0]
            <4>2. SommeSur(g, f, Tailles(S, n))
                BY <4>1 DEF SommeSur
            <4> QED BY <4>2
        <3>2. CASE n # 0
            <4>1. n - 1 \in Nat /\ n - 1 \notin B
                BY <2>1, <3>2
            <4>2. PICK h : SommeSur(h, f, Tailles(S, n - 1))
                BY <4>1
            <4> DEFINE g == [s \in Tailles(S, n) |->
                                IF s = {} THEN 0 ELSE f[Tete(s)] + h[Reste(s)]]
            <4>3. ASSUME NEW s \in Tailles(S, n - 1)
                  PROVE  s \in Tailles(S, n) /\ g[s] = h[s]
                <5>1. s \in Tailles(S, n)
                    BY <1>1, <4>1 DEF Tailles
                <5> QED BY <5>1, <4>2 DEF SommeSur
            <4>4. ASSUME NEW s \in Tailles(S, n), s # {}
                  PROVE  Reste(s) \in Tailles(S, n - 1)
                <5>1. Reste(s) \in SUBSET S /\ Cardinality(Reste(s)) = Cardinality(s) - 1
                    BY <4>4, <1>1, TeteDedans, FS_RemoveElement DEF Tailles, Reste
                <5> QED BY <5>1, <1>1, <4>1 DEF Tailles
            <4>5. SommeSur(g, f, Tailles(S, n))
                BY <4>3, <4>4 DEF SommeSur
            <4> QED BY <4>5
        <3> QED BY <3>1, <3>2
    <2> QED BY <2>2
<1>3. Tailles(S, Cardinality(S)) = SUBSET S
    BY <1>1 DEF Tailles
<1>4. Cardinality(S) \in Nat /\ Cardinality(S) \notin B
    BY <1>2, FS_CardinalityType
<1> QED BY <1>3, <1>4
-----------------------------------------------------------------------------
(***************************************************************************)
(* The sum.                                                                *)
(***************************************************************************)
LEMMA SommeChoisie ==
    ASSUME NEW f, NEW S
    PROVE  SumFunctionOnSet(f, S) = (CHOOSE g : SommeSur(g, f, SUBSET S))[S]
BY Zenon DEF SumFunctionOnSet, FoldFunctionOnSet, MapThenFoldSet, SommeSur, Tete, Reste

(* Whatever sets it was computed on, the sum over T of functions that     *)
(* agree on T is the same.                                                 *)
LEMMA SommeUnique ==
    ASSUME NEW f1, NEW f2, NEW S, IsFiniteSet(S), NEW T \in SUBSET S,
           \A x \in T : f1[x] = f2[x],
           NEW g, SommeSur(g, f1, SUBSET S)
    PROVE  SumFunctionOnSet(f2, T) = g[T]
<1>1. IsFiniteSet(T)
    BY FS_Subset
<1>2. PICK h : SommeSur(h, f2, SUBSET T) /\ SumFunctionOnSet(f2, T) = h[T]
    BY <1>1, SommeExiste, SommeChoisie
<1> DEFINE B == {U \in SUBSET T : g[U] # h[U]}
<1>3. ASSUME B # {}
      PROVE  FALSE
    <2>1. B \in SUBSET (SUBSET T)
        OBVIOUS
    <2>2. PICK U \in B : \A V \in B : V \subseteq U => V = U
        <3> HIDE DEF B
        <3> QED BY <1>1, <1>3, <2>1, Minimal
    <2>3. U # {}
        BY <1>2 DEF SommeSur
    <2>4. Reste(U) \notin B /\ Reste(U) \in SUBSET T /\ Tete(U) \in T
        BY <2>2, <2>3, TeteDedans
    <2>5. g[U] = f1[Tete(U)] + g[Reste(U)] /\ h[U] = f2[Tete(U)] + h[Reste(U)]
        BY <1>2, <2>3 DEF SommeSur
    <2> QED BY <2>4, <2>5
<1> QED BY <1>2, <1>3

(* A sum depends on the values of the function on the set only.            *)
LEMMA SommePareille ==
    ASSUME NEW f1, NEW f2, NEW S, IsFiniteSet(S), \A x \in S : f1[x] = f2[x]
    PROVE  SumFunctionOnSet(f1, S) = SumFunctionOnSet(f2, S)
<1>1. PICK g : SommeSur(g, f1, SUBSET S)
    BY SommeExiste
<1> QED BY <1>1, SommeUnique

(* The sum over the empty set.                                             *)
LEMMA SommeVide == ASSUME NEW f PROVE SumFunctionOnSet(f, {}) = 0
<1>1. PICK g : SommeSur(g, f, SUBSET {})
    BY SommeExiste, FS_EmptySet
<1>2. SumFunctionOnSet(f, {}) = g[{}]
    BY <1>1, SommeUnique, FS_EmptySet
<1> QED BY <1>1, <1>2 DEF SommeSur

(* The sum is the first value and the sum of the rest.                     *)
LEMMA SommeTete ==
    ASSUME NEW f, NEW S, IsFiniteSet(S), S # {}
    PROVE  SumFunctionOnSet(f, S) = f[Tete(S)] + SumFunctionOnSet(f, Reste(S))
<1>1. PICK g : SommeSur(g, f, SUBSET S)
    BY SommeExiste
<1>2. Reste(S) \in SUBSET S
    BY TeteDedans
<1>3. SumFunctionOnSet(f, S) = g[S] /\ SumFunctionOnSet(f, Reste(S)) = g[Reste(S)]
    BY <1>1, <1>2, SommeUnique
<1> QED BY <1>1, <1>3 DEF SommeSur

(* A sum of integers is an integer.                                        *)
LEMMA SommeType ==
    ASSUME NEW f, NEW S, IsFiniteSet(S), \A x \in S : f[x] \in Int
    PROVE  SumFunctionOnSet(f, S) \in Int
<1> DEFINE B == {T \in SUBSET S : SumFunctionOnSet(f, T) \notin Int}
<1> SUFFICES ASSUME B # {}
             PROVE  FALSE
    OBVIOUS
<1>0. B \in SUBSET (SUBSET S)
    OBVIOUS
<1>1. PICK T \in B : \A U \in B : U \subseteq T => U = T
    <2> HIDE DEF B
    <2> QED BY <1>0, Minimal
<1>2. T # {} /\ IsFiniteSet(T)
    <2>1. SumFunctionOnSet(f, T) # 0 /\ T \in SUBSET S
        BY <1>1
    <2> QED BY <2>1, SommeVide, FS_Subset
<1>3. Reste(T) \notin B /\ Reste(T) \in SUBSET S /\ Tete(T) \in S
    BY <1>1, <1>2, TeteDedans
<1> QED BY <1>2, <1>3, SommeTete

(* A sum of naturals is a natural.                                         *)
LEMMA SommeNaturelle ==
    ASSUME NEW f, NEW S, IsFiniteSet(S), \A x \in S : f[x] \in Nat
    PROVE  SumFunctionOnSet(f, S) \in Nat
<1> DEFINE B == {T \in SUBSET S : SumFunctionOnSet(f, T) \notin Nat}
<1> SUFFICES ASSUME B # {}
             PROVE  FALSE
    OBVIOUS
<1>0. B \in SUBSET (SUBSET S)
    OBVIOUS
<1>1. PICK T \in B : \A U \in B : U \subseteq T => U = T
    <2> HIDE DEF B
    <2> QED BY <1>0, Minimal
<1>2. T # {} /\ IsFiniteSet(T)
    <2>1. SumFunctionOnSet(f, T) # 0 /\ T \in SUBSET S
        BY <1>1
    <2> QED BY <2>1, SommeVide, FS_Subset
<1>3. Reste(T) \notin B /\ Reste(T) \in SUBSET S /\ Tete(T) \in S
    BY <1>1, <1>2, TeteDedans
<1> QED BY <1>2, <1>3, SommeTete

(* The order in which the fold takes the elements does not matter.         *)
LEMMA SommeAjout ==
    ASSUME NEW f, NEW S, IsFiniteSet(S), NEW x, x \notin S, \A y \in S \cup {x} : f[y] \in Int
    PROVE  SumFunctionOnSet(f, S \cup {x}) = SumFunctionOnSet(f, S) + f[x]
<1> DEFINE E == S \cup {x}
           Somme(T) == SumFunctionOnSet(f, T)
           B == {T \in SUBSET E : \E y \in E \ T : Somme(T \cup {y}) # Somme(T) + f[y]}
<1>0. IsFiniteSet(E)
    BY FS_AddElement
<1> SUFFICES ASSUME B # {}
             PROVE  FALSE
    OBVIOUS
<1>a. B \in SUBSET (SUBSET E)
    OBVIOUS
<1>1. PICK T \in B : \A U \in B : U \subseteq T => U = T
    <2> HIDE DEF B
    <2> QED BY <1>0, <1>a, Minimal
<1>2. PICK y \in E \ T : Somme(T \cup {y}) # Somme(T) + f[y]
    BY <1>1
<1> DEFINE Ty == T \cup {y}
           z == Tete(Ty)
           U == T \ {z}
<1>3. IsFiniteSet(T) /\ IsFiniteSet(Ty) /\ IsFiniteSet(U)
    BY <1>0, FS_Subset, FS_AddElement
<1>4. z \in Ty /\ Somme(Ty) = f[z] + Somme(Ty \ {z})
    BY <1>3, SommeTete, TeteDedans DEF Reste
<1>5. Somme(T) \in Int /\ Somme(U) \in Int /\ f[y] \in Int /\ f[z] \in Int
    BY <1>3, <1>4, SommeType
<1>6. z # y
    <2> SUFFICES ASSUME z = y
                 PROVE  FALSE
        OBVIOUS
    <2>1. Ty \ {z} = T
        OBVIOUS
    <2>2. Somme(T \cup {y}) = f[y] + Somme(T)
        BY <2>1, <1>4
    <2> HIDE DEF Somme
    <2> QED BY <2>2, <1>2, <1>5
<1>7. U \notin B /\ U \in SUBSET E /\ z \in T
    BY <1>1, <1>4, <1>6
<1>8. Ty \ {z} = U \cup {y} /\ T = U \cup {z}
    BY <1>6, <1>7
<1>9. Somme(U \cup {y}) = Somme(U) + f[y] /\ Somme(U \cup {z}) = Somme(U) + f[z]
    BY <1>7, <1>2
<1> HIDE DEF z, U, Ty
<1> QED BY <1>2, <1>4, <1>5, <1>8, <1>9 DEF Ty

(* A function is extended by one value.                                    *)
LEMMA SommeEtendue ==
    ASSUME NEW S, IsFiniteSet(S), NEW x, x \notin S,
           NEW g, DOMAIN g = S, NEW f, DOMAIN f = S \cup {x},
           \A y \in S : f[y] = g[y], \A y \in S \cup {x} : f[y] \in Int
    PROVE  SumFunction(f) = SumFunction(g) + f[x]
<1>1. SumFunctionOnSet(f, S \cup {x}) = SumFunctionOnSet(f, S) + f[x]
    BY SommeAjout
<1>2. SumFunctionOnSet(f, S) = SumFunctionOnSet(g, S)
    BY SommePareille
<1> QED BY <1>1, <1>2 DEF SumFunction

(* A single value.                                                         *)
LEMMA SommeSeule ==
    ASSUME NEW f, NEW x, DOMAIN f = {x}, f[x] \in Int
    PROVE  SumFunction(f) = f[x]
<1> DEFINE S == {}
<1>1. IsFiniteSet(S) /\ x \notin S /\ S \cup {x} = {x} /\ \A y \in S \cup {x} : f[y] \in Int
    BY FS_EmptySet
<1>2. SumFunctionOnSet(f, S) = 0
    BY SommeVide
<1> HIDE DEF S
<1>3. SumFunctionOnSet(f, S \cup {x}) = SumFunctionOnSet(f, S) + f[x]
    BY <1>1, SommeAjout
<1> QED
    BY <1>1, <1>2, <1>3 DEF SumFunction

(* One value changes: the sum changes as much.                             *)
LEMMA SommeModifiee ==
    ASSUME NEW f1, NEW f2, NEW S, IsFiniteSet(S), NEW x \in S,
           \A y \in S : f1[y] \in Int /\ f2[y] \in Int,
           \A y \in S \ {x} : f2[y] = f1[y]
    PROVE  SumFunctionOnSet(f2, S) = SumFunctionOnSet(f1, S) + (f2[x] - f1[x])
<1> DEFINE U == S \ {x}
<1>1. IsFiniteSet(U) /\ S = U \cup {x} /\ x \notin U /\ \A y \in U \cup {x} : f1[y] \in Int /\ f2[y] \in Int
    BY FS_Subset
<1>2. SumFunctionOnSet(f1, U) = SumFunctionOnSet(f2, U) /\ SumFunctionOnSet(f1, U) \in Int
    BY <1>1, SommePareille, SommeType
<1>3. /\ SumFunctionOnSet(f1, U \cup {x}) = SumFunctionOnSet(f1, U) + f1[x]
      /\ SumFunctionOnSet(f2, U \cup {x}) = SumFunctionOnSet(f2, U) + f2[x]
    <2> HIDE DEF U
    <2> QED BY <1>1, SommeAjout
<1>4. f1[x] \in Int /\ f2[x] \in Int
    OBVIOUS
<1> HIDE DEF U
<1> QED BY <1>1, <1>2, <1>3, <1>4

(* d is added to one value.                                                *)
LEMMA SommeAugmentee ==
    ASSUME NEW S, IsFiniteSet(S), NEW f \in [S -> Int], NEW x \in S, NEW d \in Int
    PROVE  SumFunctionOnSet([f EXCEPT ![x] = @ + d], S) = SumFunctionOnSet(f, S) + d
<1> DEFINE g == [f EXCEPT ![x] = @ + d]
<1>1. /\ \A y \in S : f[y] \in Int /\ g[y] \in Int
      /\ \A y \in S \ {x} : g[y] = f[y]
      /\ g[x] - f[x] = d
    OBVIOUS
<1> HIDE DEF g
<1>2. SumFunctionOnSet(g, S) = SumFunctionOnSet(f, S) + (g[x] - f[x])
    BY <1>1, SommeModifiee
<1> QED BY <1>1, <1>2 DEF g

(* The same balance n for every element.                                   *)
LEMMA SommeConstante ==
    ASSUME NEW S, IsFiniteSet(S), NEW n \in Int, NEW f, \A x \in S : f[x] = n
    PROVE  SumFunctionOnSet(f, S) = Cardinality(S) * n
<1> DEFINE B == {T \in SUBSET S : SumFunctionOnSet(f, T) # Cardinality(T) * n}
<1> SUFFICES ASSUME B # {}
             PROVE  FALSE
    OBVIOUS
<1>0. B \in SUBSET (SUBSET S)
    OBVIOUS
<1>1. PICK T \in B : \A U \in B : U \subseteq T => U = T
    <2> HIDE DEF B
    <2> QED BY <1>0, Minimal
<1>2. T \in SUBSET S /\ IsFiniteSet(T) /\ SumFunctionOnSet(f, T) # Cardinality(T) * n
    BY <1>1, FS_Subset
<1>3. T # {}
    BY <1>2, SommeVide, FS_EmptySet
<1>4. Reste(T) \notin B /\ Reste(T) \in SUBSET S /\ Tete(T) \in S
    BY <1>1, <1>2, <1>3, TeteDedans
<1>5. Cardinality(T) \in Nat /\ Cardinality(Reste(T)) = Cardinality(T) - 1
    BY <1>2, <1>3, TeteDedans, FS_CardinalityType, FS_RemoveElement DEF Reste
<1>6. SumFunctionOnSet(f, T) = n + (Cardinality(T) - 1) * n
    BY <1>2, <1>3, <1>4, <1>5, SommeTete
<1> HIDE DEF B
<1> QED BY <1>2, <1>5, <1>6

=============================================================================
