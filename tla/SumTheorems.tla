----------------------------- MODULE SumTheorems -----------------------------
(***************************************************************************)
(* The facts about sums over finite sets that the proofs of the trackers   *)
(* rest on.  MapThenSumSet of the community modules folds over a recursive *)
(* function; what it returns is proved here once, by induction on the set  *)
(* in the form of a smallest counterexample (WFMin over the strict subset  *)
(* ordering), and cited by name elsewhere.                                 *)
(***************************************************************************)
EXTENDS Integers, FiniteSets, FiniteSetsExt, FiniteSetTheorems,
        WellFoundedInduction, TLAPS

(* The sum of the weights of the elements of S.                            *)
SumOver(w, S) == MapThenSumSet(LAMBDA x : w[x], S)

Weighs(w, S) == \A x \in S : w[x] \in Nat

(* g gives the sum of the weights of every subset of S.                    *)
Adds(g, w, S) ==
    /\ g \in [SUBSET S -> Nat]
    /\ g[{}] = 0
    /\ \A T \in SUBSET S : \A x \in T : g[T] = w[x] + g[T \ {x}]

Chosen(s) == CHOOSE x \in s : TRUE

(* f satisfies the recursion by which MapThenSumSet is defined.            *)
Iterates(f, w, S) ==
    f = [s \in SUBSET S |->
           IF s = {} THEN 0 ELSE w[Chosen(s)] + f[s \ {Chosen(s)}]]

-----------------------------------------------------------------------------
(* A set of finite sets that is not empty has a smallest element.          *)
LEMMA SmallestSet ==
    ASSUME NEW S, IsFiniteSet(S), NEW Q, Q \subseteq SUBSET S, Q # {}
    PROVE  \E T \in Q : \A U \in Q : U \subseteq T => U = T
<1>1. IsWellFoundedOn(StrictSubsetOrdering(S), SUBSET S)
    BY FS_StrictSubsetOrderingWellFounded, FS_FiniteSubsetsOfFinite
<1>2. PICK T \in Q : \A U \in Q : ~(<<U, T>> \in StrictSubsetOrdering(S))
    BY <1>1, WFMin
<1>3. ASSUME NEW U \in Q, U \subseteq T PROVE U = T
    <2>1. <<U, T>> \in (SUBSET S) \X (SUBSET S)
        OBVIOUS
    <2>2. U # T => <<U, T>> \in StrictSubsetOrdering(S)
        BY <1>3, <2>1 DEF StrictSubsetOrdering
    <2> QED
        BY <1>2, <2>2
<1> QED
    BY <1>2, <1>3

(* The sums of all subsets exist: adding one element to the set doubles    *)
(* their number and adds its weight to the new ones.                       *)
LEMMA SumsExist ==
    ASSUME NEW S, IsFiniteSet(S), NEW w, Weighs(w, S)
    PROVE  \E g : Adds(g, w, S)
<1> DEFINE Q == {T \in SUBSET S : ~ \E g : Adds(g, w, T)}
<1> SUFFICES ASSUME Q # {} PROVE FALSE
    OBVIOUS
<1>1. PICK T \in Q : \A U \in Q : U \subseteq T => U = T
    <2>1. Q \subseteq SUBSET S
        OBVIOUS
    <2> HIDE DEF Q
    <2> QED
        BY <2>1, SmallestSet
<1>2. T # {}
    <2> SUFFICES Adds([s \in SUBSET {} |-> 0], w, {})
        BY <1>1
    <2> QED
        BY DEF Adds
<1>3. PICK x \in T : TRUE
    BY <1>2
<1>4. PICK g : Adds(g, w, T \ {x})
    BY <1>1
<1> DEFINE h == [s \in SUBSET T |->
                   IF x \in s THEN w[x] + g[s \ {x}] ELSE g[s]]
<1>5. Adds(h, w, T)
    <2>1. w[x] \in Nat
        BY DEF Weighs
    <2>2. h \in [SUBSET T -> Nat]
        <3>1. ASSUME NEW s \in SUBSET T
              PROVE  (IF x \in s THEN w[x] + g[s \ {x}] ELSE g[s]) \in Nat
            <4>1. CASE x \in s
                <5>1. s \ {x} \in SUBSET (T \ {x})
                    OBVIOUS
                <5>2. g[s \ {x}] \in Nat
                    BY <1>4, <5>1 DEF Adds
                <5> QED
                    BY <2>1, <4>1, <5>2
            <4>2. CASE x \notin s
                BY <1>4, <4>2 DEF Adds
            <4> QED
                BY <4>1, <4>2
        <3> QED
            BY <3>1
    <2>3. h[{}] = 0
        BY <1>4 DEF Adds
    <2>4. ASSUME NEW s \in SUBSET T, NEW y \in s
          PROVE  h[s] = w[y] + h[s \ {y}]
        <3>1. CASE y = x
            BY <2>4, <3>1
        <3>2. CASE y # x /\ x \notin s
            <4>1. s \in SUBSET (T \ {x}) /\ s \ {y} \in SUBSET T
                BY <3>2
            <4>2. g[s] = w[y] + g[s \ {y}]
                BY <1>4, <4>1 DEF Adds
            <4> QED
                BY <3>2, <4>1, <4>2
        <3>3. CASE y # x /\ x \in s
            <4>1. /\ s \ {x} \in SUBSET (T \ {x}) /\ y \in s \ {x}
                  /\ s \ {y} \in SUBSET T /\ x \in s \ {y}
                  /\ (s \ {x}) \ {y} = (s \ {y}) \ {x}
                  /\ (s \ {y}) \ {x} \in SUBSET (T \ {x})
                BY <3>3
            <4>2. g[s \ {x}] = w[y] + g[(s \ {x}) \ {y}]
                BY <1>4, <4>1 DEF Adds
            <4>3. h[s] = w[x] + g[s \ {x}]
                BY <3>3
            <4>4. h[s \ {y}] = w[x] + g[(s \ {y}) \ {x}]
                BY <4>1
            <4>5. g[(s \ {y}) \ {x}] \in Nat /\ w[y] \in Nat
                BY <1>4, <4>1 DEF Adds, Weighs
            <4>6. g[(s \ {x}) \ {y}] = g[(s \ {y}) \ {x}]
                BY <4>1
            <4> HIDE DEF h
            <4> QED
                BY <2>1, <4>2, <4>3, <4>4, <4>5, <4>6
        <3> QED
            BY <3>1, <3>2, <3>3
    <2> HIDE DEF h
    <2> QED
        BY <2>2, <2>3, <2>4 DEF Adds
<1> QED
    BY <1>1, <1>5

(* What satisfies the recursion gives the sums.                            *)
LEMMA IteratesSums ==
    ASSUME NEW S, IsFiniteSet(S), NEW w, NEW g, Adds(g, w, S),
           NEW f, Iterates(f, w, S)
    PROVE  f[S] = g[S]
<1> DEFINE Q == {T \in SUBSET S : f[T] # g[T]}
<1> SUFFICES ASSUME Q # {} PROVE FALSE
    OBVIOUS
<1>1. PICK T \in Q : \A U \in Q : U \subseteq T => U = T
    <2>1. Q \subseteq SUBSET S
        OBVIOUS
    <2> HIDE DEF Q
    <2> QED
        BY <2>1, SmallestSet
<1>2. \A s \in SUBSET S :
          f[s] = IF s = {} THEN 0 ELSE w[Chosen(s)] + f[s \ {Chosen(s)}]
    BY DEF Iterates
<1>3. T # {}
    <2>1. f[{}] = 0 /\ g[{}] = 0
        BY <1>2 DEF Adds
    <2> QED
        BY <1>1, <2>1
<1>4. Chosen(T) \in T
    BY <1>3 DEF Chosen
<1>5. T \ {Chosen(T)} \in SUBSET S /\ T \ {Chosen(T)} # T
    BY <1>4
<1>6. f[T \ {Chosen(T)}] = g[T \ {Chosen(T)}]
    BY <1>1, <1>5
<1>7. g[T] = w[Chosen(T)] + g[T \ {Chosen(T)}]
    BY <1>4 DEF Adds
<1> QED
    BY <1>1, <1>2, <1>3, <1>6, <1>7

(* The function that MapThenSumSet chooses satisfies the recursion.        *)
LEMMA SumIterates ==
    ASSUME NEW S, NEW w, NEW g, Iterates(g, w, S)
    PROVE  \E f : Iterates(f, w, S) /\ SumOver(w, S) = f[S]
<1> DEFINE iter == CHOOSE f : Iterates(f, w, S)
<1>1. Iterates(iter, w, S)
    OBVIOUS
<1>2. SumOver(w, S) = iter[S]
    BY DEF SumOver, MapThenSumSet, MapThenFoldSet, Iterates, Chosen
<1> QED
    BY <1>1, <1>2

(* The sums of a set are those of the recursion.                           *)
LEMMA SumsIterate ==
    ASSUME NEW S, NEW w, NEW g, Adds(g, w, S)
    PROVE  Iterates(g, w, S)
<1> DEFINE h == [s \in SUBSET S |->
                   IF s = {} THEN 0 ELSE w[Chosen(s)] + g[s \ {Chosen(s)}]]
<1>1. g \in [SUBSET S -> Nat]
    BY DEF Adds
<1>2. ASSUME NEW s \in SUBSET S PROVE g[s] = h[s]
    <2>1. CASE s = {}
        BY <2>1 DEF Adds
    <2>2. CASE s # {}
        <3>1. Chosen(s) \in s
            BY <2>2 DEF Chosen
        <3> QED
            BY <2>2, <3>1 DEF Adds
    <2> QED
        BY <2>1, <2>2
<1>3. g = h
    BY <1>1, <1>2
<1> QED
    BY <1>3 DEF Iterates

(* SumOver is the sum, for the set and for each of its subsets.            *)
LEMMA SumsOfSubsets ==
    ASSUME NEW S, IsFiniteSet(S), NEW w, NEW g, Adds(g, w, S),
           NEW T \in SUBSET S
    PROVE  SumOver(w, T) = g[T]
<1> DEFINE h == [s \in SUBSET T |-> g[s]]
<1>1. Adds(h, w, T)
    <2>1. h \in [SUBSET T -> Nat] /\ h[{}] = 0
        BY DEF Adds
    <2>2. ASSUME NEW s \in SUBSET T, NEW x \in s
          PROVE  h[s] = w[x] + h[s \ {x}]
        BY DEF Adds
    <2> HIDE DEF h
    <2> QED
        BY <2>1, <2>2 DEF Adds
<1> HIDE DEF h
<1>2. Iterates(h, w, T)
    BY <1>1, SumsIterate
<1>3. PICK f : Iterates(f, w, T) /\ SumOver(w, T) = f[T]
    BY <1>2, SumIterates
<1>4. IsFiniteSet(T)
    BY FS_Subset
<1>5. f[T] = h[T]
    BY <1>1, <1>3, <1>4, IteratesSums
<1> QED
    BY <1>3, <1>5 DEF h

-----------------------------------------------------------------------------
(* A sum is a natural number, the empty one zero, and every element of the *)
(* set contributes its weight to it.                                       *)
LEMMA SumOfSet ==
    ASSUME NEW S, IsFiniteSet(S), NEW w, Weighs(w, S)
    PROVE  /\ SumOver(w, S) \in Nat
           /\ SumOver(w, {}) = 0
           /\ \A x \in S : SumOver(w, S) = w[x] + SumOver(w, S \ {x})
<1>1. PICK g : Adds(g, w, S)
    BY SumsExist
<1>2. \A T \in SUBSET S : SumOver(w, T) = g[T]
    BY <1>1, SumsOfSubsets
<1> QED
    BY <1>1, <1>2 DEF Adds

(* A sum over more elements is no smaller.                                 *)
LEMMA SumMonotone ==
    ASSUME NEW S, IsFiniteSet(S), NEW w, Weighs(w, S), NEW T \in SUBSET S
    PROVE  SumOver(w, T) <= SumOver(w, S)
<1> DEFINE Q == {U \in SUBSET S : T \subseteq U /\ ~(SumOver(w, T) <= SumOver(w, U))}
<1> SUFFICES ASSUME Q # {} PROVE FALSE
    OBVIOUS
<1>1. PICK U \in Q : \A V \in Q : V \subseteq U => V = U
    <2>1. Q \subseteq SUBSET S
        OBVIOUS
    <2> HIDE DEF Q
    <2> QED
        BY <2>1, SmallestSet
<1>2. /\ IsFiniteSet(U) /\ Weighs(w, U)
      /\ IsFiniteSet(T) /\ Weighs(w, T)
    BY FS_Subset DEF Weighs
<1>3. SumOver(w, T) \in Nat
    BY <1>2, SumOfSet
<1>4. PICK x \in U : x \notin T
    <2>1. T \subseteq U /\ SumOver(w, T) # SumOver(w, U)
        BY <1>1, <1>3
    <2> QED
        BY <2>1
<1>5. SumOver(w, T) <= SumOver(w, U \ {x})
    BY <1>1, <1>4
<1>6. /\ SumOver(w, U) = w[x] + SumOver(w, U \ {x})
      /\ SumOver(w, U) \in Nat
    BY <1>2, SumOfSet
<1>7. SumOver(w, U \ {x}) \in Nat
    <2>1. IsFiniteSet(U \ {x}) /\ Weighs(w, U \ {x})
        BY <1>2, FS_Subset DEF Weighs
    <2> QED
        BY <2>1, SumOfSet
<1>8. w[x] \in Nat
    BY DEF Weighs
<1> QED
    BY <1>1, <1>3, <1>5, <1>6, <1>7, <1>8

(* A sum depends on the weights of its elements alone.                     *)
LEMMA SumSame ==
    ASSUME NEW S, IsFiniteSet(S), NEW w, Weighs(w, S),
           NEW v, \A x \in S : v[x] = w[x]
    PROVE  SumOver(v, S) = SumOver(w, S)
<1>1. PICK g : Adds(g, w, S)
    BY SumsExist
<1>2. Adds(g, v, S)
    BY <1>1 DEF Adds
<1> QED
    BY <1>1, <1>2, SumsOfSubsets

(* A sum over a set with one more element.                                 *)
LEMMA SumAdd ==
    ASSUME NEW S, IsFiniteSet(S), NEW x, x \notin S,
           NEW w, Weighs(w, S \cup {x})
    PROVE  SumOver(w, S \cup {x}) = SumOver(w, S) + w[x]
<1>1. IsFiniteSet(S \cup {x})
    BY FS_AddElement
<1>2. (S \cup {x}) \ {x} = S
    OBVIOUS
<1>3. SumOver(w, S \cup {x}) = w[x] + SumOver(w, S)
    BY <1>1, <1>2, SumOfSet
<1>4. w[x] \in Nat /\ SumOver(w, S) \in Nat
    BY SumOfSet DEF Weighs
<1> QED
    BY <1>3, <1>4

-----------------------------------------------------------------------------
(* A set of natural numbers that has a bound has a largest element.        *)
LEMMA LargestNumber ==
    ASSUME NEW Q \in SUBSET Nat, Q # {}, NEW n \in Nat, \A m \in Q : m <= n
    PROVE  \E m \in Q : \A k \in Q : k <= m
<1> DEFINE R == {d \in Nat : n - d \in Q}
           Below == {ss \in Nat \X Nat : ss[1] < ss[2]}
<1>1. R \subseteq Nat /\ R # {}
    <2>1. PICK m \in Q : TRUE
        OBVIOUS
    <2>2. n - m \in Nat /\ n - (n - m) = m
        OBVIOUS
    <2> QED
        BY <2>2
<1>2. Below = OpToRel(<, Nat)
    BY Zenon DEF OpToRel
<1>3. PICK d \in R : \A e \in R : <<e, d>> \notin Below
    <2> HIDE DEF R, Below
    <2> QED
        BY <1>1, <1>2, WFMin, NatLessThanWellFounded
<1>4. ASSUME NEW k \in Q PROVE k <= n - d
    <2>1. n - k \in Nat /\ n - (n - k) = k /\ d \in Nat
        OBVIOUS
    <2>2. n - k \in R
        BY <2>1
    <2>3. n - k < d => <<n - k, d>> \in Below
        BY <2>1, SMTT(30)
    <2>4. ~(n - k < d)
        <3> HIDE DEF R, Below
        <3> QED
            BY <1>3, <2>2, <2>3
    <2> QED
        BY <2>1, <2>4
<1>5. n - d \in Q
    OBVIOUS
<1> QED
    BY <1>4, <1>5

-----------------------------------------------------------------------------
(* Of two weights the sum of the smaller is no larger.                     *)
LEMMA SumOfSmaller ==
    ASSUME NEW S, IsFiniteSet(S), NEW v, NEW w, Weighs(v, S), Weighs(w, S),
           \A x \in S : v[x] <= w[x]
    PROVE  SumOver(v, S) <= SumOver(w, S)
<1> DEFINE Q == {U \in SUBSET S : ~(SumOver(v, U) <= SumOver(w, U))}
<1> SUFFICES ASSUME Q # {} PROVE FALSE
    OBVIOUS
<1>1. PICK U \in Q : \A V \in Q : V \subseteq U => V = U
    <2>1. Q \subseteq SUBSET S
        OBVIOUS
    <2> HIDE DEF Q
    <2> QED
        BY <2>1, SmallestSet
<1>2. IsFiniteSet(U) /\ Weighs(v, U) /\ Weighs(w, U)
    BY <1>1, FS_Subset DEF Weighs
<1>3. U # {}
    <2>1. SumOver(v, {}) = 0 /\ SumOver(w, {}) = 0
        BY <1>2, SumOfSet
    <2>2. ~(SumOver(v, U) <= SumOver(w, U))
        BY <1>1
    <2>3. SumOver(v, {}) <= SumOver(w, {})
        BY <2>1
    <2> QED
        BY <2>2, <2>3
<1>4. PICK x \in U : TRUE
    BY <1>3
<1>5. IsFiniteSet(U \ {x}) /\ Weighs(v, U \ {x}) /\ Weighs(w, U \ {x})
    BY <1>2, FS_Subset DEF Weighs
<1>6. SumOver(v, U \ {x}) <= SumOver(w, U \ {x})
    BY <1>1, <1>4
<1>7. /\ SumOver(v, U) = v[x] + SumOver(v, U \ {x})
      /\ SumOver(w, U) = w[x] + SumOver(w, U \ {x})
    BY <1>2, SumOfSet
<1>8. /\ SumOver(v, U \ {x}) \in Nat /\ SumOver(w, U \ {x}) \in Nat
      /\ v[x] \in Nat /\ w[x] \in Nat /\ v[x] <= w[x]
    BY <1>2, <1>5, SumOfSet DEF Weighs
<1>9. SumOver(v, U) <= SumOver(w, U)
    BY <1>6, <1>7, <1>8
<1> QED
    BY <1>1, <1>9

(* The elements of S of each class.                                        *)
Sizes(S, class, C) == [c \in C |-> Cardinality({e \in S : class[e] = c})]

(* The sizes of the classes add up to the size of the set.                 *)
LEMMA SumOfClasses ==
    ASSUME NEW S, IsFiniteSet(S), NEW C, IsFiniteSet(C), NEW class,
           \A e \in S : class[e] \in C
    PROVE  /\ Weighs(Sizes(S, class, C), C)
           /\ SumOver(Sizes(S, class, C), C) = Cardinality(S)
<1> DEFINE w == Sizes(S, class, C)
           In(D) == {e \in S : class[e] \in D}
           Q == {D \in SUBSET C : SumOver(w, D) # Cardinality(In(D))}
<1>1. \A c \in C : /\ IsFiniteSet({e \in S : class[e] = c})
                   /\ w[c] = Cardinality({e \in S : class[e] = c})
                   /\ w[c] \in Nat
    <2> SUFFICES ASSUME NEW c \in C
                 PROVE  /\ IsFiniteSet({e \in S : class[e] = c})
                        /\ w[c] = Cardinality({e \in S : class[e] = c})
                        /\ w[c] \in Nat
        OBVIOUS
    <2>1. IsFiniteSet({e \in S : class[e] = c})
        BY FS_Subset
    <2> QED
        BY <2>1, FS_CardinalityType DEF Sizes
<1>2. Weighs(w, C)
    BY <1>1 DEF Weighs
<1> HIDE DEF w
<1>3. ASSUME Q # {} PROVE FALSE
    <2>1. PICK D \in Q : \A E \in Q : E \subseteq D => E = D
        <3>1. Q \subseteq SUBSET C
            OBVIOUS
        <3> HIDE DEF Q
        <3> QED
            BY <1>3, <3>1, SmallestSet
    <2>2. IsFiniteSet(D) /\ Weighs(w, D)
        BY <1>2, <2>1, FS_Subset DEF Weighs
    <2>3. D # {}
        <3>1. In({}) = {}
            OBVIOUS
        <3>2. SumOver(w, {}) = 0 /\ Cardinality({}) = 0
            BY <2>2, SumOfSet, FS_EmptySet
        <3> QED
            BY <2>1, <3>1, <3>2
    <2>4. PICK c \in D : TRUE
        BY <2>3
    <2>5. SumOver(w, D \ {c}) = Cardinality(In(D \ {c}))
        BY <2>1, <2>4
    <2>6. SumOver(w, D) = w[c] + SumOver(w, D \ {c})
        BY <2>2, SumOfSet
    <2>7. Cardinality(In(D)) = Cardinality(In(D \ {c})) + w[c]
        <3> DEFINE one == {e \in S : class[e] = c}
        <3>1. In(D) = In(D \ {c}) \cup one /\ In(D \ {c}) \cap one = {}
            OBVIOUS
        <3>2. IsFiniteSet(In(D \ {c})) /\ IsFiniteSet(one)
            BY FS_Subset
        <3>3. /\ Cardinality(In(D \ {c})) \in Nat /\ Cardinality(one) \in Nat
              /\ Cardinality({}) = 0
            BY <3>2, FS_CardinalityType, FS_EmptySet
        <3>4. w[c] = Cardinality(one)
            BY <1>1, <2>1
        <3> HIDE DEF In, one
        <3>5. Cardinality(In(D)) = Cardinality(In(D \ {c})) + Cardinality(one)
                                     - Cardinality({})
            BY <3>1, <3>2, FS_Union
        <3> QED
            BY <3>3, <3>4, <3>5
    <2>8. w[c] \in Nat /\ Cardinality(In(D \ {c})) \in Nat
        <3>1. IsFiniteSet(In(D \ {c}))
            BY FS_Subset
        <3> QED
            BY <1>1, <2>1, <3>1, FS_CardinalityType
    <2> HIDE DEF In
    <2>9. SumOver(w, D) = Cardinality(In(D))
        BY <2>5, <2>6, <2>7, <2>8
    <2> QED
        BY <2>1, <2>9
<1>4. In(C) = S
    OBVIOUS
<1>5. SumOver(w, C) = Cardinality(In(C))
    BY <1>3
<1> HIDE DEF In, Q
<1> QED
    BY <1>2, <1>4, <1>5 DEF w

(* The sum over two sets that share nothing.                               *)
LEMMA SumDisjoint ==
    ASSUME NEW S, IsFiniteSet(S), NEW T, IsFiniteSet(T), S \cap T = {},
           NEW w, Weighs(w, S \cup T)
    PROVE  SumOver(w, S \cup T) = SumOver(w, S) + SumOver(w, T)
<1> DEFINE Q == {U \in SUBSET T : SumOver(w, S \cup U) # SumOver(w, S) + SumOver(w, U)}
<1> SUFFICES ASSUME Q # {} PROVE FALSE
    OBVIOUS
<1>1. PICK U \in Q : \A V \in Q : V \subseteq U => V = U
    <2>1. Q \subseteq SUBSET T
        OBVIOUS
    <2> HIDE DEF Q
    <2> QED
        BY <2>1, SmallestSet
<1>2. /\ IsFiniteSet(U) /\ IsFiniteSet(S \cup U)
      /\ Weighs(w, S) /\ Weighs(w, U) /\ Weighs(w, S \cup U)
    BY <1>1, FS_Subset, FS_Union DEF Weighs
<1>3. SumOver(w, S) \in Nat /\ SumOver(w, {}) = 0
    BY <1>2, SumOfSet
<1>4. U # {}
    <2>1. SumOver(w, S \cup {}) = SumOver(w, S) + SumOver(w, {})
        BY <1>3
    <2> QED
        BY <1>1, <2>1
<1>5. PICK x \in U : TRUE
    BY <1>4
<1>6. x \notin S /\ (S \cup U) \ {x} = S \cup (U \ {x}) /\ U \ {x} \in SUBSET T
    BY <1>1
<1>7. SumOver(w, S \cup (U \ {x})) = SumOver(w, S) + SumOver(w, U \ {x})
    BY <1>1, <1>6
<1>8. /\ SumOver(w, S \cup U) = w[x] + SumOver(w, S \cup (U \ {x}))
      /\ SumOver(w, U) = w[x] + SumOver(w, U \ {x})
    BY <1>2, <1>6, SumOfSet
<1>9. w[x] \in Nat /\ SumOver(w, U \ {x}) \in Nat
    <2>1. IsFiniteSet(U \ {x}) /\ Weighs(w, U \ {x})
        BY <1>2, FS_Subset DEF Weighs
    <2> QED
        BY <1>2, <2>1, SumOfSet DEF Weighs
<1>10. SumOver(w, S \cup U) = SumOver(w, S) + SumOver(w, U)
    BY <1>3, <1>7, <1>8, <1>9
<1> QED
    BY <1>1, <1>10
=============================================================================
