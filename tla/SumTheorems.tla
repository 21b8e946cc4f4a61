---------------------------- MODULE SumTheorems ----------------------------
(***************************************************************************)
(* Sums of natural numbers over finite sets, for the budgets, and maxima.  *)
(*                                                                         *)
(* SumFunctionOnSet is a recursive function over the subsets of its index  *)
(* set.  It equals a count: the cardinality of the set of pairs <<x, k>>   *)
(* with k in 1 .. f[x].  That function satisfies the recursive equation,   *)
(* and a least subset on which a solution differed from it would have a    *)
(* smaller one.                                                            *)
(***************************************************************************)
EXTENDS Integers, FiniteSets, FiniteSetsExt, Functions, FiniteSetTheorems, WellFoundedInduction, TLAPS

\* f[x] units for every x of S.
Units(f, S) == UNION {{x} \X (1 .. f[x]) : x \in S}

\* An element adds its units.
LEMMA UnitsStep ==
    ASSUME NEW f, NEW S, NEW x \in S, IsFiniteSet(Units(f, S \ {x})), f[x] \in Nat
    PROVE  /\ IsFiniteSet(Units(f, S))
           /\ Cardinality(Units(f, S)) = f[x] + Cardinality(Units(f, S \ {x}))
<1> DEFINE B == {x} \X (1 .. f[x])
           R == Units(f, S \ {x})
<1>1. Units(f, S) = R \cup B
    BY DEF Units
<1>2. R \cap B = {}
    BY DEF Units
<1>3. IsFiniteSet(1 .. f[x]) /\ Cardinality(1 .. f[x]) = f[x]
    BY FS_Interval, SMTT(30)
<1>4. IsFiniteSet({x}) /\ Cardinality({x}) = 1
    BY FS_Singleton
<1>5. IsFiniteSet(B) /\ Cardinality(B) = 1 * f[x]
    <2>1. /\ IsFiniteSet({x} \X (1 .. f[x]))
          /\ Cardinality({x} \X (1 .. f[x])) = Cardinality({x}) * Cardinality(1 .. f[x])
        BY <1>3, <1>4, FS_Product
    <2> QED
        BY <1>3, <1>4, <2>1
<1>6. /\ IsFiniteSet(R \cup B)
      /\ Cardinality(R \cup B) = Cardinality(R) + Cardinality(B) - Cardinality(R \cap B)
    BY <1>5, FS_Union
<1>7. Cardinality(R \cap B) = 0
    BY <1>2, FS_EmptySet
<1>8. Cardinality(R) \in Nat
    BY FS_CardinalityType
<1> QED
    BY <1>1, <1>5, <1>6, <1>7, <1>8

\* A least counterexample among the subsets of a finite set.
LEMMA LeastSubset ==
    ASSUME NEW S, IsFiniteSet(S), NEW Bad \in SUBSET SUBSET S, Bad # {}
    PROVE  \E T \in Bad : \A U \in Bad : U \subseteq T => U = T
<1>1. IsWellFoundedOn(StrictSubsetOrdering(S), SUBSET S)
    BY FS_StrictSubsetOrderingWellFounded, FS_FiniteSubsetsOfFinite, Zenon
<1>2. PICK T \in Bad : \A U \in Bad : ~ (<<U, T>> \in StrictSubsetOrdering(S))
    BY <1>1, WFMin, Zenon
<1>3. ASSUME NEW U \in Bad, U \subseteq T, U # T PROVE FALSE
    <2>1. <<U, T>> \in (SUBSET S) \X (SUBSET S) /\ <<U, T>>[1] = U /\ <<U, T>>[2] = T
        OBVIOUS
    <2>2. <<U, T>> \in StrictSubsetOrdering(S)
        BY <1>3, <2>1 DEF StrictSubsetOrdering
    <2> QED
        BY <1>2, <2>2
<1> QED
    BY <1>3

\* The units of a finite set are finite.
LEMMA UnitsFinite ==
    ASSUME NEW f, NEW S, IsFiniteSet(S), \A x \in S : f[x] \in Nat
    PROVE  IsFiniteSet(Units(f, S)) /\ Cardinality(Units(f, S)) \in Nat
<1> DEFINE Bad == {T \in SUBSET S : ~ IsFiniteSet(Units(f, T))}
<1>1. SUFFICES ASSUME Bad # {} PROVE FALSE
    BY FS_CardinalityType
<1>2. PICK T \in Bad : \A U \in Bad : U \subseteq T => U = T
    <2>1. Bad \in SUBSET SUBSET S
        OBVIOUS
    <2> HIDE DEF Bad
    <2> QED
        BY <1>1, <2>1, LeastSubset
<1>3. T # {}
    <2>1. Units(f, {}) = {}
        BY DEF Units
    <2> QED
        BY <2>1, FS_EmptySet
<1>4. PICK x \in T : TRUE
    BY <1>3
<1>5. T \ {x} \notin Bad
    BY <1>2, <1>4
<1>6. IsFiniteSet(Units(f, T \ {x}))
    BY <1>5
<1> QED
    BY <1>4, <1>6, UnitsStep

\* The recursive sum is the number of units.
LEMMA SumIsCount ==
    ASSUME NEW f, NEW S, IsFiniteSet(S), \A x \in S : f[x] \in Nat
    PROVE  SumFunctionOnSet(f, S) = Cardinality(Units(f, S))
<1> DEFINE c(s) == CHOOSE x \in s : TRUE
           Solves(g) == g = [s \in SUBSET S |-> IF s = {} THEN 0 ELSE f[c(s)] + g[s \ {c(s)}]]
           count == [s \in SUBSET S |-> Cardinality(Units(f, s))]
<1>1. SumFunctionOnSet(f, S) = (CHOOSE g : Solves(g))[S]
    BY DEF SumFunctionOnSet, FoldFunctionOnSet, MapThenFoldSet
<1>2. Solves(count)
    <2>1. ASSUME NEW s \in SUBSET S
          PROVE  count[s] = IF s = {} THEN 0 ELSE f[c(s)] + count[s \ {c(s)}]
        <3>1. CASE s = {}
            <4>1. Units(f, {}) = {}
                BY DEF Units
            <4> QED
                BY <3>1, <4>1, FS_EmptySet
        <3>2. CASE s # {}
            <4>1. c(s) \in s
                BY <3>2
            <4>2. IsFiniteSet(s \ {c(s)})
                BY FS_Subset
            <4>3. IsFiniteSet(Units(f, s \ {c(s)}))
                BY <4>2, UnitsFinite
            <4> HIDE DEF c
            <4>4. Cardinality(Units(f, s)) = f[c(s)] + Cardinality(Units(f, s \ {c(s)}))
                BY <4>1, <4>3, UnitsStep
            <4> QED
                BY <3>2, <4>4
        <3> QED
            BY <3>1, <3>2
    <2> HIDE DEF c
    <2> QED
        BY <2>1
<1>3. ASSUME NEW g, Solves(g) PROVE g = count
    <2> DEFINE Bad == {s \in SUBSET S : g[s] # count[s]}
    <2> HIDE DEF c
    <2>1. DOMAIN g = SUBSET S /\ g = [s \in SUBSET S |-> g[s]]
        BY <1>3
    <2>2. SUFFICES ASSUME Bad # {} PROVE FALSE
        BY <2>1
    <2>3. PICK T \in Bad : \A U \in Bad : U \subseteq T => U = T
        <3>1. Bad \in SUBSET SUBSET S
            OBVIOUS
        <3> HIDE DEF Bad
        <3> QED
            BY <2>2, <3>1, LeastSubset
    <2>4. T # {}
        BY <1>2, <1>3
    <2>5. c(T) \in T
        BY <2>4 DEF c
    <2>6. T \ {c(T)} \notin Bad
        BY <2>3, <2>5
    <2>7. g[T] = f[c(T)] + g[T \ {c(T)}] /\ count[T] = f[c(T)] + count[T \ {c(T)}]
        BY <1>2, <1>3, <2>4
    <2> QED
        BY <2>6, <2>7
<1> HIDE DEF Solves, count
<1>4. (CHOOSE g : Solves(g)) = count
    BY <1>2, <1>3
<1> QED
    BY <1>1, <1>4 DEF count

-----------------------------------------------------------------------------
(* What the budgets use.                                                   *)

\* A sum is a natural number, and nothing adds up to 0.
THEOREM SumType ==
    ASSUME NEW f, NEW S, IsFiniteSet(S), \A x \in S : f[x] \in Nat
    PROVE  SumFunctionOnSet(f, S) \in Nat
BY SumIsCount, UnitsFinite

\* Nothing adds up to 0.
THEOREM SumEmpty ==
    ASSUME NEW f PROVE SumFunctionOnSet(f, {}) = 0
<1>1. SumFunctionOnSet(f, {}) = Cardinality(Units(f, {}))
    BY SumIsCount, FS_EmptySet
<1>2. Units(f, {}) = {}
    BY DEF Units
<1> QED
    BY <1>1, <1>2, FS_EmptySet

\* Any element can be taken out first.
THEOREM SumStep ==
    ASSUME NEW f, NEW S, IsFiniteSet(S), \A x \in S : f[x] \in Nat, NEW x \in S
    PROVE  SumFunctionOnSet(f, S) = f[x] + SumFunctionOnSet(f, S \ {x})
<1>1. IsFiniteSet(S \ {x})
    BY FS_Subset
<1>2. IsFiniteSet(Units(f, S \ {x}))
    BY <1>1, UnitsFinite
<1>3. Cardinality(Units(f, S)) = f[x] + Cardinality(Units(f, S \ {x}))
    BY <1>2, UnitsStep
<1> QED
    BY <1>1, <1>3, SumIsCount

\* A new element adds its value.
THEOREM SumAdd ==
    ASSUME NEW f, NEW S, IsFiniteSet(S), NEW x, x \notin S, \A y \in S \cup {x} : f[y] \in Nat
    PROVE  SumFunctionOnSet(f, S \cup {x}) = SumFunctionOnSet(f, S) + f[x]
<1>1. IsFiniteSet(S \cup {x}) /\ (S \cup {x}) \ {x} = S
    BY FS_AddElement
<1>2. SumFunctionOnSet(f, S \cup {x}) = f[x] + SumFunctionOnSet(f, S)
    BY <1>1, SumStep
<1> QED
    BY <1>2, SumType

\* Only the values on the set matter.
THEOREM SumAgree ==
    ASSUME NEW f, NEW g, NEW S, IsFiniteSet(S), \A x \in S : f[x] \in Nat /\ g[x] = f[x]
    PROVE  SumFunctionOnSet(g, S) = SumFunctionOnSet(f, S)
<1>1. Units(g, S) = Units(f, S)
    BY DEF Units
<1> QED
    BY <1>1, SumIsCount

\* Changing one value moves the sum by the difference.
THEOREM SumUpdate ==
    ASSUME NEW f, NEW g, NEW S, IsFiniteSet(S), NEW x \in S,
           \A y \in S : f[y] \in Nat /\ g[y] \in Nat,
           \A y \in S \ {x} : g[y] = f[y]
    PROVE  SumFunctionOnSet(g, S) = SumFunctionOnSet(f, S) - f[x] + g[x]
<1>1. IsFiniteSet(S \ {x})
    BY FS_Subset
<1>2. SumFunctionOnSet(g, S \ {x}) = SumFunctionOnSet(f, S \ {x})
    BY <1>1, SumAgree
<1>3. SumFunctionOnSet(f, S \ {x}) \in Nat
    BY <1>1, SumType
<1>4. SumFunctionOnSet(f, S) = f[x] + SumFunctionOnSet(f, S \ {x})
    BY SumStep
<1>5. SumFunctionOnSet(g, S) = g[x] + SumFunctionOnSet(g, S \ {x})
    BY SumStep
<1> QED
    BY <1>2, <1>3, <1>4, <1>5

\* A sum grows with its values and with its index set.
THEOREM SumMonotone ==
    ASSUME NEW f, NEW g, NEW S, NEW T, IsFiniteSet(S), T \subseteq S,
           \A x \in S : g[x] \in Nat,
           \A x \in T : f[x] \in Nat /\ f[x] <= g[x]
    PROVE  SumFunctionOnSet(f, T) <= SumFunctionOnSet(g, S)
<1>1. IsFiniteSet(T)
    BY FS_Subset
<1>2. Units(f, T) \in SUBSET Units(g, S)
    <2>1. \A x \in T : 1 .. f[x] \subseteq 1 .. g[x]
        OBVIOUS
    <2> QED
        BY <2>1 DEF Units
<1>3. IsFiniteSet(Units(g, S))
    BY UnitsFinite
<1>4. Cardinality(Units(f, T)) <= Cardinality(Units(g, S))
    BY <1>2, <1>3, FS_Subset
<1> QED
    BY <1>1, <1>4, SumIsCount

\* Zeroes add up to zero.
THEOREM SumZero ==
    ASSUME NEW f, NEW S, \A x \in S : f[x] = 0, IsFiniteSet(S)
    PROVE  SumFunctionOnSet(f, S) = 0
<1>1. Units(f, S) = {}
    BY DEF Units
<1> QED
    BY <1>1, SumIsCount, FS_EmptySet

\* Two sets without a common element add up separately.
THEOREM SumDisjoint ==
    ASSUME NEW f, NEW S, NEW T, IsFiniteSet(S), IsFiniteSet(T), S \cap T = {},
           \A x \in S \cup T : f[x] \in Nat
    PROVE  SumFunctionOnSet(f, S \cup T) = SumFunctionOnSet(f, S) + SumFunctionOnSet(f, T)
<1>1. Units(f, S \cup T) = Units(f, S) \cup Units(f, T) /\ Units(f, S) \cap Units(f, T) = {}
    BY DEF Units
<1>2. /\ IsFiniteSet(Units(f, S)) /\ IsFiniteSet(Units(f, T))
      /\ Cardinality(Units(f, S)) \in Nat /\ Cardinality(Units(f, T)) \in Nat
    BY UnitsFinite
<1>3. Cardinality(Units(f, S) \cup Units(f, T)) = Cardinality(Units(f, S)) + Cardinality(Units(f, T))
    <2>1. Cardinality(Units(f, S) \cap Units(f, T)) = 0
        BY <1>1, FS_EmptySet
    <2>2. Cardinality(Units(f, S) \cup Units(f, T))
            = Cardinality(Units(f, S)) + Cardinality(Units(f, T)) - Cardinality(Units(f, S) \cap Units(f, T))
        BY <1>2, FS_Union
    <2> QED
        BY <1>2, <2>1, <2>2
<1>4. IsFiniteSet(S \cup T)
    BY FS_Union
<1>5. SumFunctionOnSet(f, S \cup T) = Cardinality(Units(f, S \cup T))
    BY <1>4, SumIsCount
<1> QED
    BY <1>1, <1>3, <1>5, SumIsCount

\* An injective function counts its domain by its values.
THEOREM CountImage ==
    ASSUME NEW f, NEW S, IsFiniteSet(S), \A x, y \in S : f[x] = f[y] => x = y
    PROVE  /\ IsFiniteSet({f[x] : x \in S})
           /\ Cardinality({f[x] : x \in S}) = Cardinality(S)
<1> DEFINE T == {f[x] : x \in S}
           h == [x \in S |-> f[x]]
<1>1. h \in [S -> T] /\ \A x \in S : h[x] = f[x]
    OBVIOUS
<1>2. h \in Injection(S, T)
    BY <1>1 DEF Injection, IsInjective
<1>3. h \in Surjection(S, T)
    BY <1>1 DEF Surjection
<1> HIDE DEF h
<1>4. ExistsBijection(S, T)
    BY <1>2, <1>3 DEF ExistsBijection, Bijection
<1> QED
    BY <1>4, FS_Bijection

\* When every index of S grows by the number of members of A that belong to it, the sum
\* grows by the size of A.
THEOREM SumFibres ==
    ASSUME NEW f, NEW g, NEW h, NEW S, NEW A, IsFiniteSet(S), IsFiniteSet(A),
           \A a \in A : h[a] \in S,
           \A x \in S : f[x] \in Nat /\ g[x] = f[x] + Cardinality({a \in A : h[a] = x})
    PROVE  SumFunctionOnSet(g, S) = SumFunctionOnSet(f, S) + Cardinality(A)
<1> DEFINE Of(x) == {a \in A : h[a] = x}
           Over(T) == {a \in A : h[a] \in T}
           Bad == {T \in SUBSET S : SumFunctionOnSet(g, T) # SumFunctionOnSet(f, T) + Cardinality(Over(T))}
<1>1. \A T : IsFiniteSet(Over(T)) /\ Cardinality(Over(T)) \in Nat
    BY FS_Subset, FS_CardinalityType
<1>2. \A x \in S : /\ IsFiniteSet(Of(x))
                   /\ Cardinality(Of(x)) \in Nat
    BY FS_Subset, FS_CardinalityType
<1>3. \A x \in S : f[x] \in Nat /\ g[x] \in Nat /\ g[x] = f[x] + Cardinality(Of(x))
    <2>1. \A x \in S : f[x] \in Nat /\ g[x] = f[x] + Cardinality(Of(x))
        OBVIOUS
    <2> HIDE DEF Of
    <2> QED
        BY <1>2, <2>1
<1>4. Bad = {}
    <2>1. SUFFICES ASSUME Bad # {} PROVE FALSE
        OBVIOUS
    <2>2. PICK T \in Bad : \A U \in Bad : U \subseteq T => U = T
        <3>1. Bad \in SUBSET SUBSET S
            OBVIOUS
        <3> HIDE DEF Bad
        <3> QED
            BY <2>1, <3>1, LeastSubset
    <2>3. IsFiniteSet(T) /\ T \subseteq S
        BY FS_Subset
    <2>4. T # {}
        <3>1. Over({}) = {}
            OBVIOUS
        <3>2. Cardinality(Over({})) = 0
            BY <3>1, FS_EmptySet
        <3>3. SumFunctionOnSet(g, {}) = 0 /\ SumFunctionOnSet(f, {}) = 0
            BY SumEmpty
        <3>4. SumFunctionOnSet(g, {}) = SumFunctionOnSet(f, {}) + Cardinality(Over({}))
            <4> HIDE DEF Over
            <4> QED
                BY <3>2, <3>3
        <3> QED
            BY <3>4
    <2>5. PICK x \in T : TRUE
        BY <2>4
    <2> DEFINE R == T \ {x}
    <2>6. R \notin Bad
        BY <2>2, <2>5
    <2>7. R \in SUBSET S /\ IsFiniteSet(R)
        BY <2>3, FS_Subset
    <2>8. SumFunctionOnSet(g, R) = SumFunctionOnSet(f, R) + Cardinality(Over(R))
        BY <2>6, <2>7
    <2>9. /\ SumFunctionOnSet(g, T) = g[x] + SumFunctionOnSet(g, R)
          /\ SumFunctionOnSet(f, T) = f[x] + SumFunctionOnSet(f, R)
        <3>1. \A y \in T : f[y] \in Nat /\ g[y] \in Nat
            BY <1>3, <2>3
        <3> QED
            BY <2>3, <2>5, <3>1, SumStep
    <2>10. Cardinality(Over(T)) = Cardinality(Over(R)) + Cardinality(Of(x))
        <3>1. Over(T) = Over(R) \cup Of(x) /\ Over(R) \cap Of(x) = {}
            OBVIOUS
        <3>2. Cardinality(Over(R) \cap Of(x)) = 0
            BY <3>1, FS_EmptySet
        <3>3. Cardinality(Over(R) \cup Of(x))
                = Cardinality(Over(R)) + Cardinality(Of(x)) - Cardinality(Over(R) \cap Of(x))
            BY <1>1, <1>2, <2>3, <2>5, FS_Union
        <3>4. Cardinality(Over(R)) \in Nat /\ Cardinality(Of(x)) \in Nat
            BY <1>1, <1>2, <2>3
        <3> HIDE DEF Over, Of
        <3> QED
            BY <3>1, <3>2, <3>3, <3>4
    <2>11. SumFunctionOnSet(f, R) \in Nat /\ Cardinality(Over(R)) \in Nat
        BY <1>1, <1>3, <2>7, SumType
    <2>12. g[x] = f[x] + Cardinality(Of(x)) /\ f[x] \in Nat /\ Cardinality(Of(x)) \in Nat
        BY <1>2, <1>3, <2>3
    <2>13. SumFunctionOnSet(g, T) = SumFunctionOnSet(f, T) + Cardinality(Over(T))
        BY <2>8, <2>9, <2>10, <2>11, <2>12
    <2> QED
        BY <2>13
<1>5. Over(S) = A
    OBVIOUS
<1> QED
    BY <1>4, <1>5

-----------------------------------------------------------------------------
(* Least and greatest naturals. *)

LEMMA LeastNatural ==
    ASSUME NEW U \in SUBSET Nat, U # {} PROVE \E m \in U : \A n \in U : m <= n
<1> DEFINE LT == {ss \in Nat \X Nat : ss[1] < ss[2]}
<1>1. LT = OpToRel(<, Nat)
    BY Zenon DEF OpToRel
<1>2. IsWellFoundedOn(LT, Nat)
    BY <1>1, NatLessThanWellFounded, Zenon
<1> HIDE DEF LT
<1>3. PICK k \in U : \A n \in U : ~ (<<n, k>> \in LT)
    BY <1>2, WFMin, Zenon
<1>4. \A n \in U : k <= n
    <2>1. SUFFICES ASSUME NEW n \in U, n < k PROVE FALSE
        OBVIOUS
    <2>2. <<n, k>> \in Nat \X Nat /\ <<n, k>>[1] = n /\ <<n, k>>[2] = k
        OBVIOUS
    <2>3. <<n, k>> \in LT
        BY <2>1, <2>2, Zenon DEF LT
    <2> QED
        BY <1>3, <2>3
<1> QED
    BY <1>4

\* Above n, the first natural outside a finite set is at most the size of the set away.
LEMMA FirstOutside ==
    ASSUME NEW n \in Nat, NEW T, IsFiniteSet(T)
    PROVE  /\ Cardinality(T) \in Nat
           /\ \E g \in n .. n + Cardinality(T) : g \notin T /\ \A k \in n .. g - 1 : k \in T
<1> DEFINE I == n .. n + Cardinality(T)
           U == {g \in I : g \notin T}
<1>1. Cardinality(T) \in Nat
    BY FS_CardinalityType
<1>2. U # {}
    <2>1. SUFFICES ASSUME I \subseteq T PROVE FALSE
        OBVIOUS
    <2>2. PICK b \in Int : b = n + Cardinality(T)
        BY <1>1
    <2>3. Cardinality(I) = Cardinality(T) + 1
        <3>1. n \in Int
            OBVIOUS
        <3>2. Cardinality(n .. b) = IF n > b THEN 0 ELSE b - n + 1
            BY <3>1, FS_Interval
        <3> QED
            BY <1>1, <2>2, <3>2
    <2>4. Cardinality(I) <= Cardinality(T)
        BY <2>1, FS_Subset
    <2> QED
        BY <1>1, <2>3, <2>4
<1>3. U \in SUBSET Nat
    BY <1>1
<1>4. PICK g \in U : \A k \in U : g <= k
    BY <1>2, <1>3, LeastNatural
<1>5. \A k \in n .. g - 1 : k \in T
    <2> SUFFICES ASSUME NEW k \in n .. g - 1, k \notin T PROVE FALSE
        OBVIOUS
    <2>1. g \in I /\ g \in Nat
        BY <1>3
    <2>2. k \in I
        BY <1>1, <2>1
    <2>3. g <= k
        BY <1>4, <2>2
    <2> QED
        BY <2>1, <2>3
<1> QED
    BY <1>1, <1>4, <1>5

\* The image of a finite set is finite.
LEMMA FiniteImage ==
    ASSUME NEW f, NEW S, IsFiniteSet(S) PROVE IsFiniteSet({f[x] : x \in S})
<1> DEFINE T == {f[x] : x \in S}
           h == [x \in S |-> f[x]]
<1>1. h \in Surjection(S, T)
    BY DEF Surjection
<1> QED
    BY <1>1, FS_Surjection

\* A bounded, non-empty set of naturals has the maximum that Max() names.
LEMMA MaxOfBounded ==
    ASSUME NEW S \in SUBSET Nat, S # {}, NEW b \in Nat, \A x \in S : x <= b
    PROVE  Max(S) \in S /\ \A x \in S : x <= Max(S)
<1> DEFINE U == {n \in Nat : \A x \in S : x <= n}
<1>1. U \in SUBSET Nat /\ U # {}
    OBVIOUS
<1>2. PICK m \in U : \A n \in U : m <= n
    BY <1>1, LeastNatural
<1>3. m \in S
    <2>1. SUFFICES ASSUME m \notin S PROVE FALSE
        OBVIOUS
    <2>2. PICK x \in S : TRUE
        OBVIOUS
    <2>3. m # 0
        BY <2>1, <2>2
    <2>4. m - 1 \in U
        BY <2>1, <2>3
    <2> QED
        BY <1>2, <2>4
<1>4. \E x \in S : \A y \in S : x >= y
    BY <1>2, <1>3
<1> QED
    BY <1>4 DEF Max

\* A finite set of naturals is bounded by its own sum.
LEMMA MaxOfFinite ==
    ASSUME NEW S \in SUBSET Nat, S # {}, IsFiniteSet(S)
    PROVE  Max(S) \in S /\ \A x \in S : x <= Max(S)
<1>0. PICK f : f = [x \in S |-> x]
    OBVIOUS
<1>1. \A x \in S : f[x] \in Nat /\ f[x] = x
    BY <1>0
<1>2. SumFunctionOnSet(f, S) \in Nat
    BY <1>1, SumType
<1>3. ASSUME NEW x \in S PROVE x <= SumFunctionOnSet(f, S)
    <2>1. IsFiniteSet(S \ {x})
        BY FS_Subset
    <2>2. SumFunctionOnSet(f, S \ {x}) \in Nat
        BY <1>1, <2>1, SumType
    <2>3. \A y \in S : f[y] \in Nat
        BY <1>1
    <2>4. \A y \in S : SumFunctionOnSet(f, S) = f[y] + SumFunctionOnSet(f, S \ {y})
        BY <2>3, SumStep, ZenonT(30)
    <2> QED
        BY <1>1, <2>2, <2>4
<1> QED
    BY <1>2, <1>3, MaxOfBounded

\* Sums add up value by value.
THEOREM SumPlus ==
    ASSUME NEW f, NEW g, NEW h, NEW S, IsFiniteSet(S),
           \A x \in S : f[x] \in Nat /\ g[x] \in Nat /\ h[x] = f[x] + g[x]
    PROVE  SumFunctionOnSet(h, S) = SumFunctionOnSet(f, S) + SumFunctionOnSet(g, S)
<1> DEFINE Bad == {T \in SUBSET S : SumFunctionOnSet(h, T) # SumFunctionOnSet(f, T) + SumFunctionOnSet(g, T)}
<1>1. SUFFICES ASSUME Bad # {} PROVE FALSE
    OBVIOUS
<1>2. PICK T \in Bad : \A U \in Bad : U \subseteq T => U = T
    <2>1. Bad \in SUBSET SUBSET S
        OBVIOUS
    <2> HIDE DEF Bad
    <2> QED
        BY <1>1, <2>1, LeastSubset
<1>3. T \subseteq S /\ IsFiniteSet(T) /\ \A x \in T : f[x] \in Nat /\ g[x] \in Nat /\ h[x] \in Nat /\ h[x] = f[x] + g[x]
    BY FS_Subset
<1>4. T # {}
    <2>1. SumFunctionOnSet(h, {}) = 0 /\ SumFunctionOnSet(f, {}) = 0 /\ SumFunctionOnSet(g, {}) = 0
        BY SumEmpty
    <2>2. SumFunctionOnSet(h, {}) = SumFunctionOnSet(f, {}) + SumFunctionOnSet(g, {})
        BY <2>1
    <2>3. SumFunctionOnSet(h, T) # SumFunctionOnSet(f, T) + SumFunctionOnSet(g, T)
        BY <1>2
    <2> QED
        BY <2>2, <2>3
<1>5. PICK x \in T : TRUE
    BY <1>4
<1>6. SumFunctionOnSet(h, T \ {x}) = SumFunctionOnSet(f, T \ {x}) + SumFunctionOnSet(g, T \ {x})
    BY <1>2, <1>5
<1>7. IsFiniteSet(T \ {x})
    BY <1>3, FS_Subset
<1>8. /\ SumFunctionOnSet(f, T \ {x}) \in Nat /\ SumFunctionOnSet(g, T \ {x}) \in Nat
    BY <1>3, <1>7, SumType
<1>9. /\ SumFunctionOnSet(f, T) = f[x] + SumFunctionOnSet(f, T \ {x})
      /\ SumFunctionOnSet(g, T) = g[x] + SumFunctionOnSet(g, T \ {x})
      /\ SumFunctionOnSet(h, T) = h[x] + SumFunctionOnSet(h, T \ {x})
    BY <1>3, SumStep
<1>10. SumFunctionOnSet(h, T) = SumFunctionOnSet(f, T) + SumFunctionOnSet(g, T)
    BY <1>3, <1>6, <1>8, <1>9
<1> QED
    BY <1>10

\* Values summed over the image of an injective function are summed over its domain.
THEOREM SumImage ==
    ASSUME NEW f, NEW g, NEW h, NEW S, IsFiniteSet(S), \A x, y \in S : f[x] = f[y] => x = y,
           \A x \in S : h[x] = g[f[x]] /\ h[x] \in Nat
    PROVE  SumFunctionOnSet(g, {f[x] : x \in S}) = SumFunctionOnSet(h, S)
<1> DEFINE T == {f[x] : x \in S}
           A == Units(h, S)
           B == Units(g, T)
           F == [u \in A |-> <<f[u[1]], u[2]>>]
<1>1. IsFiniteSet(T)
    BY CountImage
<1>2. \A u \in A : u[1] \in S /\ u[2] \in 1 .. h[u[1]] /\ u = <<u[1], u[2]>>
    BY DEF Units
<1>3. \A u, v \in A : F[u] = F[v] => u = v
    BY <1>2
<1>4. {F[u] : u \in A} = B
    <2>1. ASSUME NEW u \in A PROVE F[u] \in B
        BY <1>2 DEF Units
    <2>2. ASSUME NEW w \in B PROVE \E u \in A : F[u] = w
        <3>1. PICK x \in S : w \in {f[x]} \X (1 .. g[f[x]])
            BY DEF Units
        <3>2. PICK k \in 1 .. g[f[x]] : w = <<f[x], k>>
            BY <3>1
        <3>3. <<x, k>> \in A
            BY <3>2 DEF Units
        <3> QED
            BY <3>2, <3>3
    <2> QED
        BY <2>1, <2>2
<1>5. IsFiniteSet(A)
    BY UnitsFinite
<1>6. Cardinality(B) = Cardinality(A)
    <2>1. \A G, C : IsFiniteSet(C) /\ (\A u, v \in C : G[u] = G[v] => u = v) => Cardinality({G[u] : u \in C}) = Cardinality(C)
        <3> HIDE DEF F, A, B, T
        <3> TAKE G, C
        <3>1. HAVE IsFiniteSet(C) /\ (\A u, v \in C : G[u] = G[v] => u = v)
        <3> QED
            BY <3>1, CountImage
    <2>2. Cardinality({F[u] : u \in A}) = Cardinality(A)
        <3> HIDE DEF F, A
        <3> QED
            BY <1>3, <1>5, <2>1
    <2> QED
        BY <1>4, <2>2
<1>7. \A y \in T : g[y] \in Nat
    OBVIOUS
<1>8. SumFunctionOnSet(h, S) = Cardinality(A)
    BY SumIsCount
<1>9. SumFunctionOnSet(g, T) = Cardinality(B)
    <2> HIDE DEF T
    <2> QED
        BY <1>1, <1>7, SumIsCount
<1> QED
    BY <1>6, <1>8, <1>9


\* The same amount for every element of T.
THEOREM SumConstant ==
    ASSUME NEW f, NEW S, NEW T, IsFiniteSet(S), T \subseteq S, NEW c \in Nat,
           \A x \in S : f[x] = IF x \in T THEN c ELSE 0
    PROVE  SumFunctionOnSet(f, S) = Cardinality(T) * c /\ Cardinality(T) \in Nat
<1>1. IsFiniteSet(T) /\ Cardinality(T) \in Nat
    BY FS_Subset, FS_CardinalityType
<1>2. IsFiniteSet(1 .. c) /\ Cardinality(1 .. c) = c
    BY FS_Interval, SMTT(30)
<1>3. Cardinality(T \X (1 .. c)) = Cardinality(T) * Cardinality(1 .. c)
    BY <1>1, <1>2, FS_Product
<1>4. Units(f, S) = T \X (1 .. c)
    BY DEF Units
<1>5. SumFunctionOnSet(f, S) = Cardinality(Units(f, S))
    BY SumIsCount
<1> QED
    BY <1>1, <1>2, <1>3, <1>4, <1>5
=============================================================================
