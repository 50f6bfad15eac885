---------------------------- MODULE SumTheorems ----------------------------
(***************************************************************************)
(* What the proofs need to know of sums over finite sets.  The provers have *)
(* no induction over data: each fact below is shown of a smallest set that  *)
(* it would not hold for, which the least-number principle gives.           *)
(***************************************************************************)
EXTENDS Integers, FiniteSets, Functions, FiniteSetTheorems, WellFoundedInduction, TLAPS

-----------------------------------------------------------------------------
(* Smallest counterexamples.                                                *)

LEMMA LeastNumber ==
    ASSUME NEW B \in SUBSET Nat, B # {}
    PROVE  \E n \in B : \A m \in B : n <= m
<1> DEFINE R == OpToRel(<, Nat)
<1>1. \A m, n \in Nat : <<m, n>> \in R <=> m < n
  BY DEF OpToRel
<1>2. IsWellFoundedOn(R, Nat)
  BY NatLessThanWellFounded
<1> HIDE DEF R
<1>3. PICK n \in B : \A m \in B : ~(<<m, n>> \in R)
  BY <1>2, WFMin, Zenon
<1>4. ASSUME NEW m \in B PROVE n <= m
  <2>1. ~(m < n)
    BY <1>1, <1>3
  <2> QED BY <2>1
<1> QED BY <1>4

\* In a non-empty family of subsets there is one without a member one smaller.
LEMMA SmallestSubset ==
    ASSUME NEW S, IsFiniteSet(S), NEW F, F \subseteq SUBSET S, F # {}
    PROVE  \E T \in F : \A x \in T : T \ {x} \notin F
<1> DEFINE B == {Cardinality(T) : T \in F}
<1>1. \A T \in F : IsFiniteSet(T) /\ Cardinality(T) \in Nat
  BY FS_Subset, FS_CardinalityType
<1>2. PICK n \in B : \A m \in B : n <= m
  <2>1. B \in SUBSET Nat /\ B # {}
    BY <1>1
  <2> HIDE DEF B
  <2> QED BY <2>1, LeastNumber
<1>3. PICK T \in F : n = Cardinality(T)
  OBVIOUS
<1>4. ASSUME NEW x \in T PROVE T \ {x} \notin F
  <2>1. Cardinality(T \ {x}) = Cardinality(T) - 1
    BY <1>1, <1>3, FS_RemoveElement
  <2>2. SUFFICES ASSUME T \ {x} \in F PROVE FALSE
    OBVIOUS
  <2>3. n <= Cardinality(T \ {x})
    BY <1>2, <2>2
  <2>4. Cardinality(T) \in Nat
    BY <1>1
  <2> QED BY <1>3, <2>1, <2>3, <2>4
<1> QED BY <1>4

-----------------------------------------------------------------------------
(* The recursion behind SumFunctionOnSet, and that there is a function that *)
(* solves it.                                                               *)

Pick(T) == CHOOSE x \in T : TRUE
Solves(g, f, D) == g = [T \in D |-> IF T = {} THEN 0 ELSE f[Pick(T)] + g[T \ {Pick(T)}]]
Partial(f, S) == CHOOSE g : Solves(g, f, SUBSET S)

LEMMA SumIsPartial == ASSUME NEW f, NEW S PROVE SumFunctionOnSet(f, S) = Partial(f, S)[S]
BY DEF SumFunctionOnSet, FoldFunctionOnSet, MapThenFoldSet, Partial, Solves, Pick

LEMMA PickIsElement == ASSUME NEW T, T # {} PROVE Pick(T) \in T
BY DEF Pick

LEMMA PartialSolves ==
    ASSUME NEW f, NEW S, IsFiniteSet(S)
    PROVE  Solves(Partial(f, S), f, SUBSET S)
<1> DEFINE Level(n) == {T \in SUBSET S : Cardinality(T) <= n}
           B == {n \in Nat : ~\E g : Solves(g, f, Level(n))}
<1>1. \A T \in SUBSET S : IsFiniteSet(T) /\ Cardinality(T) \in Nat
  BY FS_Subset, FS_CardinalityType
<1>2. B = {}
  <2>1. SUFFICES ASSUME B # {} PROVE FALSE
    OBVIOUS
  <2>2. PICK n \in B : \A m \in B : n <= m
    <3>1. B \in SUBSET Nat
      OBVIOUS
    <3> HIDE DEF B
    <3> QED BY <2>1, <3>1, LeastNumber
  <2>3. n # 0
    <3>1. SUFFICES ASSUME n = 0 PROVE FALSE
      OBVIOUS
    <3>2. \A T \in Level(0) : T = {}
      BY <1>1, FS_EmptySet
    <3>3. Solves([T \in Level(0) |-> 0], f, Level(0))
      BY <3>2 DEF Solves
    <3> QED BY <2>2, <3>1, <3>3
  <2>4. n - 1 \in Nat /\ n - 1 \notin B
    <3>1. n \in Nat
      OBVIOUS
    <3>2. n - 1 \in Nat /\ ~(n <= n - 1)
      BY <2>3, <3>1
    <3> HIDE DEF B
    <3> QED BY <2>2, <3>2
  <2>5. PICK g : Solves(g, f, Level(n - 1))
    BY <2>4
  <2> DEFINE h == [T \in Level(n) |-> IF T = {} THEN 0 ELSE f[Pick(T)] + g[T \ {Pick(T)}]]
  <2>6. \A T \in Level(n - 1) : T \in Level(n) /\ h[T] = g[T]
    <3>1. \A T \in Level(n - 1) : T \in Level(n)
      BY <1>1, <2>4
    <3> QED BY <2>5, <3>1 DEF Solves
  <2>7. \A T \in Level(n) : T # {} => T \ {Pick(T)} \in Level(n - 1)
    <3>1. ASSUME NEW T \in Level(n), T # {} PROVE T \ {Pick(T)} \in Level(n - 1)
      <4>1. Pick(T) \in T
        BY <3>1, PickIsElement
      <4>2. Cardinality(T \ {Pick(T)}) = Cardinality(T) - 1
        BY <1>1, <4>1, FS_RemoveElement
      <4> QED BY <1>1, <2>4, <4>2
    <3> QED BY <3>1
  <2>8. Solves(h, f, Level(n))
    <3> HIDE DEF Level
    <3> SUFFICES h = [T \in Level(n) |-> IF T = {} THEN 0 ELSE f[Pick(T)] + h[T \ {Pick(T)}]]
      BY DEF Solves
    <3>1. \A T \in Level(n) : T # {} => h[T \ {Pick(T)}] = g[T \ {Pick(T)}]
      BY <2>6, <2>7
    <3> QED BY <3>1
  <2> QED BY <2>2, <2>8
<1>3. Level(Cardinality(S)) = SUBSET S /\ Cardinality(S) \in Nat
  BY <1>1, FS_Subset
<1>4. \E g : Solves(g, f, SUBSET S)
  BY <1>2, <1>3
<1> QED BY <1>4 DEF Partial

\* The sum over a part does not depend on the set it is a part of.
LEMMA PartialAgrees ==
    ASSUME NEW f, NEW S, IsFiniteSet(S), NEW T \in SUBSET S
    PROVE  Partial(f, S)[T] = Partial(f, T)[T]
<1> DEFINE F == {U \in SUBSET S : \E V \in SUBSET S : U \subseteq V /\ Partial(f, V)[U] # Partial(f, S)[U]}
<1>1. F = {}
  <2>1. SUFFICES ASSUME F # {} PROVE FALSE
    OBVIOUS
  <2>2. PICK U \in F : \A x \in U : U \ {x} \notin F
    <3>1. F \subseteq SUBSET S
      OBVIOUS
    <3> HIDE DEF F
    <3> QED BY <2>1, <3>1, SmallestSubset
  <2>3. PICK V \in SUBSET S : U \subseteq V /\ Partial(f, V)[U] # Partial(f, S)[U]
    OBVIOUS
  <2>4. Solves(Partial(f, V), f, SUBSET V) /\ Solves(Partial(f, S), f, SUBSET S)
    BY <2>3, FS_Subset, PartialSolves
  <2>5. /\ Partial(f, V)[U] = IF U = {} THEN 0 ELSE f[Pick(U)] + Partial(f, V)[U \ {Pick(U)}]
        /\ Partial(f, S)[U] = IF U = {} THEN 0 ELSE f[Pick(U)] + Partial(f, S)[U \ {Pick(U)}]
    BY <2>3, <2>4 DEF Solves
  <2>6. U # {}
    BY <2>3, <2>5
  <2>7. U \ {Pick(U)} \notin F
    BY <2>2, <2>6, PickIsElement
  <2>8. U \ {Pick(U)} \in SUBSET S /\ U \ {Pick(U)} \subseteq V
    BY <2>3
  <2>9. Partial(f, V)[U \ {Pick(U)}] = Partial(f, S)[U \ {Pick(U)}]
    BY <2>3, <2>7, <2>8
  <2> QED BY <2>3, <2>5, <2>6, <2>9
<1> QED BY <1>1

-----------------------------------------------------------------------------
(* Sums.                                                                    *)

LEMMA SumEmpty == \A f : SumFunctionOnSet(f, {}) = 0
<1> SUFFICES ASSUME NEW f PROVE SumFunctionOnSet(f, {}) = 0
  OBVIOUS
<1>1. Solves(Partial(f, {}), f, SUBSET {})
  BY PartialSolves, FS_EmptySet
<1>2. Partial(f, {})[{}] = 0
  BY <1>1 DEF Solves
<1> QED BY <1>2, SumIsPartial

LEMMA SumPicks ==
    ASSUME NEW f, NEW S, IsFiniteSet(S), S # {}
    PROVE  SumFunctionOnSet(f, S) = f[Pick(S)] + SumFunctionOnSet(f, S \ {Pick(S)})
<1>1. Partial(f, S)[S] = f[Pick(S)] + Partial(f, S)[S \ {Pick(S)}]
  <2>1. Solves(Partial(f, S), f, SUBSET S) /\ S \in SUBSET S
    BY PartialSolves
  <2> QED BY <2>1 DEF Solves
<1>2. Partial(f, S)[S \ {Pick(S)}] = Partial(f, S \ {Pick(S)})[S \ {Pick(S)}]
  <2>1. S \ {Pick(S)} \in SUBSET S
    OBVIOUS
  <2> QED BY <2>1, PartialAgrees
<1> QED BY <1>1, <1>2, SumIsPartial

LEMMA SumIsInt ==
    ASSUME NEW f, NEW S, IsFiniteSet(S), \A x \in S : f[x] \in Int
    PROVE  SumFunctionOnSet(f, S) \in Int
<1> DEFINE F == {T \in SUBSET S : SumFunctionOnSet(f, T) \notin Int}
<1>1. SUFFICES ASSUME F # {} PROVE FALSE
  OBVIOUS
<1>2. PICK T \in F : \A x \in T : T \ {x} \notin F
  <2>1. F \subseteq SUBSET S
    OBVIOUS
  <2> HIDE DEF F
  <2> QED BY <1>1, <2>1, SmallestSubset
<1>3. T # {}
  BY SumEmpty
<1>4. Pick(T) \in T /\ IsFiniteSet(T)
  BY <1>3, PickIsElement, FS_Subset
<1>5. SumFunctionOnSet(f, T \ {Pick(T)}) \in Int
  BY <1>2, <1>4
<1> QED BY <1>3, <1>4, <1>5, SumPicks

LEMMA SumIsNat ==
    ASSUME NEW f, NEW S, IsFiniteSet(S), \A x \in S : f[x] \in Nat
    PROVE  SumFunctionOnSet(f, S) \in Nat
<1> DEFINE F == {T \in SUBSET S : SumFunctionOnSet(f, T) \notin Nat}
<1>1. SUFFICES ASSUME F # {} PROVE FALSE
  OBVIOUS
<1>2. PICK T \in F : \A x \in T : T \ {x} \notin F
  <2>1. F \subseteq SUBSET S
    OBVIOUS
  <2> HIDE DEF F
  <2> QED BY <1>1, <2>1, SmallestSubset
<1>3. T # {}
  BY SumEmpty
<1>4. Pick(T) \in T /\ IsFiniteSet(T)
  BY <1>3, PickIsElement, FS_Subset
<1>5. SumFunctionOnSet(f, T \ {Pick(T)}) \in Nat
  BY <1>2, <1>4
<1> QED BY <1>3, <1>4, <1>5, SumPicks

\* Any element may be taken out of a sum.
LEMMA SumRemove ==
    ASSUME NEW f, NEW S, IsFiniteSet(S), \A x \in S : f[x] \in Int, NEW y \in S
    PROVE  SumFunctionOnSet(f, S) = f[y] + SumFunctionOnSet(f, S \ {y})
<1> DEFINE F == {T \in SUBSET S : \E x \in T :
                   SumFunctionOnSet(f, T) # f[x] + SumFunctionOnSet(f, T \ {x})}
<1>1. SUFFICES ASSUME F # {} PROVE FALSE
  OBVIOUS
<1>2. PICK T \in F : \A x \in T : T \ {x} \notin F
  <2>1. F \subseteq SUBSET S
    OBVIOUS
  <2> HIDE DEF F
  <2> QED BY <1>1, <2>1, SmallestSubset
<1>3. PICK x \in T : SumFunctionOnSet(f, T) # f[x] + SumFunctionOnSet(f, T \ {x})
  OBVIOUS
<1> DEFINE c == Pick(T)
<1>4. c \in T /\ IsFiniteSet(T)
  BY <1>3, PickIsElement, FS_Subset
<1>5. SumFunctionOnSet(f, T) = f[c] + SumFunctionOnSet(f, T \ {c})
  BY <1>3, <1>4, SumPicks
<1> HIDE DEF c
<1>6. c # x
  BY <1>3, <1>5
<1>7. SumFunctionOnSet(f, T \ {c}) = f[x] + SumFunctionOnSet(f, (T \ {c}) \ {x})
  BY <1>2, <1>3, <1>4, <1>6
<1>8. SumFunctionOnSet(f, T \ {x}) = f[c] + SumFunctionOnSet(f, (T \ {x}) \ {c})
  <2>1. T \ {x} \notin F /\ T \ {x} \in SUBSET S /\ c \in T \ {x}
    BY <1>2, <1>3, <1>4, <1>6
  <2> QED BY <2>1
<1>9. (T \ {c}) \ {x} = (T \ {x}) \ {c}
  OBVIOUS
<1>10. SumFunctionOnSet(f, (T \ {x}) \ {c}) \in Int
  <2>1. IsFiniteSet((T \ {x}) \ {c})
    BY <1>4, FS_Subset
  <2> QED BY <2>1, SumIsInt
<1>11. f[c] \in Int /\ f[x] \in Int
  BY <1>4
<1>12. SumFunctionOnSet(f, T) = f[c] + (f[x] + SumFunctionOnSet(f, (T \ {x}) \ {c}))
  BY <1>5, <1>7, <1>9
<1>13. SumFunctionOnSet(f, T) = f[x] + (f[c] + SumFunctionOnSet(f, (T \ {x}) \ {c}))
  BY <1>10, <1>11, <1>12
<1> QED BY <1>3, <1>8, <1>13

LEMMA SumAdd ==
    ASSUME NEW f, NEW S, IsFiniteSet(S), NEW y, y \notin S, \A x \in S \cup {y} : f[x] \in Int
    PROVE  SumFunctionOnSet(f, S \cup {y}) = f[y] + SumFunctionOnSet(f, S)
<1>1. IsFiniteSet(S \cup {y}) /\ (S \cup {y}) \ {y} = S
  BY FS_AddElement
<1> QED BY <1>1, SumRemove

\* The sum depends on the values at the elements of the set only.
LEMMA SumSame ==
    ASSUME NEW f, NEW g, NEW S, IsFiniteSet(S), \A x \in S : f[x] = g[x]
    PROVE  SumFunctionOnSet(f, S) = SumFunctionOnSet(g, S)
<1> DEFINE F == {T \in SUBSET S : SumFunctionOnSet(f, T) # SumFunctionOnSet(g, T)}
<1>1. SUFFICES ASSUME F # {} PROVE FALSE
  OBVIOUS
<1>2. PICK T \in F : \A x \in T : T \ {x} \notin F
  <2>1. F \subseteq SUBSET S
    OBVIOUS
  <2> HIDE DEF F
  <2> QED BY <1>1, <2>1, SmallestSubset
<1>3. T # {}
  BY SumEmpty
<1>4. Pick(T) \in T /\ IsFiniteSet(T)
  BY <1>3, PickIsElement, FS_Subset
<1>5. SumFunctionOnSet(f, T \ {Pick(T)}) = SumFunctionOnSet(g, T \ {Pick(T)})
  BY <1>2, <1>4
<1>6. f[Pick(T)] = g[Pick(T)]
  BY <1>4
<1> QED BY <1>2, <1>3, <1>4, <1>5, <1>6, SumPicks

\* One value changes.
LEMMA SumChange ==
    ASSUME NEW f, NEW g, NEW S, IsFiniteSet(S), NEW y \in S,
           \A x \in S : f[x] \in Int /\ g[x] \in Int, \A x \in S \ {y} : f[x] = g[x]
    PROVE  SumFunctionOnSet(g, S) = SumFunctionOnSet(f, S) + (g[y] - f[y])
<1>1. IsFiniteSet(S \ {y})
  BY FS_Subset
<1>2. SumFunctionOnSet(f, S \ {y}) = SumFunctionOnSet(g, S \ {y})
  BY <1>1, SumSame
<1>3. SumFunctionOnSet(f, S \ {y}) \in Int
  BY <1>1, SumIsInt
<1>4. /\ SumFunctionOnSet(f, S) = f[y] + SumFunctionOnSet(f, S \ {y})
      /\ SumFunctionOnSet(g, S) = g[y] + SumFunctionOnSet(g, S \ {y})
  BY SumRemove
<1> QED BY <1>2, <1>3, <1>4

\* Where no value is negative, a part is at most the whole.
LEMMA SumOfPart ==
    ASSUME NEW f, NEW S, IsFiniteSet(S), \A x \in S : f[x] \in Nat, NEW U \in SUBSET S
    PROVE  SumFunctionOnSet(f, U) <= SumFunctionOnSet(f, S)
<1> DEFINE F == {T \in SUBSET S : U \subseteq T /\ ~(SumFunctionOnSet(f, U) <= SumFunctionOnSet(f, T))}
<1>1. SUFFICES ASSUME F # {} PROVE FALSE
  OBVIOUS
<1>2. PICK T \in F : \A x \in T : T \ {x} \notin F
  <2>1. F \subseteq SUBSET S
    OBVIOUS
  <2> HIDE DEF F
  <2> QED BY <1>1, <2>1, SmallestSubset
<1>3. IsFiniteSet(U) /\ IsFiniteSet(T)
  BY FS_Subset
<1>4. SumFunctionOnSet(f, U) \in Nat /\ SumFunctionOnSet(f, T) \in Nat
  BY <1>3, SumIsNat
<1>5. PICK x \in T : x \notin U
  BY <1>4
<1>6. SumFunctionOnSet(f, U) <= SumFunctionOnSet(f, T \ {x})
  BY <1>2, <1>5
<1>7. SumFunctionOnSet(f, T \ {x}) \in Nat /\ f[x] \in Nat
  <2>1. IsFiniteSet(T \ {x})
    BY <1>3, FS_Subset
  <2> QED BY <2>1, SumIsNat
<1>8. SumFunctionOnSet(f, T) = f[x] + SumFunctionOnSet(f, T \ {x})
  BY <1>3, <1>5, SumRemove
<1> QED BY <1>4, <1>6, <1>7, <1>8

LEMMA SumOfZeros ==
    ASSUME NEW f, NEW S, IsFiniteSet(S), \A x \in S : f[x] = 0
    PROVE  SumFunctionOnSet(f, S) = 0
<1> DEFINE F == {T \in SUBSET S : SumFunctionOnSet(f, T) # 0}
<1>1. SUFFICES ASSUME F # {} PROVE FALSE
  OBVIOUS
<1>2. PICK T \in F : \A x \in T : T \ {x} \notin F
  <2>1. F \subseteq SUBSET S
    OBVIOUS
  <2> HIDE DEF F
  <2> QED BY <1>1, <2>1, SmallestSubset
<1>3. T # {}
  BY SumEmpty
<1>4. Pick(T) \in T /\ IsFiniteSet(T)
  BY <1>3, PickIsElement, FS_Subset
<1>5. SumFunctionOnSet(f, T \ {Pick(T)}) = 0 /\ f[Pick(T)] = 0
  BY <1>2, <1>4
<1> QED BY <1>2, <1>3, <1>4, <1>5, SumPicks

\* Sums are compared term by term.
LEMMA SumAtMost ==
    ASSUME NEW f, NEW g, NEW S, IsFiniteSet(S),
           \A x \in S : f[x] \in Int /\ g[x] \in Int /\ f[x] <= g[x]
    PROVE  SumFunctionOnSet(f, S) <= SumFunctionOnSet(g, S)
<1> DEFINE F == {T \in SUBSET S : ~(SumFunctionOnSet(f, T) <= SumFunctionOnSet(g, T))}
<1>1. SUFFICES ASSUME F # {} PROVE FALSE
  OBVIOUS
<1>2. PICK T \in F : \A x \in T : T \ {x} \notin F
  <2>1. F \subseteq SUBSET S
    OBVIOUS
  <2> HIDE DEF F
  <2> QED BY <1>1, <2>1, SmallestSubset
<1>3. T # {}
  BY SumEmpty
<1> DEFINE c == Pick(T)
<1>4. c \in T /\ IsFiniteSet(T) /\ IsFiniteSet(T \ {c})
  BY <1>3, PickIsElement, FS_Subset
<1>5. SumFunctionOnSet(f, T \ {c}) <= SumFunctionOnSet(g, T \ {c})
  BY <1>2, <1>4
<1>6. SumFunctionOnSet(f, T \ {c}) \in Int /\ SumFunctionOnSet(g, T \ {c}) \in Int
  BY <1>4, SumIsInt
<1>7. f[c] \in Int /\ g[c] \in Int /\ f[c] <= g[c]
  BY <1>4
<1>8. /\ SumFunctionOnSet(f, T) = f[c] + SumFunctionOnSet(f, T \ {c})
      /\ SumFunctionOnSet(g, T) = g[c] + SumFunctionOnSet(g, T \ {c})
  BY <1>3, <1>4, SumPicks
<1>9. SumFunctionOnSet(f, T) <= SumFunctionOnSet(g, T)
  BY <1>5, <1>6, <1>7, <1>8
<1> QED BY <1>2, <1>9

\* A sum of naturals gains what one value, zero before, becomes.
LEMMA SumGains ==
    ASSUME NEW f, NEW g, NEW S, IsFiniteSet(S), \A x \in S : f[x] \in Nat, NEW y \in S, NEW n \in Nat,
           f[y] = 0, g[y] = n, \A x \in S \ {y} : f[x] = g[x]
    PROVE  SumFunctionOnSet(g, S) = SumFunctionOnSet(f, S) + n
<1>1. \A x \in S : f[x] \in Int /\ g[x] \in Int
  OBVIOUS
<1>2. SumFunctionOnSet(g, S) = SumFunctionOnSet(f, S) + (g[y] - f[y])
  BY <1>1, SumChange, ZenonT(40)
<1>3. g[y] - f[y] = n
  OBVIOUS
<1> QED BY <1>2, <1>3

\* Summing over a part is summing over the whole what is zero outside the part.
LEMMA SumOfMembers ==
    ASSUME NEW f, NEW g, NEW S, IsFiniteSet(S), NEW U \in SUBSET S,
           \A x \in U : f[x] \in Int /\ g[x] = f[x], \A x \in S \ U : g[x] = 0
    PROVE  SumFunctionOnSet(f, U) = SumFunctionOnSet(g, S)
<1>1. IsFiniteSet(U)
  BY FS_Subset
<1>2. SumFunctionOnSet(f, U) = SumFunctionOnSet(g, U)
  BY <1>1, SumSame
<1> DEFINE F == {T \in SUBSET S : U \subseteq T /\ SumFunctionOnSet(g, T) # SumFunctionOnSet(g, U)}
<1>3. F = {}
  <2>1. SUFFICES ASSUME F # {} PROVE FALSE
    OBVIOUS
  <2>2. PICK T \in F : \A x \in T : T \ {x} \notin F
    <3>1. F \subseteq SUBSET S
      OBVIOUS
    <3> HIDE DEF F
    <3> QED BY <2>1, <3>1, SmallestSubset
  <2>3. PICK x \in T : x \notin U
    <3>1. T # U
      BY <2>2
    <3> QED BY <2>2, <3>1
  <2>4. SumFunctionOnSet(g, T \ {x}) = SumFunctionOnSet(g, U)
    BY <2>2, <2>3
  <2>5. IsFiniteSet(T) /\ \A y \in T : g[y] \in Int
    BY <2>2, FS_Subset
  <2>6. SumFunctionOnSet(g, T) = g[x] + SumFunctionOnSet(g, T \ {x})
    BY <2>3, <2>5, SumRemove
  <2>7. g[x] = 0 /\ SumFunctionOnSet(g, T \ {x}) \in Int
    <3>1. IsFiniteSet(T \ {x})
      BY <2>5, FS_Subset
    <3> QED BY <2>2, <2>3, <2>5, <3>1, SumIsInt
  <2> QED BY <2>2, <2>4, <2>6, <2>7
<1>4. SumFunctionOnSet(g, S) = SumFunctionOnSet(g, U)
  BY <1>3
<1> QED BY <1>2, <1>4

\* Sums are added and subtracted term by term, and a factor is taken out of them.
LEMMA SumPlus ==
    ASSUME NEW f, NEW g, NEW h, NEW S, IsFiniteSet(S),
           \A x \in S : f[x] \in Int /\ g[x] \in Int /\ h[x] = f[x] + g[x]
    PROVE  SumFunctionOnSet(h, S) = SumFunctionOnSet(f, S) + SumFunctionOnSet(g, S)
<1> DEFINE F == {T \in SUBSET S : SumFunctionOnSet(h, T) # SumFunctionOnSet(f, T) + SumFunctionOnSet(g, T)}
<1>1. SUFFICES ASSUME F # {} PROVE FALSE
  OBVIOUS
<1>2. PICK T \in F : \A x \in T : T \ {x} \notin F
  <2>1. F \subseteq SUBSET S
    OBVIOUS
  <2> HIDE DEF F
  <2> QED BY <1>1, <2>1, SmallestSubset
<1>3. T # {}
  <2>1. SumFunctionOnSet(f, {}) = 0 /\ SumFunctionOnSet(g, {}) = 0 /\ SumFunctionOnSet(h, {}) = 0
    BY SumEmpty
  <2> QED BY <1>2, <2>1
<1> DEFINE c == Pick(T)
<1>4. c \in T /\ IsFiniteSet(T) /\ IsFiniteSet(T \ {c})
  BY <1>3, PickIsElement, FS_Subset
<1>5. SumFunctionOnSet(h, T \ {c}) = SumFunctionOnSet(f, T \ {c}) + SumFunctionOnSet(g, T \ {c})
  BY <1>2, <1>4
<1>6. SumFunctionOnSet(f, T \ {c}) \in Int /\ SumFunctionOnSet(g, T \ {c}) \in Int
  BY <1>4, SumIsInt
<1>7. f[c] \in Int /\ g[c] \in Int /\ h[c] = f[c] + g[c]
  BY <1>4
<1>8. /\ SumFunctionOnSet(f, T) = f[c] + SumFunctionOnSet(f, T \ {c})
      /\ SumFunctionOnSet(g, T) = g[c] + SumFunctionOnSet(g, T \ {c})
      /\ SumFunctionOnSet(h, T) = h[c] + SumFunctionOnSet(h, T \ {c})
  BY <1>3, <1>4, SumPicks
<1> HIDE DEF c
<1>9. SumFunctionOnSet(h, T) = SumFunctionOnSet(f, T) + SumFunctionOnSet(g, T)
  BY <1>5, <1>6, <1>7, <1>8
<1> QED BY <1>2, <1>9

LEMMA SumMinus ==
    ASSUME NEW f, NEW g, NEW h, NEW S, IsFiniteSet(S),
           \A x \in S : f[x] \in Int /\ g[x] \in Int /\ h[x] = f[x] - g[x]
    PROVE  SumFunctionOnSet(h, S) = SumFunctionOnSet(f, S) - SumFunctionOnSet(g, S)
<1>1. \A x \in S : h[x] \in Int /\ g[x] \in Int /\ f[x] = h[x] + g[x]
  OBVIOUS
<1>2. SumFunctionOnSet(f, S) = SumFunctionOnSet(h, S) + SumFunctionOnSet(g, S)
  BY <1>1, SumPlus
<1>3. SumFunctionOnSet(h, S) \in Int /\ SumFunctionOnSet(g, S) \in Int
  BY <1>1, SumIsInt
<1> QED BY <1>2, <1>3

Times(s, n) == s * n

LEMMA SumTimes ==
    ASSUME NEW f, NEW h, NEW S, IsFiniteSet(S), NEW s \in Int,
           \A x \in S : f[x] \in Int /\ h[x] = Times(s, f[x])
    PROVE  SumFunctionOnSet(h, S) = Times(s, SumFunctionOnSet(f, S))
<1> DEFINE F == {T \in SUBSET S : SumFunctionOnSet(h, T) # Times(s, SumFunctionOnSet(f, T))}
<1>1. SUFFICES ASSUME F # {} PROVE FALSE
  OBVIOUS
<1>2. PICK T \in F : \A x \in T : T \ {x} \notin F
  <2>1. F \subseteq SUBSET S
    OBVIOUS
  <2> HIDE DEF F
  <2> QED BY <1>1, <2>1, SmallestSubset
<1>3. T # {}
  <2>1. Times(s, 0) = 0
    BY DEF Times
  <2> QED BY <1>2, <2>1, SumEmpty
<1> DEFINE c == Pick(T)
<1>4. c \in T /\ IsFiniteSet(T) /\ IsFiniteSet(T \ {c})
  BY <1>3, PickIsElement, FS_Subset
<1>5. SumFunctionOnSet(h, T \ {c}) = Times(s, SumFunctionOnSet(f, T \ {c}))
  BY <1>2, <1>4
<1>6. SumFunctionOnSet(f, T \ {c}) \in Int /\ f[c] \in Int /\ h[c] = Times(s, f[c])
  BY <1>4, SumIsInt
<1>7. /\ SumFunctionOnSet(f, T) = f[c] + SumFunctionOnSet(f, T \ {c})
      /\ SumFunctionOnSet(h, T) = h[c] + SumFunctionOnSet(h, T \ {c})
  BY <1>3, <1>4, SumPicks
<1>8. \A a, b \in Int : Times(s, a) + Times(s, b) = Times(s, a + b)
  BY DEF Times
<1> HIDE DEF c
<1>9. SumFunctionOnSet(h, T) = Times(s, SumFunctionOnSet(f, T))
  BY <1>5, <1>6, <1>7, <1>8
<1> QED BY <1>2, <1>9

\* As many values, each at most b, come to at most as many times b.
LEMMA SumBelow ==
    ASSUME NEW f, NEW S, IsFiniteSet(S), NEW b \in Int, \A x \in S : f[x] \in Int /\ f[x] <= b
    PROVE  SumFunctionOnSet(f, S) <= Cardinality(S) * b
<1> DEFINE F == {T \in SUBSET S : ~(SumFunctionOnSet(f, T) <= Cardinality(T) * b)}
<1>1. SUFFICES ASSUME F # {} PROVE FALSE
  OBVIOUS
<1>2. PICK T \in F : \A x \in T : T \ {x} \notin F
  <2>1. F \subseteq SUBSET S
    OBVIOUS
  <2> HIDE DEF F
  <2> QED BY <1>1, <2>1, SmallestSubset
<1>3. T # {}
  <2>1. SumFunctionOnSet(f, {}) = 0 /\ Cardinality({}) = 0
    BY SumEmpty, FS_EmptySet
  <2>2. 0 * b = 0
    OBVIOUS
  <2> QED BY <1>2, <2>1, <2>2
<1> DEFINE c == Pick(T)
<1>4. c \in T /\ IsFiniteSet(T) /\ IsFiniteSet(T \ {c})
  BY <1>3, PickIsElement, FS_Subset
<1>5. SumFunctionOnSet(f, T \ {c}) <= Cardinality(T \ {c}) * b
  BY <1>2, <1>4
<1>6. /\ SumFunctionOnSet(f, T \ {c}) \in Int /\ f[c] \in Int /\ f[c] <= b
      /\ Cardinality(T \ {c}) \in Int /\ Cardinality(T) = Cardinality(T \ {c}) + 1
  BY <1>4, SumIsInt, FS_CardinalityType, FS_RemoveElement
<1>7. SumFunctionOnSet(f, T) = f[c] + SumFunctionOnSet(f, T \ {c})
  BY <1>3, <1>4, SumPicks
<1>8. \A n \in Int : (n + 1) * b = n * b + b
  OBVIOUS
<1> HIDE DEF c
<1>9. SumFunctionOnSet(f, T) <= Cardinality(T) * b
  BY <1>5, <1>6, <1>7, <1>8
<1> QED BY <1>2, <1>9
=============================================================================
