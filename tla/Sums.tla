--------------------------------- MODULE Sums ---------------------------------
(***************************************************************************)
(* Finite sums, as the proofs of the other modules need them.              *)
(* SumFunctionOnSet takes the elements of a set in the order CHOOSE gives  *)
(* them; the lemmas say that it is the sum they have in any order. They go *)
(* by induction on the finite subsets, in the form that speaks of the set  *)
(* of subsets for which a statement holds.                                 *)
(***************************************************************************)
EXTENDS Integers, FiniteSets, FiniteSetsExt, FiniteSetTheorems, WellFoundedInduction, TLAPS

-----------------------------------------------------------------------------
(* Induction.                                                              *)

\* A statement that holds of a set as soon as it holds of all the sets with one
\* element less holds of every subset of a finite set.
LEMMA SubsetInduction ==
    ASSUME NEW S, IsFiniteSet(S), NEW Holds \in SUBSET (SUBSET S), {} \in Holds,
           \A T \in SUBSET S : T # {} /\ (\A x \in T : T \ {x} \in Holds) => T \in Holds
    PROVE  Holds = SUBSET S
<1> DEFINE Fails == (SUBSET S) \ Holds
           Smaller == StrictSubsetOrdering(S)
           All == SUBSET S
<1>1. SUFFICES ASSUME Fails # {} PROVE FALSE
  OBVIOUS
<1>2. FiniteSubsetsOf(S) = SUBSET S
  BY FS_FiniteSubsetsOfFinite
<1>3. IsWellFoundedOn(Smaller, All)
  BY <1>2, FS_StrictSubsetOrderingWellFounded
<1>4. Fails \subseteq All
  OBVIOUS
<1> HIDE DEF Fails, Smaller, All
<1>5. PICK T \in Fails : \A U \in Fails : <<U, T>> \notin Smaller
  BY <1>1, <1>3, <1>4, WFMin, Zenon
<1>6. \A x \in T : T \ {x} \in Holds
  <2> TAKE x \in T
  <2> DEFINE U == T \ {x}
  <2>1. U \in SUBSET S /\ T \in SUBSET S /\ U \subseteq T /\ U # T
    BY <1>4, <1>5 DEF All
  <2> HIDE DEF U
  <2>2. <<U, T>> \in Smaller
    BY <2>1 DEF StrictSubsetOrdering, Smaller
  <2> QED
    BY <2>1, <2>2, <1>5 DEF Fails, U
<1> QED
  BY <1>5, <1>6 DEF Fails

\* Induction over the natural numbers.
LEMMA CountingUp ==
    ASSUME NEW Holds \in SUBSET Nat, 0 \in Holds, \A n \in Holds : n + 1 \in Holds
    PROVE  Holds = Nat
<1> DEFINE Fails == Nat \ Holds
<1>1. SUFFICES ASSUME Fails # {} PROVE FALSE
  OBVIOUS
<1>2. Fails \subseteq Nat
  OBVIOUS
<1>3. PICK m \in Fails : \A n \in Fails : <<n, m>> \notin OpToRel(<, Nat)
  BY <1>1, <1>2, NatLessThanWellFounded, WFMin, Zenon
<1>4. m \in Nat \ {0}
  BY <1>3
<1>5. m - 1 \in Fails
  <2>1. m - 1 \in Nat /\ (m - 1) + 1 = m
    BY <1>4
  <2> QED
    BY <2>1, <1>3
<1>6. <<m - 1, m>> \in OpToRel(<, Nat)
  BY <1>4 DEF OpToRel
<1> QED
  BY <1>3, <1>5, <1>6

-----------------------------------------------------------------------------
(* The sum.                                                                *)

Pick(s) == CHOOSE x \in s : TRUE

\* One turn of the recursion, given the sums g of smaller sets.
Turn(f, g, s) == IF s = {} THEN 0 ELSE f[Pick(s)] + g[s \ {Pick(s)}]
Tally(f, S) == CHOOSE g : g = [s \in SUBSET S |-> Turn(f, g, s)]

LEMMA SumIsTally == ASSUME NEW f, NEW S PROVE SumFunctionOnSet(f, S) = Tally(f, S)[S]
BY DEF SumFunctionOnSet, FoldFunctionOnSet, MapThenFoldSet, Tally, Turn, Pick

LEMMA PickIn == ASSUME NEW s, s # {} PROVE Pick(s) \in s
BY DEF Pick

\* The recursion has a solution.
LEMMA TallyExists ==
    ASSUME NEW f, NEW S, IsFiniteSet(S)
    PROVE  \A s \in SUBSET S : Tally(f, S)[s] = Turn(f, Tally(f, S), s)
<1> DEFINE Upto(n) == \E g : \A s \in SUBSET S : Cardinality(s) <= n => g[s] = Turn(f, g, s)
           Good == {n \in Nat : Upto(n)}
<1>1. \A s \in SUBSET S : IsFiniteSet(s) /\ Cardinality(s) \in Nat
  BY FS_Subset, FS_CardinalityType
<1>2. 0 \in Good
  <2> DEFINE g == [s \in SUBSET S |-> 0]
  <2>1. \A s \in SUBSET S : Cardinality(s) <= 0 => s = {}
    BY <1>1, FS_EmptySet
  <2>2. \A s \in SUBSET S : Cardinality(s) <= 0 => g[s] = Turn(f, g, s)
    BY <2>1 DEF Turn
  <2> HIDE DEF g
  <2> QED
    BY <2>2
<1>3. ASSUME NEW n \in Good PROVE n + 1 \in Good
  <2>1. PICK g : \A s \in SUBSET S : Cardinality(s) <= n => g[s] = Turn(f, g, s)
    OBVIOUS
  <2> DEFINE h == [s \in SUBSET S |-> Turn(f, g, s)]
  <2>2. ASSUME NEW s \in SUBSET S, Cardinality(s) <= n + 1 PROVE h[s] = Turn(f, h, s)
    <3>1. CASE s = {}
      BY <3>1 DEF Turn
    <3>2. CASE s # {}
      <4> DEFINE t == s \ {Pick(s)}
      <4>1. t \in SUBSET S /\ Cardinality(t) = Cardinality(s) - 1
        BY <3>2, <1>1, PickIn, FS_RemoveElement
      <4>2. Cardinality(t) <= n
        BY <4>1, <1>1, <2>2
      <4>3. h[t] = g[t]
        BY <4>1, <4>2, <2>1
      <4> QED
        BY <4>3, <3>2 DEF Turn
    <3> QED
      BY <3>1, <3>2
  <2> HIDE DEF h
  <2>3. Upto(n + 1)
    BY <2>2
  <2> QED
    BY <2>3
<1> HIDE DEF Upto
<1>4. Good = Nat
  <2>1. Good \in SUBSET Nat
    OBVIOUS
  <2> HIDE DEF Good
  <2> QED
    BY <2>1, <1>2, <1>3, CountingUp
<1>5. Upto(Cardinality(S))
  BY <1>4, <1>1
<1>6. PICK g : \A s \in SUBSET S : Cardinality(s) <= Cardinality(S) => g[s] = Turn(f, g, s)
  BY <1>5 DEF Upto
<1>7. \A s \in SUBSET S : g[s] = Turn(f, g, s)
  BY <1>6, FS_Subset
<1> DEFINE h == [s \in SUBSET S |-> Turn(f, g, s)]
<1>8. \A s \in SUBSET S : h[s] = Turn(f, h, s)
  <2> SUFFICES ASSUME NEW s \in SUBSET S PROVE h[s] = Turn(f, h, s)
    OBVIOUS
  <2>1. s # {} => s \ {Pick(s)} \in SUBSET S
    OBVIOUS
  <2> QED
    BY <2>1, <1>7 DEF Turn
<1>9. h = [s \in SUBSET S |-> Turn(f, h, s)]
  BY <1>8
<1> HIDE DEF h
<1> DEFINE G == Tally(f, S)
<1>10. G = [s \in SUBSET S |-> Turn(f, G, s)]
  BY <1>9 DEF Tally
<1> HIDE DEF G
<1>11. \A s \in SUBSET S : G[s] = Turn(f, G, s)
  BY <1>10
<1> QED
  BY <1>11 DEF G

\* ... and no other.
LEMMA TallyUnique ==
    ASSUME NEW f, NEW S, IsFiniteSet(S), NEW T \in SUBSET S
    PROVE  Tally(f, S)[T] = Tally(f, T)[T]
<1> DEFINE G == Tally(f, S)
           H == Tally(f, T)
           Same == {s \in SUBSET T : G[s] = H[s]}
<1>1. IsFiniteSet(T)
  BY FS_Subset
<1>2. /\ \A s \in SUBSET S : G[s] = Turn(f, G, s)
      /\ \A s \in SUBSET T : H[s] = Turn(f, H, s)
  BY <1>1, TallyExists
<1> HIDE DEF G, H
<1>3. \A s \in SUBSET T : G[s] = Turn(f, G, s) /\ H[s] = Turn(f, H, s)
  BY <1>2
<1>4. {} \in Same
  BY <1>3 DEF Turn
<1>5. ASSUME NEW U \in SUBSET T, U # {}, \A x \in U : U \ {x} \in Same PROVE U \in Same
  <2>1. G[U \ {Pick(U)}] = H[U \ {Pick(U)}]
    BY <1>5, PickIn
  <2> QED
    BY <2>1, <1>3, <1>5 DEF Turn
<1>6. Same \in SUBSET (SUBSET T)
  OBVIOUS
<1> HIDE DEF Same
<1>7. Same = SUBSET T
  BY <1>1, <1>4, <1>5, <1>6, SubsetInduction
<1> QED
  BY <1>7 DEF Same, G, H

\* The sum of a set from that of the set without one element.
LEMMA SumTurn ==
    ASSUME NEW f, NEW S, IsFiniteSet(S)
    PROVE  /\ SumFunctionOnSet(f, {}) = 0
           /\ S # {} => SumFunctionOnSet(f, S)
                          = f[Pick(S)] + SumFunctionOnSet(f, S \ {Pick(S)})
<1> DEFINE G == Tally(f, S)
<1>1. \A s \in SUBSET S : G[s] = Turn(f, G, s)
  BY TallyExists
<1> HIDE DEF G
<1>2. G[S] = Turn(f, G, S) /\ G[{}] = 0
  BY <1>1 DEF Turn
<1>3. \A T \in SUBSET S : G[T] = Tally(f, T)[T]
  BY TallyUnique DEF G
<1>4. \A T \in SUBSET S : G[T] = SumFunctionOnSet(f, T)
  BY <1>3, SumIsTally
<1> QED
  BY <1>2, <1>4, PickIn DEF Turn

\* A sum of integers is an integer, one of naturals a natural.
LEMMA SumType ==
    ASSUME NEW S, IsFiniteSet(S), NEW f
    PROVE  /\ (\A x \in S : f[x] \in Int) => SumFunctionOnSet(f, S) \in Int
           /\ (\A x \in S : f[x] \in Nat) => SumFunctionOnSet(f, S) \in Nat
<1>1. ASSUME NEW N \in {Int, Nat}, \A x \in S : f[x] \in N PROVE SumFunctionOnSet(f, S) \in N
  <2> DEFINE Good == {T \in SUBSET S : SumFunctionOnSet(f, T) \in N}
  <2>0. 0 \in N /\ \A a, b \in N : a + b \in N
    <3>1. CASE N = Int
      BY <3>1
    <3>2. CASE N = Nat
      BY <3>2
    <3> QED
      BY <3>1, <3>2
  <2>1. {} \in Good
    <3>1. SumFunctionOnSet(f, {}) = 0
      BY SumTurn
    <3> QED
      BY <3>1, <2>0
  <2>2. ASSUME NEW T \in SUBSET S, T # {}, \A x \in T : T \ {x} \in Good PROVE T \in Good
    <3>1. Pick(T) \in T /\ IsFiniteSet(T)
      BY <2>2, PickIn, FS_Subset
    <3>2. SumFunctionOnSet(f, T) = f[Pick(T)] + SumFunctionOnSet(f, T \ {Pick(T)})
      BY <3>1, <2>2, SumTurn
    <3>3. f[Pick(T)] \in N /\ SumFunctionOnSet(f, T \ {Pick(T)}) \in N
      BY <3>1, <2>2, <1>1
    <3> QED
      BY <3>2, <3>3, <2>0
  <2>3. Good \in SUBSET (SUBSET S)
    OBVIOUS
  <2> HIDE DEF Good
  <2>4. Good = SUBSET S
    BY <2>1, <2>2, <2>3, SubsetInduction
  <2> QED
    BY <2>4 DEF Good
<1> QED
  BY <1>1

\* Any element may be taken first.
LEMMA SumStep ==
    ASSUME NEW S, IsFiniteSet(S), NEW f, \A x \in S : f[x] \in Int, NEW x \in S
    PROVE  SumFunctionOnSet(f, S) = f[x] + SumFunctionOnSet(f, S \ {x})
<1> DEFINE Sum(T) == SumFunctionOnSet(f, T)
           Good == {T \in SUBSET S : \A y \in T : Sum(T) = f[y] + Sum(T \ {y})}
<1>1. \A T \in SUBSET S : IsFiniteSet(T) /\ Sum(T) \in Int
  BY FS_Subset, SumType
<1>2. {} \in Good
  OBVIOUS
<1>3. ASSUME NEW T \in SUBSET S, T # {}, \A y \in T : T \ {y} \in Good PROVE T \in Good
  <2> DEFINE p == Pick(T)
  <2>1. p \in T /\ Sum(T) = f[p] + Sum(T \ {p})
    BY <1>1, <1>3, PickIn, SumTurn
  <2> HIDE DEF p, Sum
  <2>2. ASSUME NEW y \in T, y # p PROVE Sum(T) = f[y] + Sum(T \ {y})
    <3>1. Sum(T \ {p}) = f[y] + Sum((T \ {p}) \ {y})
      BY <2>1, <2>2, <1>3
    <3>2. Sum(T \ {y}) = f[p] + Sum((T \ {y}) \ {p})
      BY <2>1, <2>2, <1>3
    <3> DEFINE rest == Sum((T \ {y}) \ {p})
    <3>3. (T \ {p}) \ {y} = (T \ {y}) \ {p}
      OBVIOUS
    <3>4. f[y] \in Int /\ f[p] \in Int /\ rest \in Int
      BY <2>1, <2>2, <1>1
    <3>5. Sum(T \ {p}) = f[y] + rest /\ Sum(T \ {y}) = f[p] + rest
      BY <3>1, <3>2, <3>3
    <3> HIDE DEF rest
    <3> QED
      BY <2>1, <3>4, <3>5
  <2> QED
    BY <2>1, <2>2
<1>4. Good \in SUBSET (SUBSET S)
  OBVIOUS
<1> HIDE DEF Good
<1>5. Good = SUBSET S
  BY <1>2, <1>3, <1>4, SubsetInduction
<1> QED
  BY <1>5 DEF Good

\* Only the elements of the set count.
LEMMA SumSame ==
    ASSUME NEW S, IsFiniteSet(S), NEW f, NEW g, \A x \in S : f[x] = g[x]
    PROVE  SumFunctionOnSet(f, S) = SumFunctionOnSet(g, S)
<1> DEFINE Good == {T \in SUBSET S : SumFunctionOnSet(f, T) = SumFunctionOnSet(g, T)}
<1>1. {} \in Good
  BY SumTurn
<1>2. ASSUME NEW T \in SUBSET S, T # {}, \A x \in T : T \ {x} \in Good PROVE T \in Good
  <2> DEFINE p == Pick(T)
  <2>1. p \in T /\ p \in S /\ IsFiniteSet(T)
    BY <1>2, PickIn, FS_Subset
  <2>2. SumFunctionOnSet(f, T \ {p}) = SumFunctionOnSet(g, T \ {p}) /\ f[p] = g[p]
    BY <2>1, <1>2
  <2>3. /\ SumFunctionOnSet(f, T) = f[p] + SumFunctionOnSet(f, T \ {p})
        /\ SumFunctionOnSet(g, T) = g[p] + SumFunctionOnSet(g, T \ {p})
    BY <2>1, <1>2, SumTurn
  <2> QED
    BY <2>2, <2>3
<1>3. Good \in SUBSET (SUBSET S)
  OBVIOUS
<1> HIDE DEF Good
<1>4. Good = SUBSET S
  BY <1>1, <1>2, <1>3, SubsetInduction
<1> QED
  BY <1>4 DEF Good

\* What a sum gains when one of its terms changes.
LEMMA SumChange ==
    ASSUME NEW S, IsFiniteSet(S), NEW f, NEW g, NEW x \in S,
           \A y \in S : f[y] \in Int /\ g[y] \in Int,
           \A y \in S \ {x} : f[y] = g[y]
    PROVE  SumFunctionOnSet(g, S) = SumFunctionOnSet(f, S) - f[x] + g[x]
<1> DEFINE rest == SumFunctionOnSet(f, S \ {x})
<1>1. IsFiniteSet(S \ {x})
  BY FS_RemoveElement
<1>2. rest \in Int
  BY <1>1, SumType
<1>3. SumFunctionOnSet(g, S \ {x}) = rest
  BY <1>1, SumSame
<1>4. SumFunctionOnSet(f, S) = f[x] + rest
  BY SumStep
<1>5. SumFunctionOnSet(g, S) = g[x] + rest
  BY <1>3, SumStep
<1> HIDE DEF rest
<1> QED
  BY <1>2, <1>4, <1>5

\* No term of a sum of naturals is more than the sum.
LEMMA TermInSum ==
    ASSUME NEW S, IsFiniteSet(S), NEW f, \A x \in S : f[x] \in Nat,
           NEW x \in S
    PROVE  f[x] <= SumFunctionOnSet(f, S)
<1> DEFINE rest == SumFunctionOnSet(f, S \ {x})
<1>1. rest \in Nat
  BY FS_RemoveElement, SumType
<1>2. SumFunctionOnSet(f, S) = f[x] + rest
  BY SumStep
<1> HIDE DEF rest
<1> QED
  BY <1>1, <1>2

\* A set that gains a term, and one that loses it; the terms that stay are the same.
LEMMA SumGains ==
    ASSUME NEW S, IsFiniteSet(S), NEW T, NEW x \in T, S = T \ {x},
           NEW f, NEW g, \A y \in S : f[y] = g[y], \A y \in T : g[y] \in Int
    PROVE  SumFunctionOnSet(g, T) = SumFunctionOnSet(f, S) + g[x]
<1>1. IsFiniteSet(T) /\ T \ {x} = S
  <2>1. T = S \cup {x}
    OBVIOUS
  <2> QED
    BY <2>1, FS_AddElement
<1>2. SumFunctionOnSet(g, T) = g[x] + SumFunctionOnSet(g, T \ {x})
  BY <1>1, SumStep
<1>3. SumFunctionOnSet(f, S) = SumFunctionOnSet(g, S)
  BY SumSame
<1>4. SumFunctionOnSet(g, S) \in Int /\ g[x] \in Int
  BY SumType
<1>5. SumFunctionOnSet(g, T) = g[x] + SumFunctionOnSet(g, S)
  BY <1>1, <1>2
<1> QED
  BY <1>3, <1>4, <1>5

LEMMA SumLoses ==
    ASSUME NEW S, IsFiniteSet(S), NEW T, NEW x \in S, T = S \ {x},
           NEW f, NEW g, \A y \in T : f[y] = g[y], \A y \in S : f[y] \in Int
    PROVE  SumFunctionOnSet(g, T) = SumFunctionOnSet(f, S) - f[x]
<1>1. IsFiniteSet(T)
  BY FS_RemoveElement
<1>2. SumFunctionOnSet(f, S) = f[x] + SumFunctionOnSet(f, T)
  BY SumStep
<1>3. SumFunctionOnSet(f, T) = SumFunctionOnSet(g, T)
  BY <1>1, SumSame
<1>4. SumFunctionOnSet(f, T) \in Int /\ f[x] \in Int
  BY <1>1, SumType
<1> QED
  BY <1>2, <1>3, <1>4

\* A sum over fewer elements, each at most as much, is at most as much.
LEMMA SumAtMost ==
    ASSUME NEW T, IsFiniteSet(T), NEW S \in SUBSET T, NEW f, NEW g,
           \A x \in S : f[x] \in Nat /\ f[x] <= g[x], \A x \in T : g[x] \in Nat
    PROVE  SumFunctionOnSet(f, S) <= SumFunctionOnSet(g, T)
<1> DEFINE Good == {U \in SUBSET T : SumFunctionOnSet(f, U \cap S) <= SumFunctionOnSet(g, U)}
<1>1. {} \in Good
  <2>1. {} \cap S = {}
    OBVIOUS
  <2>2. SumFunctionOnSet(f, {}) = 0 /\ SumFunctionOnSet(g, {}) = 0
    BY FS_EmptySet, SumTurn
  <2>3. SumFunctionOnSet(f, {} \cap S) <= SumFunctionOnSet(g, {})
    BY <2>1, <2>2
  <2> QED
    BY <2>3
<1>2. ASSUME NEW U \in SUBSET T, U # {}, \A x \in U : U \ {x} \in Good PROVE U \in Good
  <2> DEFINE p == Pick(U)
             rest == U \ {p}
  <2>1. p \in U /\ IsFiniteSet(U) /\ IsFiniteSet(rest)
    BY <1>2, PickIn, FS_Subset
  <2>2. SumFunctionOnSet(f, rest \cap S) <= SumFunctionOnSet(g, rest)
    BY <1>2, <2>1
  <2>3. SumFunctionOnSet(g, U) = g[p] + SumFunctionOnSet(g, rest)
    BY <2>1, SumStep
  <2>4. /\ IsFiniteSet(rest \cap S) /\ IsFiniteSet(U \cap S)
        /\ SumFunctionOnSet(f, rest \cap S) \in Nat /\ SumFunctionOnSet(g, rest) \in Nat
    <3>1. IsFiniteSet(rest \cap S) /\ IsFiniteSet(U \cap S)
      BY <2>1, FS_Intersection
    <3> QED
      BY <2>1, <3>1, SumType
  <2>5. CASE p \in S
    <3>1. (U \cap S) \ {p} = rest \cap S /\ p \in U \cap S
      BY <2>1, <2>5
    <3>2. SumFunctionOnSet(f, U \cap S) = f[p] + SumFunctionOnSet(f, rest \cap S)
      <4> DEFINE V == U \cap S
      <4>1. IsFiniteSet(V) /\ (\A x \in V : f[x] \in Int) /\ p \in V
        BY <2>4, <3>1
      <4> HIDE DEF V, p
      <4>2. SumFunctionOnSet(f, V) = f[p] + SumFunctionOnSet(f, V \ {p})
        BY <4>1, SumStep
      <4> QED
        BY <3>1, <4>2 DEF V
    <3>3. f[p] \in Nat /\ g[p] \in Nat /\ f[p] <= g[p]
      BY <2>1, <2>5
    <3> HIDE DEF rest, p
    <3>4. SumFunctionOnSet(f, U \cap S) <= SumFunctionOnSet(g, U)
      BY <2>2, <2>3, <2>4, <3>2, <3>3
    <3> QED
      BY <3>4
  <2>6. CASE p \notin S
    <3>1. U \cap S = rest \cap S
      BY <2>6
    <3>2. g[p] \in Nat
      BY <2>1
    <3>0. SumFunctionOnSet(f, U \cap S) = SumFunctionOnSet(f, rest \cap S)
      BY <3>1
    <3> HIDE DEF rest, p
    <3>3. SumFunctionOnSet(f, U \cap S) <= SumFunctionOnSet(g, U)
      BY <2>2, <2>3, <2>4, <3>0, <3>2
    <3> QED
      BY <3>3
  <2> QED
    BY <2>5, <2>6
<1>3. Good = SUBSET T
  <2> HIDE DEF Good
  <2>1. Good \in SUBSET (SUBSET T)
    BY DEF Good
  <2> QED
    BY <1>1, <1>2, <2>1, SubsetInduction
<1>4. T \cap S = S /\ T \in Good
  BY <1>3
<1> QED
  BY <1>4
===============================================================================
