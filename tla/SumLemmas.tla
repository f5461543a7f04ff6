------------------------------ MODULE SumLemmas ------------------------------
(***************************************************************************)
(* Sums over finite sets, as the models use them: MapThenSumSet of the     *)
(* community modules.  The library states what such a sum is for an        *)
(* operator; the provers cannot instantiate an operator, so the facts      *)
(* below are stated for a function: SumOver is what a model's sum of the   *)
(* values of a function comes to.                                          *)
(***************************************************************************)
EXTENDS Integers, FiniteSets, FiniteSetsExt, FiniteSetTheorems,
        WellFoundedInduction, TLAPS

\* The sum of f over S.
SumOver(f, S) == MapThenSumSet(LAMBDA x : f[x], S)

Pick(s) == CHOOSE x \in s : TRUE

\* h is the running sum over the subsets of S that MapThenSumSet recurses on.
IsRunningSum(h, f, S) ==
  h = [s \in SUBSET S |-> IF s = {} THEN 0 ELSE f[Pick(s)] + h[s \ {Pick(s)}]]

RunningSum(f, S) == CHOOSE h : IsRunningSum(h, f, S)

----------------------------------------------------------------------------
(* Induction over the subsets of a finite set *)

\* A set A of subsets of S that has each subset of S all of whose proper
\* subsets it has is the set of all of them: the library's induction over
\* finite sets, for a set of sets instead of a predicate.
LEMMA SubsetInduction ==
  ASSUME NEW S, IsFiniteSet(S), NEW A \in SUBSET SUBSET S,
         \A U \in SUBSET S : (\A V \in SUBSET U : V # U => V \in A) => U \in A
  PROVE  A = SUBSET S
<1> DEFINE B == (SUBSET S) \ A
<1> SUFFICES ASSUME B # {} PROVE FALSE
  OBVIOUS
<1>1. IsWellFoundedOn(StrictSubsetOrdering(S), FiniteSubsetsOf(S))
  BY FS_StrictSubsetOrderingWellFounded
<1>2. B \subseteq FiniteSubsetsOf(S)
  BY FS_Subset DEF FiniteSubsetsOf
<1>3. PICK U \in B : \A V \in B : ~(<<V, U>> \in StrictSubsetOrdering(S))
  <2> HIDE DEF B
  <2> QED BY <1>1, <1>2, WFMin
<1>4. PICK V \in SUBSET U : V # U /\ V \notin A
  BY <1>3
<1>5. V \in B /\ <<V, U>> \in StrictSubsetOrdering(S)
  BY <1>3, <1>4 DEF StrictSubsetOrdering
<1> QED BY <1>3, <1>5

----------------------------------------------------------------------------
(* The running sum exists and is the only one *)

\* MapThenSumSet is the running sum at S.
LEMMA SumIsRunningSum ==
  ASSUME NEW f, NEW S
  PROVE  SumOver(f, S) = RunningSum(f, S)[S]
  BY DEF SumOver, RunningSum, IsRunningSum, Pick, MapThenSumSet, MapThenFoldSet

\* Pick takes an element.
LEMMA PickIn == \A s : s # {} => Pick(s) \in s
  BY DEF Pick

\* Two running sums over S agree.
LEMMA RunningSumUnique ==
  ASSUME NEW S, IsFiniteSet(S), NEW f, NEW g, NEW h,
         IsRunningSum(g, f, S), IsRunningSum(h, f, S)
  PROVE  g = h
<1> DEFINE A == {s \in SUBSET S : g[s] = h[s]}
<1>1. ASSUME NEW U \in SUBSET S, \A V \in SUBSET U : V # U => V \in A
      PROVE  U \in A
  <2>1. CASE U = {}
    BY <2>1 DEF IsRunningSum
  <2>2. CASE U # {}
    <3>1. g[U \ {Pick(U)}] = h[U \ {Pick(U)}]
      BY <1>1, <2>2, PickIn
    <3> QED BY <2>2, <3>1 DEF IsRunningSum
  <2> QED BY <2>1, <2>2
<1>2. A = SUBSET S
  <2> HIDE DEF A
  <2>1. A \in SUBSET SUBSET S
    BY DEF A
  <2> QED BY <1>1, <2>1, SubsetInduction
<1>3. \A s \in SUBSET S : g[s] = h[s]
  BY <1>2
<1> QED BY <1>3 DEF IsRunningSum

\* The running sum over S, seen on the subsets of T, is the one over T.
LEMMA RunningSumRestrict ==
  ASSUME NEW S, NEW T \in SUBSET S, NEW f, NEW h, IsRunningSum(h, f, S),
         NEW g, g = [s \in SUBSET T |-> h[s]]
  PROVE  IsRunningSum(g, f, T)
<1>1. \A s \in SUBSET T : g[s] = IF s = {} THEN 0 ELSE f[Pick(s)] + g[s \ {Pick(s)}]
  <2> TAKE s \in SUBSET T
  <2>1. s \in SUBSET S /\ s \ {Pick(s)} \in SUBSET T
    OBVIOUS
  <2> QED BY <2>1 DEF IsRunningSum
<1>2. g = [s \in SUBSET T |-> g[s]]
  OBVIOUS
<1>3. g = [s \in SUBSET T |-> IF s = {} THEN 0 ELSE f[Pick(s)] + g[s \ {Pick(s)}]]
  BY <1>1, <1>2
<1> QED BY <1>3 DEF IsRunningSum

\* It exists.
LEMMA RunningSumExists ==
  ASSUME NEW S, IsFiniteSet(S), NEW f
  PROVE  \A T \in SUBSET S : IsRunningSum(RunningSum(f, T), f, T)
<1> DEFINE A == {T \in SUBSET S : IsRunningSum(RunningSum(f, T), f, T)}
           R(s) == RunningSum(f, s)[s]
<1>1. ASSUME NEW U \in SUBSET S, \A V \in SUBSET U : V # U => V \in A
      PROVE  U \in A
  <2>1. ASSUME NEW s \in SUBSET U, s # U, s # {}
        PROVE  R(s) = f[Pick(s)] + R(s \ {Pick(s)})
    <3> DEFINE V == s \ {Pick(s)}
               g == [v \in SUBSET V |-> RunningSum(f, s)[v]]
    <3>1. /\ IsRunningSum(RunningSum(f, s), f, s)
          /\ IsRunningSum(RunningSum(f, V), f, V)
      <4>1. V \in SUBSET U /\ V # U
        BY <2>1, PickIn
      <4> HIDE DEF V
      <4> QED BY <1>1, <2>1, <4>1
    <3>2. IsFiniteSet(V)
      BY FS_Subset
    <3>3. IsRunningSum(g, f, V)
      <4>1. V \in SUBSET s
        OBVIOUS
      <4>2. g = [v \in SUBSET V |-> RunningSum(f, s)[v]]
        OBVIOUS
      <4> HIDE DEF V, g
      <4> QED BY <3>1, <4>1, <4>2, RunningSumRestrict
    <3>4. g = RunningSum(f, V)
      <4> HIDE DEF g, V
      <4> QED BY <3>1, <3>2, <3>3, RunningSumUnique
    <3>5. RunningSum(f, s)[V] = R(V)
      BY <3>4
    <3>6. R(s) = f[Pick(s)] + RunningSum(f, s)[V]
      <4> HIDE DEF R
      <4>1. RunningSum(f, s)[s] = f[Pick(s)] + RunningSum(f, s)[V]
        BY <2>1, <3>1 DEF IsRunningSum
      <4> QED BY <4>1 DEF R
    <3> QED BY <3>5, <3>6
  <2>2. ASSUME {} # U PROVE R({}) = 0
    <3>1. IsRunningSum(RunningSum(f, {}), f, {})
      BY <1>1, <2>2
    <3> QED BY <3>1 DEF IsRunningSum
  <2> DEFINE h == [s \in SUBSET U |->
                     IF s # U THEN R(s)
                     ELSE IF U = {} THEN 0 ELSE f[Pick(U)] + R(U \ {Pick(U)})]
  <2>3. ASSUME NEW s \in SUBSET U
        PROVE  h[s] = IF s = {} THEN 0 ELSE f[Pick(s)] + h[s \ {Pick(s)}]
    <3> HIDE DEF R
    <3>1. CASE s = {}
      BY <2>2, <3>1
    <3>2. CASE s # {}
      <4>1. s \ {Pick(s)} \in SUBSET U /\ s \ {Pick(s)} # U
        BY <3>2, PickIn
      <4>2. h[s \ {Pick(s)}] = R(s \ {Pick(s)})
        BY <4>1
      <4>3. h[s] = f[Pick(s)] + R(s \ {Pick(s)})
        BY <2>1, <3>2
      <4> QED BY <3>2, <4>2, <4>3
    <3> QED BY <3>1, <3>2
  <2>4. IsRunningSum(h, f, U)
    <3>1. h = [s \in SUBSET U |-> h[s]]
      OBVIOUS
    <3> HIDE DEF h
    <3>2. h = [s \in SUBSET U |-> IF s = {} THEN 0 ELSE f[Pick(s)] + h[s \ {Pick(s)}]]
      BY <2>3, <3>1
    <3> QED BY <3>2 DEF IsRunningSum
  <2>5. IsRunningSum(RunningSum(f, U), f, U)
    <3> HIDE DEF h
    <3> QED BY <2>4, Zenon DEF RunningSum
  <2> QED BY <2>5
<1>2. A = SUBSET S
  <2> HIDE DEF A
  <2>1. A \in SUBSET SUBSET S
    BY DEF A
  <2> QED BY <1>1, <2>1, SubsetInduction
<1> QED BY <1>2

\* The recursion equation of the sum.
LEMMA SumEquation ==
  ASSUME NEW S, IsFiniteSet(S), NEW f, S # {}
  PROVE  SumOver(f, S) = f[Pick(S)] + SumOver(f, S \ {Pick(S)})
<1> DEFINE V == S \ {Pick(S)}
           h == RunningSum(f, S)
           g == [v \in SUBSET V |-> h[v]]
<1>1. IsRunningSum(h, f, S) /\ IsRunningSum(RunningSum(f, V), f, V)
  BY RunningSumExists
<1>2. IsFiniteSet(V)
  BY FS_Subset
<1>3. g = RunningSum(f, V)
  <2>1. IsRunningSum(g, f, V)
    <3>1. V \in SUBSET S
      OBVIOUS
    <3>2. g = [v \in SUBSET V |-> h[v]]
      OBVIOUS
    <3> HIDE DEF h, V, g
    <3> QED BY <1>1, <3>1, <3>2, RunningSumRestrict
  <2> HIDE DEF g, h, V
  <2> QED BY <1>1, <1>2, <2>1, RunningSumUnique
<1>4. h[V] = RunningSum(f, V)[V]
  <2>1. g[V] = h[V]
    <3> HIDE DEF h
    <3> QED OBVIOUS
  <2> HIDE DEF g, h, V
  <2> QED BY <1>3, <2>1
<1>5. h[S] = f[Pick(S)] + h[V]
  <2> HIDE DEF h
  <2> QED BY <1>1 DEF IsRunningSum
<1>6. SumOver(f, S) = h[S] /\ SumOver(f, V) = RunningSum(f, V)[V]
  BY SumIsRunningSum
<1> HIDE DEF h, V
<1>7. SumOver(f, S) = f[Pick(S)] + SumOver(f, V)
  BY <1>4, <1>5, <1>6
<1> QED BY <1>7 DEF V

----------------------------------------------------------------------------
(* The facts the proofs about the models use *)

\* The sum over no element.
LEMMA SumEmpty ==
  ASSUME NEW f
  PROVE  SumOver(f, {}) = 0
<1>1. IsRunningSum(RunningSum(f, {}), f, {})
  BY FS_EmptySet, RunningSumExists
<1>2. RunningSum(f, {})[{}] = 0
  BY <1>1 DEF IsRunningSum
<1> QED BY <1>2, SumIsRunningSum

\* A sum of integers is an integer.
LEMMA SumInt ==
  ASSUME NEW S, IsFiniteSet(S), NEW f, \A x \in S : f[x] \in Int
  PROVE  SumOver(f, S) \in Int
<1> DEFINE A == {T \in SUBSET S : SumOver(f, T) \in Int}
<1>1. ASSUME NEW U \in SUBSET S, \A V \in SUBSET U : V # U => V \in A
      PROVE  U \in A
  <2>1. CASE U = {}
    BY <2>1, SumEmpty
  <2>2. CASE U # {}
    <3>1. SumOver(f, U \ {Pick(U)}) \in Int /\ Pick(U) \in U
      BY <1>1, <2>2, PickIn
    <3>2. SumOver(f, U) = f[Pick(U)] + SumOver(f, U \ {Pick(U)})
      BY <2>2, FS_Subset, SumEquation
    <3>3. SumOver(f, U) \in Int
      BY <3>1, <3>2
    <3> QED BY <3>3
  <2> QED BY <2>1, <2>2
<1>2. A = SUBSET S
  <2> HIDE DEF A
  <2>1. A \in SUBSET SUBSET S
    BY DEF A
  <2> QED BY <1>1, <2>1, SubsetInduction
<1> QED BY <1>2

\* A sum of naturals is a natural.
LEMMA SumNat ==
  ASSUME NEW S, IsFiniteSet(S), NEW f, \A x \in S : f[x] \in Nat
  PROVE  SumOver(f, S) \in Nat
<1> DEFINE A == {T \in SUBSET S : SumOver(f, T) \in Nat}
<1>1. ASSUME NEW U \in SUBSET S, \A V \in SUBSET U : V # U => V \in A
      PROVE  U \in A
  <2>1. CASE U = {}
    BY <2>1, SumEmpty
  <2>2. CASE U # {}
    <3>1. SumOver(f, U \ {Pick(U)}) \in Nat /\ Pick(U) \in U
      BY <1>1, <2>2, PickIn
    <3>2. SumOver(f, U) = f[Pick(U)] + SumOver(f, U \ {Pick(U)})
      BY <2>2, FS_Subset, SumEquation
    <3>3. SumOver(f, U) \in Nat
      BY <3>1, <3>2
    <3> QED BY <3>3
  <2> QED BY <2>1, <2>2
<1>2. A = SUBSET S
  <2> HIDE DEF A
  <2>1. A \in SUBSET SUBSET S
    BY DEF A
  <2> QED BY <1>1, <2>1, SubsetInduction
<1> QED BY <1>2

\* Any element may be taken out of a sum, whichever the recursion picks.
LEMMA SumRemove ==
  ASSUME NEW S, IsFiniteSet(S), NEW f, \A x \in S : f[x] \in Int, NEW y \in S
  PROVE  SumOver(f, S) = f[y] + SumOver(f, S \ {y})
<1> DEFINE A == {T \in SUBSET S : \A x \in T : SumOver(f, T) = f[x] + SumOver(f, T \ {x})}
<1>1. ASSUME NEW U \in SUBSET S, \A V \in SUBSET U : V # U => V \in A
      PROVE  U \in A
  <2>1. ASSUME NEW x \in U PROVE SumOver(f, U) = f[x] + SumOver(f, U \ {x})
    <3> DEFINE p == Pick(U)
    <3>1. p \in U
      BY PickIn
    <3> HIDE DEF p
    <3>2. SumOver(f, U) = f[p] + SumOver(f, U \ {p})
      BY FS_Subset, SumEquation DEF p
    <3>3. CASE x = p
      BY <3>2, <3>3
    <3>4. CASE x # p
      <4>1. U \ {p} \in A /\ U \ {x} \in A
        BY <1>1, <3>1
      <4>2. SumOver(f, U \ {p}) = f[x] + SumOver(f, (U \ {p}) \ {x})
        BY <3>4, <4>1
      <4>3. SumOver(f, U \ {x}) = f[p] + SumOver(f, (U \ {x}) \ {p})
        BY <3>1, <3>4, <4>1
      <4>4. SumOver(f, (U \ {p}) \ {x}) = SumOver(f, (U \ {x}) \ {p})
        <5>1. (U \ {p}) \ {x} = (U \ {x}) \ {p}
          OBVIOUS
        <5> QED BY <5>1, Zenon
      <4>5. SumOver(f, (U \ {x}) \ {p}) \in Int
        <5>1. (U \ {x}) \ {p} \in SUBSET S /\ IsFiniteSet((U \ {x}) \ {p})
          BY FS_Subset
        <5> QED BY <5>1, SumInt
      <4>6. f[x] \in Int /\ f[p] \in Int
        <5>1. x \in S /\ p \in S
          BY <3>1
        <5> QED BY <5>1
      <4> QED BY <3>2, <4>2, <4>3, <4>4, <4>5, <4>6
    <3> QED BY <3>3, <3>4
  <2> QED BY <2>1
<1>2. A = SUBSET S
  <2> HIDE DEF A
  <2>1. A \in SUBSET SUBSET S
    BY DEF A
  <2> QED BY <1>1, <2>1, SubsetInduction
<1> QED BY <1>2

\* One element more.
LEMMA SumAdd ==
  ASSUME NEW S, IsFiniteSet(S), NEW y, y \notin S,
         NEW f, \A x \in S \cup {y} : f[x] \in Int
  PROVE  SumOver(f, S \cup {y}) = SumOver(f, S) + f[y]
<1>1. IsFiniteSet(S \cup {y})
  BY FS_AddElement
<1>2. SumOver(f, S \cup {y}) = f[y] + SumOver(f, (S \cup {y}) \ {y})
  BY <1>1, SumRemove
<1>3. SumOver(f, (S \cup {y}) \ {y}) = SumOver(f, S)
  <2>1. (S \cup {y}) \ {y} = S
    OBVIOUS
  <2> QED BY <2>1, Zenon
<1>4. f[y] \in Int /\ \A x \in S : f[x] \in Int
  OBVIOUS
<1>5. SumOver(f, S) \in Int
  BY <1>4, SumInt
<1> QED BY <1>2, <1>3, <1>4, <1>5

\* Two functions that agree on S have the same sum over it.
LEMMA SumSame ==
  ASSUME NEW S, IsFiniteSet(S), NEW f, NEW g, \A x \in S : f[x] = g[x]
  PROVE  SumOver(f, S) = SumOver(g, S)
<1> DEFINE A == {T \in SUBSET S : SumOver(f, T) = SumOver(g, T)}
<1>1. ASSUME NEW U \in SUBSET S, \A V \in SUBSET U : V # U => V \in A
      PROVE  U \in A
  <2>1. CASE U = {}
    BY <2>1, SumEmpty
  <2>2. CASE U # {}
    <3>1. SumOver(f, U \ {Pick(U)}) = SumOver(g, U \ {Pick(U)}) /\ Pick(U) \in U
      BY <1>1, <2>2, PickIn
    <3>2. SumOver(f, U) = f[Pick(U)] + SumOver(f, U \ {Pick(U)})
      BY <2>2, FS_Subset, SumEquation
    <3>3. SumOver(g, U) = g[Pick(U)] + SumOver(g, U \ {Pick(U)})
      BY <2>2, FS_Subset, SumEquation
    <3>4. SumOver(f, U) = SumOver(g, U)
      BY <3>1, <3>2, <3>3
    <3> QED BY <3>4
  <2> QED BY <2>1, <2>2
<1>2. A = SUBSET S
  <2> HIDE DEF A
  <2>1. A \in SUBSET SUBSET S
    BY DEF A
  <2> QED BY <1>1, <2>1, SubsetInduction
<1> QED BY <1>2

\* Two sets without a common element.
LEMMA SumUnion ==
  ASSUME NEW S, IsFiniteSet(S), NEW T, IsFiniteSet(T), S \cap T = {},
         NEW f, \A x \in S \cup T : f[x] \in Int
  PROVE  SumOver(f, S \cup T) = SumOver(f, S) + SumOver(f, T)
<1> DEFINE A == {U \in SUBSET T : SumOver(f, S \cup U) = SumOver(f, S) + SumOver(f, U)}
<1>1. ASSUME NEW U \in SUBSET T, \A V \in SUBSET U : V # U => V \in A
      PROVE  U \in A
  <2>1. CASE U = {}
    <3>1. S \cup {} = S
      OBVIOUS
    <3>2. SumOver(f, S) \in Int
      BY SumInt
    <3>3. SumOver(f, S \cup {}) = SumOver(f, S)
      BY <3>1, Zenon
    <3>4. SumOver(f, S \cup U) = SumOver(f, S) + SumOver(f, U)
      BY <2>1, <3>2, <3>3, SumEmpty
    <3> QED BY <3>4
  <2>2. ASSUME NEW y \in U PROVE U \in A
    <3> DEFINE V == U \ {y}
    <3>1. SumOver(f, S \cup V) = SumOver(f, S) + SumOver(f, V)
      BY <1>1
    <3>2. /\ IsFiniteSet(S \cup V) /\ IsFiniteSet(V) /\ y \notin S \cup V /\ y \notin V
          /\ \A x \in (S \cup V) \cup {y} : f[x] \in Int
          /\ \A x \in V \cup {y} : f[x] \in Int
          /\ (S \cup V) \cup {y} = S \cup U /\ V \cup {y} = U
      BY FS_Subset, FS_Union
    <3>3. SumOver(f, S) \in Int /\ SumOver(f, V) \in Int /\ f[y] \in Int
      <4>1. \A x \in S : f[x] \in Int
        OBVIOUS
      <4>2. \A x \in V : f[x] \in Int
        OBVIOUS
      <4> HIDE DEF V
      <4> QED BY <3>2, <4>1, <4>2, SumInt
    <3> HIDE DEF V
    <3>4. SumOver(f, (S \cup V) \cup {y}) = SumOver(f, S \cup V) + f[y]
      BY <3>2, SumAdd
    <3>5. SumOver(f, V \cup {y}) = SumOver(f, V) + f[y]
      BY <3>2, SumAdd
    <3>6. /\ SumOver(f, (S \cup V) \cup {y}) = SumOver(f, S \cup U)
          /\ SumOver(f, V \cup {y}) = SumOver(f, U)
      BY <3>2, Zenon
    <3>7. SumOver(f, S \cup U) = SumOver(f, S) + SumOver(f, U)
      BY <3>1, <3>3, <3>4, <3>5, <3>6
    <3> QED BY <3>7
  <2> QED BY <2>1, <2>2
<1>2. A = SUBSET T
  <2> HIDE DEF A
  <2>1. A \in SUBSET SUBSET T
    BY DEF A
  <2> QED BY <1>1, <2>1, SubsetInduction
<1> QED BY <1>2

\* Fewer naturals sum up to no more.
LEMMA SumSubset ==
  ASSUME NEW S, IsFiniteSet(S), NEW T \in SUBSET S, NEW f, \A x \in S : f[x] \in Nat
  PROVE  SumOver(f, T) <= SumOver(f, S)
<1> DEFINE R == S \ T
<1>1. /\ IsFiniteSet(T) /\ IsFiniteSet(R) /\ T \cap R = {} /\ T \cup R = S
      /\ \A x \in T : f[x] \in Nat
      /\ \A x \in R : f[x] \in Nat
      /\ \A x \in T \cup R : f[x] \in Int
  BY FS_Subset
<1> HIDE DEF R
<1>2. SumOver(f, T \cup R) = SumOver(f, T) + SumOver(f, R)
  BY <1>1, SumUnion
<1>3. SumOver(f, T \cup R) = SumOver(f, S)
  BY <1>1, Zenon
<1>4. SumOver(f, T) \in Nat /\ SumOver(f, R) \in Nat
  BY <1>1, SumNat
<1> QED BY <1>2, <1>3, <1>4

\* Values added up one by one, or each kind by itself.
LEMMA SumPlus ==
  ASSUME NEW S, IsFiniteSet(S), NEW f, \A x \in S : f[x] \in Int,
         NEW g, \A x \in S : g[x] \in Int, NEW h, \A x \in S : h[x] = f[x] + g[x]
  PROVE  SumOver(h, S) = SumOver(f, S) + SumOver(g, S)
<1> DEFINE A == {T \in SUBSET S : SumOver(h, T) = SumOver(f, T) + SumOver(g, T)}
<1>1. ASSUME NEW U \in SUBSET S, \A V \in SUBSET U : V # U => V \in A
      PROVE  U \in A
  <2>1. CASE U = {}
    BY <2>1, SumEmpty
  <2>2. ASSUME NEW y \in U PROVE U \in A
    <3> DEFINE V == U \ {y}
    <3>1. SumOver(h, V) = SumOver(f, V) + SumOver(g, V)
      BY <1>1
    <3>2. /\ IsFiniteSet(V) /\ y \notin V /\ V \cup {y} = U
          /\ \A x \in V \cup {y} : f[x] \in Int
          /\ \A x \in V \cup {y} : g[x] \in Int
          /\ \A x \in V \cup {y} : h[x] = f[x] + g[x]
      BY FS_Subset
    <3> HIDE DEF V
    <3>3. \A x \in V \cup {y} : h[x] \in Int
      BY <3>2
    <3>4. SumOver(f, V \cup {y}) = SumOver(f, V) + f[y]
      BY <3>2, SumAdd
    <3>5. SumOver(g, V \cup {y}) = SumOver(g, V) + g[y]
      BY <3>2, SumAdd
    <3>6. SumOver(h, V \cup {y}) = SumOver(h, V) + h[y]
      BY <3>2, <3>3, SumAdd
    <3>7. SumOver(f, V) \in Int /\ SumOver(g, V) \in Int /\ f[y] \in Int /\ g[y] \in Int
          /\ h[y] = f[y] + g[y]
      <4>1. (\A x \in V : f[x] \in Int) /\ (\A x \in V : g[x] \in Int)
        BY <3>2
      <4> QED BY <3>2, <4>1, SumInt
    <3>8. SumOver(h, V \cup {y}) = SumOver(f, V \cup {y}) + SumOver(g, V \cup {y})
      BY <3>1, <3>4, <3>5, <3>6, <3>7
    <3>9. SumOver(h, U) = SumOver(f, U) + SumOver(g, U)
      BY <3>2, <3>8, Zenon
    <3> QED BY <3>9
  <2> QED BY <2>1, <2>2
<1>2. A = SUBSET S
  <2> HIDE DEF A
  <2>1. A \in SUBSET SUBSET S
    BY DEF A
  <2> QED BY <1>1, <2>1, SubsetInduction
<1> QED BY <1>2

\* Values in disjoint parts, summed up part by part.
LEMMA SumOfParts ==
  ASSUME NEW S, IsFiniteSet(S), NEW f, \A x \in S : f[x] \in Int,
         NEW K, IsFiniteSet(K), NEW part, \A k \in K : part[k] \in SUBSET S,
         \A j, k \in K : j # k => part[j] \cap part[k] = {},
         \A x \in S : \E k \in K : x \in part[k],
         NEW g, \A k \in K : g[k] = SumOver(f, part[k])
  PROVE  SumOver(g, K) = SumOver(f, S)
<1> DEFINE Of(J) == UNION {part[k] : k \in J}
           A == {J \in SUBSET K : SumOver(g, J) = SumOver(f, Of(J))}
<1>1. \A R \in SUBSET S : IsFiniteSet(R) /\ SumOver(f, R) \in Int
  <2> TAKE R \in SUBSET S
  <2>1. IsFiniteSet(R) /\ \A x \in R : f[x] \in Int
    BY FS_Subset
  <2> QED BY <2>1, SumInt
<1>2. ASSUME NEW J \in SUBSET K, \A V \in SUBSET J : V # J => V \in A
      PROVE  J \in A
  <2>1. CASE J = {}
    <3>1. Of(J) = {}
      BY <2>1
    <3>2. SumOver(g, J) = 0 /\ SumOver(f, Of(J)) = 0
      BY <2>1, <3>1, SumEmpty, Zenon
    <3> QED BY <3>2
  <2>2. ASSUME NEW y \in J PROVE J \in A
    <3> DEFINE V == J \ {y}
    <3>1. SumOver(g, V) = SumOver(f, Of(V))
      BY <1>2
    <3>2. /\ Of(V) \in SUBSET S /\ part[y] \in SUBSET S /\ Of(V) \cap part[y] = {}
          /\ V \in SUBSET K /\ y \notin V /\ V \cup {y} = J /\ y \in K
      OBVIOUS
    <3>3. Of(V) \cup part[y] = Of(J)
      OBVIOUS
    <3>4. \A k \in K : g[k] \in Int
      BY <1>1
    <3>5. IsFiniteSet(V)
      BY <3>2, FS_Subset
    <3> HIDE DEF V, Of
    <3>6. SumOver(g, V \cup {y}) = SumOver(g, V) + g[y]
      <4>1. \A x \in V \cup {y} : g[x] \in Int
        BY <3>2, <3>4
      <4> QED BY <3>2, <3>5, <4>1, SumAdd
    <3>7. SumOver(f, Of(V) \cup part[y]) = SumOver(f, Of(V)) + SumOver(f, part[y])
      <4>1. IsFiniteSet(Of(V)) /\ IsFiniteSet(part[y]) /\ \A x \in Of(V) \cup part[y] : f[x] \in Int
        BY <1>1, <3>2
      <4> QED BY <3>2, <4>1, SumUnion
    <3>8. SumOver(g, V \cup {y}) = SumOver(f, Of(V) \cup part[y])
      BY <3>1, <3>2, <3>6, <3>7
    <3>9. SumOver(g, J) = SumOver(f, Of(J))
      BY <3>2, <3>3, <3>8, Zenon
    <3> QED BY <3>9
  <2> QED BY <2>1, <2>2
<1>3. A = SUBSET K
  <2> HIDE DEF A
  <2>1. A \in SUBSET SUBSET K
    BY DEF A
  <2> QED BY <1>2, <2>1, SubsetInduction
<1>4. SumOver(g, K) = SumOver(f, Of(K))
  BY <1>3
<1>5. Of(K) = S
  OBVIOUS
<1> QED BY <1>4, <1>5, Zenon

\* Counting is adding up ones.
LEMMA SumOfOnes ==
  ASSUME NEW S, IsFiniteSet(S), NEW one, \A x \in S : one[x] = 1
  PROVE  SumOver(one, S) = Cardinality(S)
<1> DEFINE A == {T \in SUBSET S : SumOver(one, T) = Cardinality(T)}
<1>1. ASSUME NEW U \in SUBSET S, \A V \in SUBSET U : V # U => V \in A
      PROVE  U \in A
  <2>1. CASE U = {}
    BY <2>1, SumEmpty, FS_EmptySet
  <2>2. ASSUME NEW y \in U PROVE U \in A
    <3> DEFINE V == U \ {y}
    <3>1. SumOver(one, V) = Cardinality(V)
      BY <1>1
    <3>2. IsFiniteSet(V) /\ y \notin V /\ V \cup {y} = U /\ \A x \in V \cup {y} : one[x] = 1
      BY FS_Subset
    <3> HIDE DEF V
    <3>3. SumOver(one, V \cup {y}) = SumOver(one, V) + one[y]
      <4>1. \A x \in V \cup {y} : one[x] \in Int
        BY <3>2
      <4> QED BY <3>2, <4>1, SumAdd
    <3>4. Cardinality(V \cup {y}) = Cardinality(V) + 1
      BY <3>2, FS_AddElement
    <3>5. SumOver(one, U) = Cardinality(U)
      <4>1. SumOver(one, V \cup {y}) = Cardinality(V \cup {y})
        BY <3>1, <3>2, <3>3, <3>4
      <4> QED BY <3>2, <4>1, Zenon
    <3> QED BY <3>5
  <2> QED BY <2>1, <2>2
<1>2. A = SUBSET S
  <2> HIDE DEF A
  <2>1. A \in SUBSET SUBSET S
    BY DEF A
  <2> QED BY <1>1, <2>1, SubsetInduction
<1> QED BY <1>2

----------------------------------------------------------------------------
(* Least and greatest values on a finite set *)

\* One of finitely many values is the least.
LEMMA LeastValue ==
  ASSUME NEW S, IsFiniteSet(S), S # {}, NEW v, \A x \in S : v[x] \in Int
  PROVE  \E m \in S : \A x \in S : v[m] <= v[x]
<1> DEFINE A == {T \in SUBSET S : T # {} => \E m \in T : \A x \in T : v[m] <= v[x]}
<1>1. ASSUME NEW U \in SUBSET S, \A V \in SUBSET U : V # U => V \in A
      PROVE  U \in A
  <2>1. SUFFICES ASSUME NEW y \in U PROVE \E m \in U : \A x \in U : v[m] <= v[x]
    OBVIOUS
  <2> DEFINE V == U \ {y}
  <2>2. CASE V = {}
    BY <2>2
  <2>3. CASE V # {}
    <3>1. PICK m \in V : \A x \in V : v[m] <= v[x]
      <4>1. V \in A
        BY <1>1
      <4> QED BY <2>3, <4>1
    <3>2. \A x \in U : x = y \/ x \in V
      OBVIOUS
    <3>3. v[m] \in Int /\ v[y] \in Int /\ \A x \in V : v[x] \in Int
      OBVIOUS
    <3>4. CASE v[m] <= v[y]
      BY <3>1, <3>2, <3>4
    <3>5. CASE v[y] <= v[m]
      <4>1. \A x \in V : v[y] <= v[x]
        BY <3>1, <3>3, <3>5
      <4> QED BY <3>2, <3>3, <4>1
    <3> QED BY <3>3, <3>4, <3>5
  <2> QED BY <2>2, <2>3
<1>2. A = SUBSET S
  <2> HIDE DEF A
  <2>1. A \in SUBSET SUBSET S
    BY DEF A
  <2> QED BY <1>1, <2>1, SubsetInduction
<1> QED BY <1>2

\* The n greatest of finitely many values.
LEMMA GreatestValues ==
  ASSUME NEW S, IsFiniteSet(S), NEW v, \A x \in S : v[x] \in Int,
         NEW n \in Nat, n <= Cardinality(S)
  PROVE  \E T \in SUBSET S :
           Cardinality(T) = n /\ \A x \in T, y \in S \ T : v[x] >= v[y]
<1> DEFINE Top(U, k) == \E T \in SUBSET U :
             Cardinality(T) = k /\ \A x \in T, y \in U \ T : v[x] >= v[y]
           A == {U \in SUBSET S : \A k \in 0..Cardinality(U) : Top(U, k)}
<1>1. ASSUME NEW U \in SUBSET S, \A V \in SUBSET U : V # U => V \in A
      PROVE  U \in A
  <2> SUFFICES ASSUME NEW k \in 0..Cardinality(U) PROVE Top(U, k)
    OBVIOUS
  <2>1. IsFiniteSet(U) /\ Cardinality(U) \in Nat /\ \A x \in U : v[x] \in Int
    BY FS_Subset, FS_CardinalityType
  <2>2. CASE k = Cardinality(U)
    <3>1. U \in SUBSET U /\ Cardinality(U) = k /\ \A x \in U, y \in U \ U : v[x] >= v[y]
      BY <2>2
    <3> QED BY <3>1
  <2>3. CASE k # Cardinality(U)
    <3>1. U # {}
      BY <2>1, <2>3, FS_EmptySet
    <3>2. PICK m \in U : \A x \in U : v[m] <= v[x]
      BY <2>1, <3>1, LeastValue
    <3> DEFINE V == U \ {m}
    <3>3. Cardinality(V) = Cardinality(U) - 1
      BY <2>1, FS_RemoveElement
    <3>4. V \in A
      BY <1>1
    <3>5. k \in 0..Cardinality(V)
      BY <2>1, <2>3, <3>3
    <3>6. PICK T \in SUBSET V : Cardinality(T) = k /\ \A x \in T, y \in V \ T : v[x] >= v[y]
      BY <3>4, <3>5
    <3>7. T \in SUBSET U /\ \A x \in T, y \in U \ T : v[x] >= v[y]
      BY <2>1, <3>2, <3>6
    <3> QED BY <3>6, <3>7
  <2> QED BY <2>2, <2>3
<1>2. A = SUBSET S
  <2> HIDE DEF A
  <2>1. A \in SUBSET SUBSET S
    BY DEF A
  <2> QED BY <1>1, <2>1, SubsetInduction
<1>3. n \in 0..Cardinality(S)
  BY FS_CardinalityType
<1> QED BY <1>2, <1>3

=============================================================================
