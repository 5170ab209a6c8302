----------------------------- MODULE FiniteSums -----------------------------
(***************************************************************************)
(* What SumFunctionOnSet of the community modules computes, as the proofs  *)
(* about coins need it: a sum over a finite set may be taken apart at any  *)
(* element, and changes with one term as that term does.  The operator is  *)
(* a fold, that is a function defined by recursion over subsets; it is     *)
(* shown to exist and to be unique from the fact that a non-empty          *)
(* collection of finite sets has a smallest one.                           *)
(***************************************************************************)
EXTENDS FiniteSetTheorems, TLAPS

Any(s) == CHOOSE x \in s : TRUE

Summing(f, S, g) ==
  g = [s \in SUBSET S |-> IF s = {} THEN 0 ELSE f[Any(s)] + g[s \ {Any(s)}]]

Summer(f, S) == CHOOSE g : Summing(f, S, g)

\* The fold is the recursive function at the whole set.
LEMMA SumIsIter ==
  ASSUME NEW f, NEW S
  PROVE  SumFunctionOnSet(f, S) = Summer(f, S)[S]
BY DEF SumFunctionOnSet, FoldFunctionOnSet, MapThenFoldSet, Summing, Summer, Any

\* Among subsets of a finite set one has no other of them below it.
LEMMA LeastSubset ==
  ASSUME NEW S, IsFiniteSet(S), NEW T, T \subseteq SUBSET S, T # {}
  PROVE  \E s \in T : \A t \in T : t \subseteq s => t = s
<1>1. T \subseteq FiniteSubsetsOf(S)
  BY FS_Subset DEF FiniteSubsetsOf
<1>2. IsWellFoundedOn(StrictSubsetOrdering(S), FiniteSubsetsOf(S))
  BY FS_StrictSubsetOrderingWellFounded
<1>3. PICK s \in T : \A t \in T : <<t, s>> \notin StrictSubsetOrdering(S)
  BY <1>1, <1>2, WFMin
<1>4. \A t \in T : t \subseteq s => t = s
  BY <1>3 DEF StrictSubsetOrdering
<1>5. QED
  BY <1>4

\* Two such functions agree on the sets they share.
LEMMA SummingUnique ==
  ASSUME NEW f, NEW S, IsFiniteSet(S), NEW T, NEW g, NEW h, Summing(f, S, g), Summing(f, T, h),
         NEW s \in SUBSET S, s \in SUBSET T
  PROVE  g[s] = h[s]
<1> DEFINE Bad == {t \in SUBSET S : t \in SUBSET T /\ g[t] # h[t]}
<1>1. CASE Bad = {}
  BY <1>1
<1>2. CASE Bad # {}
  <2>1. PICK t \in Bad : \A u \in Bad : u \subseteq t => u = t
    <3>1. Bad \subseteq SUBSET S
      OBVIOUS
    <3> HIDE DEF Bad
    <3>2. QED
      BY <1>2, <3>1, LeastSubset
  <2>2. t \in SUBSET S /\ t \in SUBSET T /\ g[t] # h[t]
    OBVIOUS
  <2>3. /\ g[t] = IF t = {} THEN 0 ELSE f[Any(t)] + g[t \ {Any(t)}]
        /\ h[t] = IF t = {} THEN 0 ELSE f[Any(t)] + h[t \ {Any(t)}]
    BY <2>2 DEF Summing
  <2>4. t # {}
    BY <2>2, <2>3
  <2>5. Any(t) \in t
    BY <2>4 DEF Any
  <2>6. t \ {Any(t)} \notin Bad /\ t \ {Any(t)} \in SUBSET S /\ t \ {Any(t)} \in SUBSET T
    BY <2>1, <2>2, <2>5
  <2>7. g[t \ {Any(t)}] = h[t \ {Any(t)}]
    BY <2>6
  <2>8. QED
    BY <2>2, <2>3, <2>4, <2>7
<1>3. QED
  BY <1>1, <1>2

\* Such a function exists for every finite set.
LEMMA SummingExists ==
  ASSUME NEW f, NEW S, IsFiniteSet(S)
  PROVE  Summing(f, S, Summer(f, S))
<1> DEFINE Has(s) == \E g : Summing(f, s, g)
           Bad == {s \in SUBSET S : ~Has(s)}
<1>1. CASE Bad = {}
  <2>1. Has(S)
    BY <1>1
  <2>2. QED
    BY <2>1 DEF Summer
<1>2. CASE Bad # {}
  <2>1. PICK s \in Bad : \A u \in Bad : u \subseteq s => u = s
    <3>1. Bad \subseteq SUBSET S
      OBVIOUS
    <3> HIDE DEF Bad
    <3>2. QED
      BY <1>2, <3>1, LeastSubset
  <2>2. s \in SUBSET S /\ ~Has(s)
    OBVIOUS
  <2>3. \A u \in SUBSET s : u # s => Summing(f, u, Summer(f, u)) /\ IsFiniteSet(u)
    <3> SUFFICES ASSUME NEW u \in SUBSET s, u # s
                 PROVE  Summing(f, u, Summer(f, u)) /\ IsFiniteSet(u)
      OBVIOUS
    <3>1. u \in SUBSET S /\ u \notin Bad
      BY <2>1, <2>2
    <3>2. Has(u)
      BY <3>1
    <3>3. IsFiniteSet(u)
      BY <3>1, FS_Subset
    <3>4. QED
      BY <3>2, <3>3 DEF Summer
  <2> DEFINE Val(u) == Summer(f, u)[u]
             G == [u \in SUBSET s |-> IF u = {} THEN 0 ELSE f[Any(u)] + Val(u \ {Any(u)})]
  <2> HIDE DEF Bad, Has
  <2>4. \A v \in SUBSET s : v # s => Val(v) = G[v]
    <3> SUFFICES ASSUME NEW v \in SUBSET s, v # s  PROVE Val(v) = G[v]
      OBVIOUS
    <3>1. Summing(f, v, Summer(f, v)) /\ IsFiniteSet(v)
      BY <2>3
    <3>2. Val(v) = IF v = {} THEN 0 ELSE f[Any(v)] + Summer(f, v)[v \ {Any(v)}]
      <4> DEFINE h == Summer(f, v)
      <4>1. h = [t \in SUBSET v |-> IF t = {} THEN 0 ELSE f[Any(t)] + h[t \ {Any(t)}]]
        BY <3>1 DEF Summing
      <4>2. v \in SUBSET v
        OBVIOUS
      <4> HIDE DEF h
      <4>3. h[v] = IF v = {} THEN 0 ELSE f[Any(v)] + h[v \ {Any(v)}]
        BY <4>1, <4>2
      <4>4. QED
        BY <4>3 DEF h
    <3>3. CASE v = {}
      BY <3>2, <3>3
    <3>4. CASE v # {}
      <4>1. Any(v) \in v
        BY <3>4 DEF Any
      <4> DEFINE w == v \ {Any(v)}
      <4>2. w \in SUBSET s /\ w # s /\ w \in SUBSET v /\ w \in SUBSET w
        BY <4>1
      <4>3. Summing(f, w, Summer(f, w))
        BY <2>3, <4>2
      <4>4. Summer(f, v)[w] = Summer(f, w)[w]
        BY <3>1, <4>2, <4>3, SummingUnique
      <4>5. QED
        BY <3>2, <3>4, <4>4
    <3>5. QED
      BY <3>3, <3>4
  <2>5. \A u \in SUBSET s : u # {} => Val(u \ {Any(u)}) = G[u \ {Any(u)}]
    <3> SUFFICES ASSUME NEW u \in SUBSET s, u # {}  PROVE Val(u \ {Any(u)}) = G[u \ {Any(u)}]
      OBVIOUS
    <3>1. Any(u) \in u
      BY DEF Any
    <3>2. u \ {Any(u)} \in SUBSET s /\ u \ {Any(u)} # s
      BY <3>1
    <3> HIDE DEF Val, G
    <3>3. QED
      BY <2>4, <3>2
  <2>6. G = [u \in SUBSET s |-> IF u = {} THEN 0 ELSE f[Any(u)] + G[u \ {Any(u)}]]
    <3>1. \A u \in SUBSET s : (IF u = {} THEN 0 ELSE f[Any(u)] + Val(u \ {Any(u)}))
                              = (IF u = {} THEN 0 ELSE f[Any(u)] + G[u \ {Any(u)}])
      <4> HIDE DEF Val, G
      <4>1. QED
        BY <2>5
    <3> DEFINE H == G
    <3>2. G = [u \in SUBSET s |-> IF u = {} THEN 0 ELSE f[Any(u)] + Val(u \ {Any(u)})]
      OBVIOUS
    <3> HIDE DEF Val, G
    <3>3. QED
      BY <3>1, <3>2
  <2>7. Summing(f, s, G)
    <3> HIDE DEF G
    <3>1. QED
      BY <2>6 DEF Summing
  <2>8. Has(s)
    <3> HIDE DEF G
    <3>1. QED
      BY <2>7 DEF Has
  <2>9. QED
    BY <2>2, <2>8
<1>3. QED
  BY <1>1, <1>2
-----------------------------------------------------------------------------
\* A sum over nothing is 0, and otherwise one term and the sum of the rest.
LEMMA SumStep ==
  ASSUME NEW f, NEW S, IsFiniteSet(S)
  PROVE  SumFunctionOnSet(f, S) =
           IF S = {} THEN 0 ELSE f[Any(S)] + SumFunctionOnSet(f, S \ {Any(S)})
<1> DEFINE g == Summer(f, S)
           T == S \ {Any(S)}
           h == Summer(f, T)
<1>1. Summing(f, S, g) /\ IsFiniteSet(T) /\ Summing(f, T, h)
  BY FS_RemoveElement, SummingExists
<1>2. SumFunctionOnSet(f, S) = g[S] /\ SumFunctionOnSet(f, T) = h[T]
  BY SumIsIter
<1>3. T \in SUBSET S /\ T \in SUBSET T /\ S \in SUBSET S
  OBVIOUS
<1> HIDE DEF g, h, T
<1>4. g[T] = h[T]
  <2>1. IsFiniteSet(S)
    OBVIOUS
  <2>2. QED
    BY <1>1, <1>3, <2>1, SummingUnique
<1>5. g[S] = IF S = {} THEN 0 ELSE f[Any(S)] + g[T]
  BY <1>1, <1>3 DEF Summing, T
<1>6. QED
  BY <1>2, <1>4, <1>5 DEF T

\* A sum of integers is an integer, and may be taken apart at any element.
LEMMA SumTakenApart ==
  ASSUME NEW S, IsFiniteSet(S), NEW f, \A x \in S : f[x] \in Int
  PROVE  /\ SumFunctionOnSet(f, S) \in Int
         /\ \A x \in S : SumFunctionOnSet(f, S) = f[x] + SumFunctionOnSet(f, S \ {x})
<1> DEFINE Sum(s) == SumFunctionOnSet(f, s)
           Good(s) == Sum(s) \in Int /\ \A x \in s : Sum(s) = f[x] + Sum(s \ {x})
           Bad == {s \in SUBSET S : ~Good(s)}
<1>1. CASE Bad = {}
  BY <1>1
<1>2. CASE Bad # {}
  <2>1. PICK s \in Bad : \A u \in Bad : u \subseteq s => u = s
    <3>1. Bad \subseteq SUBSET S
      OBVIOUS
    <3> HIDE DEF Bad
    <3>2. QED
      BY <1>2, <3>1, LeastSubset
  <2>2. s \in SUBSET S /\ ~Good(s)
    OBVIOUS
  <2>3. \A u \in SUBSET s : u # s => Good(u)
    BY <2>1, <2>2
  <2>4. IsFiniteSet(s)
    BY <2>2, FS_Subset
  <2>5. Sum(s) = IF s = {} THEN 0 ELSE f[Any(s)] + Sum(s \ {Any(s)})
    BY <2>4, SumStep
  <2> HIDE DEF Bad, Sum
  <2>6. CASE s = {}
    BY <2>2, <2>5, <2>6
  <2>7. CASE s # {}
    <3> DEFINE a == Any(s)
    <3>1. a \in s
      BY <2>7 DEF Any
    <3>2. Sum(s) = f[a] + Sum(s \ {a})
      BY <2>5, <2>7
    <3> HIDE DEF a
    <3>3. Good(s \ {a})
      BY <2>3, <3>1
    <3>4. f[a] \in Int /\ Sum(s) \in Int
      BY <2>2, <3>1, <3>2, <3>3
    <3>5. ASSUME NEW x \in s, x # a  PROVE Sum(s) = f[x] + Sum(s \ {x})
      <4>1. Good(s \ {x}) /\ Good((s \ {a}) \ {x})
        <5>1. s \ {x} \in SUBSET s /\ s \ {x} # s
          OBVIOUS
        <5>2. (s \ {a}) \ {x} \in SUBSET s /\ (s \ {a}) \ {x} # s
          OBVIOUS
        <5> HIDE DEF Good
        <5>3. QED
          BY <2>3, <5>1, <5>2
      <4>2. Sum(s \ {a}) = f[x] + Sum((s \ {a}) \ {x})
        BY <3>3, <3>5
      <4>3. Sum(s \ {x}) = f[a] + Sum((s \ {x}) \ {a})
        BY <3>1, <3>5, <4>1
      <4>4. (s \ {x}) \ {a} = (s \ {a}) \ {x}
        OBVIOUS
      <4>5. f[x] \in Int /\ Sum((s \ {a}) \ {x}) \in Int
        BY <2>2, <3>5, <4>1
      <4>6. Sum((s \ {x}) \ {a}) = Sum((s \ {a}) \ {x})
        BY <4>4
      <4>7. QED
        BY <3>2, <3>4, <4>2, <4>3, <4>5, <4>6
    <3>6. Good(s)
      BY <3>2, <3>4, <3>5
    <3>7. QED
      BY <2>2, <3>6
  <2>8. QED
    BY <2>6, <2>7
<1>3. QED
  BY <1>1, <1>2

\* A sum of natural numbers is one.
LEMMA SumOfNaturals ==
  ASSUME NEW S, IsFiniteSet(S), NEW f, \A x \in S : f[x] \in Nat
  PROVE  SumFunctionOnSet(f, S) \in Nat
<1> DEFINE Bad == {s \in SUBSET S : SumFunctionOnSet(f, s) \notin Nat}
<1>1. CASE Bad = {}
  BY <1>1
<1>2. CASE Bad # {}
  <2>1. PICK s \in Bad : \A u \in Bad : u \subseteq s => u = s
    <3>1. Bad \subseteq SUBSET S
      OBVIOUS
    <3> HIDE DEF Bad
    <3>2. QED
      BY <1>2, <3>1, LeastSubset
  <2>2. s \in SUBSET S /\ SumFunctionOnSet(f, s) \notin Nat
    OBVIOUS
  <2>3. SumFunctionOnSet(f, s) = IF s = {} THEN 0 ELSE f[Any(s)] + SumFunctionOnSet(f, s \ {Any(s)})
    BY <2>2, FS_Subset, SumStep
  <2>4. s # {}
    BY <2>2, <2>3
  <2>5. Any(s) \in s
    BY <2>4 DEF Any
  <2>6. s \ {Any(s)} \in SUBSET S /\ s \ {Any(s)} \notin Bad
    BY <2>1, <2>2, <2>5
  <2>7. SumFunctionOnSet(f, s \ {Any(s)}) \in Nat /\ f[Any(s)] \in Nat
    BY <2>2, <2>5, <2>6
  <2>8. QED
    BY <2>2, <2>3, <2>4, <2>7
<1>3. QED
  BY <1>1, <1>2

\* A sum depends on its terms only.
LEMMA SameTerms ==
  ASSUME NEW S, IsFiniteSet(S), NEW f, NEW h, \A x \in S : f[x] = h[x]
  PROVE  SumFunctionOnSet(f, S) = SumFunctionOnSet(h, S)
<1> DEFINE Bad == {s \in SUBSET S : SumFunctionOnSet(f, s) # SumFunctionOnSet(h, s)}
<1>1. CASE Bad = {}
  BY <1>1
<1>2. CASE Bad # {}
  <2>1. PICK s \in Bad : \A u \in Bad : u \subseteq s => u = s
    <3>1. Bad \subseteq SUBSET S
      OBVIOUS
    <3> HIDE DEF Bad
    <3>2. QED
      BY <1>2, <3>1, LeastSubset
  <2>2. s \in SUBSET S /\ SumFunctionOnSet(f, s) # SumFunctionOnSet(h, s)
    OBVIOUS
  <2>3. /\ SumFunctionOnSet(f, s) = IF s = {} THEN 0 ELSE f[Any(s)] + SumFunctionOnSet(f, s \ {Any(s)})
        /\ SumFunctionOnSet(h, s) = IF s = {} THEN 0 ELSE h[Any(s)] + SumFunctionOnSet(h, s \ {Any(s)})
    BY <2>2, FS_Subset, SumStep
  <2>4. s # {}
    BY <2>2, <2>3
  <2>5. Any(s) \in s
    BY <2>4 DEF Any
  <2>6. s \ {Any(s)} \in SUBSET S /\ s \ {Any(s)} \notin Bad
    BY <2>1, <2>2, <2>5
  <2>7. SumFunctionOnSet(f, s \ {Any(s)}) = SumFunctionOnSet(h, s \ {Any(s)})
    BY <2>6
  <2>8. QED
    BY <2>2, <2>3, <2>4, <2>5, <2>7
<1>3. QED
  BY <1>1, <1>2

\* A sum changes by what one term changes.
LEMMA OneTermChanges ==
  ASSUME NEW S, IsFiniteSet(S), NEW f, NEW h, NEW x \in S,
         \A y \in S : f[y] \in Int, h[x] \in Int, \A y \in S \ {x} : h[y] = f[y]
  PROVE  /\ SumFunctionOnSet(f, S) \in Int
         /\ SumFunctionOnSet(h, S) = SumFunctionOnSet(f, S) - f[x] + h[x]
<1>1. \A y \in S : h[y] \in Int
  OBVIOUS
<1>2. IsFiniteSet(S \ {x})
  BY FS_RemoveElement
<1>3. SumFunctionOnSet(f, S \ {x}) = SumFunctionOnSet(h, S \ {x})
  BY <1>2, SameTerms
<1>4. /\ SumFunctionOnSet(f, S) \in Int /\ SumFunctionOnSet(f, S) = f[x] + SumFunctionOnSet(f, S \ {x})
      /\ SumFunctionOnSet(h, S) = h[x] + SumFunctionOnSet(h, S \ {x})
  BY <1>1, SumTakenApart
<1>5. SumFunctionOnSet(f, S \ {x}) \in Int
  BY <1>2, SumTakenApart
<1>6. QED
  BY <1>3, <1>4, <1>5
-----------------------------------------------------------------------------
\* The sum of a function is the sum over its domain.
LEMMA SumOfFunction ==
  ASSUME NEW S, NEW f, DOMAIN f = S
  PROVE  SumFunction(f) = SumFunctionOnSet(f, S)
BY DEF SumFunction

\* The sum of a function into the integers is an integer.
LEMMA SumType ==
  ASSUME NEW S, IsFiniteSet(S), NEW f \in [S -> Int]
  PROVE  SumFunction(f) \in Int
<1>1. SumFunction(f) = SumFunctionOnSet(f, S)
  BY SumOfFunction
<1>2. SumFunctionOnSet(f, S) \in Int
  BY SumTakenApart
<1>3. QED
  BY <1>1, <1>2

\* The sum of a function that is changed at one point.
LEMMA SumChanges ==
  ASSUME NEW S, IsFiniteSet(S), NEW f \in [S -> Int], NEW h \in [S -> Int], NEW x \in S,
         \A y \in S \ {x} : h[y] = f[y]
  PROVE  SumFunction(f) \in Int /\ SumFunction(h) = SumFunction(f) - f[x] + h[x]
<1>1. SumFunction(f) = SumFunctionOnSet(f, S) /\ SumFunction(h) = SumFunctionOnSet(h, S)
  BY SumOfFunction
<1>2. (\A y \in S : f[y] \in Int) /\ h[x] \in Int
  OBVIOUS
<1>3. /\ SumFunctionOnSet(f, S) \in Int
      /\ SumFunctionOnSet(h, S) = SumFunctionOnSet(f, S) - f[x] + h[x]
  BY <1>2, OneTermChanges
<1>4. QED
  BY <1>1, <1>3

\* A sum of zeros is 0.
LEMMA SumOfZeros ==
  ASSUME NEW S, IsFiniteSet(S), NEW f, DOMAIN f = S, \A x \in S : f[x] = 0
  PROVE  SumFunction(f) = 0
<1> DEFINE Bad == {s \in SUBSET S : SumFunctionOnSet(f, s) # 0}
<1>1. CASE Bad = {}
  <2>1. SumFunctionOnSet(f, S) = 0
    BY <1>1
  <2>2. QED
    BY <2>1, SumOfFunction
<1>2. CASE Bad # {}
  <2>1. PICK s \in Bad : \A u \in Bad : u \subseteq s => u = s
    <3>1. Bad \subseteq SUBSET S
      OBVIOUS
    <3> HIDE DEF Bad
    <3>2. QED
      BY <1>2, <3>1, LeastSubset
  <2>2. s \in SUBSET S /\ SumFunctionOnSet(f, s) # 0
    OBVIOUS
  <2>3. SumFunctionOnSet(f, s) = IF s = {} THEN 0 ELSE f[Any(s)] + SumFunctionOnSet(f, s \ {Any(s)})
    BY <2>2, FS_Subset, SumStep
  <2>4. s # {}
    BY <2>2, <2>3
  <2>5. Any(s) \in s
    BY <2>4 DEF Any
  <2>6. s \ {Any(s)} \in SUBSET S /\ s \ {Any(s)} \notin Bad
    BY <2>1, <2>2, <2>5
  <2>7. SumFunctionOnSet(f, s \ {Any(s)}) = 0 /\ f[Any(s)] = 0
    BY <2>2, <2>5, <2>6
  <2>8. QED
    BY <2>2, <2>3, <2>4, <2>7
<1>3. QED
  BY <1>1, <1>2
=============================================================================
