---------------------------------- MODULE Sums ----------------------------------
(***************************************************************************)
(* What the sums of the community modules' Functions are: the provers know   *)
(* SumFunctionOnSet and SumFunction by their definitions only, a recursive   *)
(* function on the subsets of a set that takes its elements in any order.    *)
(* The books and the credits are summed with them.                           *)
(***************************************************************************)
EXTENDS Integers, Sequences, FiniteSets, Functions, SequenceTheorems, FiniteSetTheorems,
        WellFoundedInduction, TLAPS

-----------------------------------------------------------------------------
(* The least of some numbers *)

\* A set of numbers that is not empty has a least one.
LEMMA LeastNumber ==
  ASSUME NEW T, T \subseteq Nat, T # {}
  PROVE  \E x \in T : \A y \in T : x <= y
<1> DEFINE R == OpToRel(<, Nat)
<1>1. IsWellFoundedOn(R, Nat)
  BY Zenon, NatLessThanWellFounded
<1>2. \A y, x \in Nat : y < x => <<y, x>> \in R
  <2> TAKE y, x \in Nat
  <2> HAVE y < x
  <2>1. <<y, x>> \in Nat \X Nat /\ <<y, x>>[1] < <<y, x>>[2]
    OBVIOUS
  <2> QED BY <2>1, Zenon DEF OpToRel
<1> HIDE DEF R
<1>3. PICK x \in T : \A y \in T : ~(<<y, x>> \in R)
  BY <1>1, WFMin
<1>4. \A y \in T : x =< y
  <2> TAKE y \in T
  <2>1. x \in Nat /\ y \in Nat
    OBVIOUS
  <2>2. ~(y < x)
    BY <1>2, <1>3, <2>1
  <2> QED BY <2>1, <2>2
<1> QED BY <1>4

\* Of some finite sets there is one that has none of its proper subsets among them.
LEMMA SmallestSet ==
  ASSUME NEW F, F # {}, \A s \in F : IsFiniteSet(s)
  PROVE  \E s \in F : \A t \in F : ~(t \subseteq s /\ t # s)
<1> DEFINE sizes == {Cardinality(s) : s \in F}
<1>1. sizes \subseteq Nat /\ sizes # {}
  BY FS_CardinalityType
<1>2. PICK n \in sizes : \A m \in sizes : n <= m
  BY <1>1, LeastNumber
<1>3. PICK s \in F : Cardinality(s) = n
  OBVIOUS
<1>4. ASSUME NEW t \in F, t \subseteq s, t # s PROVE FALSE
  <2>1. Cardinality(t) < Cardinality(s) /\ Cardinality(t) \in Nat /\ Cardinality(s) \in Nat
    BY <1>4, FS_Subset, FS_CardinalityType
  <2> QED BY <1>2, <1>3, <2>1
<1> QED BY <1>4

-----------------------------------------------------------------------------
(* Sums exist *)

First(s) == CHOOSE x \in s : TRUE

\* g has the sums of f over the subsets of S.
Adds(g, f, S) == g = [s \in SUBSET S |-> IF s = {} THEN 0 ELSE f[First(s)] + g[s \ {First(s)}]]

LEMMA SumIsChosen ==
  ASSUME NEW f, NEW S
  PROVE  SumFunctionOnSet(f, S) = (CHOOSE g : Adds(g, f, S))[S]
BY Zenon DEF SumFunctionOnSet, FoldFunctionOnSet, MapThenFoldSet, Adds, First

LEMMA AddsAt ==
  ASSUME NEW g, NEW f, NEW S, Adds(g, f, S), NEW s \in SUBSET S
  PROVE  g[s] = IF s = {} THEN 0 ELSE f[First(s)] + g[s \ {First(s)}]
BY Zenon DEF Adds

LEMMA AddsAgree ==
  ASSUME NEW f, NEW S, NEW g, Adds(g, f, S), NEW T, NEW h, Adds(h, f, T),
         NEW s, s \subseteq S, s \subseteq T, IsFiniteSet(s)
  PROVE  g[s] = h[s]
<1> DEFINE F == {t \in SUBSET s : g[t] # h[t]}
<1>1. SUFFICES ASSUME F # {} PROVE FALSE
  <2>1. s \in SUBSET s
    OBVIOUS
  <2> QED BY <1>1, <2>1
<1>2. \A t \in F : IsFiniteSet(t)
  BY FS_Subset
<1> HIDE DEF F
<1>3. PICK t \in F : \A u \in F : ~(u \subseteq t /\ u # t)
  BY <1>1, <1>2, SmallestSet
<1>4. t \in SUBSET s /\ g[t] # h[t]
  BY DEF F
<1>5. CASE t = {}
  <2>1. g[t] = 0 /\ h[t] = 0
    BY <1>4, <1>5, AddsAt
  <2> QED BY <1>4, <2>1
<1>6. CASE t # {}
  <2> DEFINE u == t \ {First(t)}
  <2>1. First(t) \in t
    BY <1>6 DEF First
  <2>2. u \in SUBSET s /\ u \subseteq t /\ u # t
    BY <1>4, <2>1
  <2>3. g[u] = h[u]
    BY <1>3, <2>2 DEF F
  <2>4. t \in SUBSET S /\ t \in SUBSET T
    BY <1>4
  <2>5. g[t] = f[First(t)] + g[u]
    BY <1>6, <2>4, AddsAt
  <2>6. h[t] = f[First(t)] + h[u]
    BY <1>6, <2>4, AddsAt
  <2> HIDE DEF u
  <2> QED BY <1>4, <2>3, <2>5, <2>6
<1> QED BY <1>5, <1>6

\* A function of the sums of the subsets of a finite set.
LEMMA AddsExists ==
  ASSUME NEW f, NEW S, IsFiniteSet(S)
  PROVE  \E g : Adds(g, f, S)
<1> DEFINE F == {t \in SUBSET S : ~\E g : Adds(g, f, t)}
<1>1. SUFFICES ASSUME F # {} PROVE FALSE
  <2>1. S \in SUBSET S
    OBVIOUS
  <2> QED BY <1>1, <2>1
<1>2. \A t \in F : IsFiniteSet(t)
  BY FS_Subset
<1> HIDE DEF F
<1>3. PICK s \in F : \A t \in F : ~(t \subseteq s /\ t # s)
  BY <1>1, <1>2, SmallestSet
<1>4. s \in SUBSET S /\ ~\E g : Adds(g, f, s)
  BY DEF F
<1>5. \A t : (t \subseteq s /\ t # s) => (t \in SUBSET S /\ IsFiniteSet(t) /\ \E g : Adds(g, f, t))
  BY <1>3, <1>4, FS_Subset DEF F
<1> DEFINE sum(t) == (CHOOSE h : Adds(h, f, t))[t]
           g == [t \in SUBSET s |-> IF t = {} THEN 0 ELSE f[First(t)] + sum(t \ {First(t)})]
<1>6. ASSUME NEW t, t \subseteq s, t # s PROVE Adds(CHOOSE h : Adds(h, f, t), f, t)
  BY <1>5, <1>6
<1>7. ASSUME NEW t, t \subseteq s, t # s PROVE g[t] = sum(t)
  <2> DEFINE h == CHOOSE h : Adds(h, f, t)
             u == t \ {First(t)}
  <2>1. Adds(h, f, t)
    BY <1>6, <1>7
  <2>2. t \in SUBSET t /\ t \in SUBSET s
    BY <1>7
  <2>3. h[t] = IF t = {} THEN 0 ELSE f[First(t)] + h[u]
    <3> HIDE DEF h
    <3> QED BY <2>1, <2>2, AddsAt
  <2>4. CASE t = {}
    BY <2>2, <2>3, <2>4
  <2>5. CASE t # {}
    <3>1. First(t) \in t
      BY <2>5 DEF First
    <3>2. u \subseteq s /\ u # s /\ u \subseteq t /\ u \subseteq u /\ IsFiniteSet(u)
      BY <1>5, <1>7, <3>1, FS_Subset
    <3> DEFINE k == CHOOSE k : Adds(k, f, u)
    <3>3. Adds(k, f, u)
      BY <1>6, <3>2
    <3>4. k[u] = h[u]
      <4> HIDE DEF h, k, u
      <4> QED BY <2>1, <3>2, <3>3, AddsAgree
    <3>5. g[t] = f[First(t)] + sum(u)
      BY <2>2, <2>5
    <3>6. sum(u) = k[u] /\ sum(t) = h[t]
      OBVIOUS
    <3> HIDE DEF h, k, u, g, sum
    <3> QED BY <2>3, <2>5, <3>4, <3>5, <3>6
  <2> QED BY <2>4, <2>5
<1>8. Adds(g, f, s)
  <2>1. ASSUME NEW t \in SUBSET s, t # {} PROVE g[t \ {First(t)}] = sum(t \ {First(t)})
    <3>1. First(t) \in t
      BY <2>1 DEF First
    <3>2. t \ {First(t)} \subseteq s /\ t \ {First(t)} # s
      BY <3>1
    <3> HIDE DEF g, sum
    <3> QED BY <1>7, <3>2
  <2>2. g = [t \in SUBSET s |-> IF t = {} THEN 0 ELSE f[First(t)] + g[t \ {First(t)}]]
    <3>1. \A t \in SUBSET s : (IF t = {} THEN 0 ELSE f[First(t)] + sum(t \ {First(t)}))
                              = (IF t = {} THEN 0 ELSE f[First(t)] + g[t \ {First(t)}])
      <4> HIDE DEF g, sum
      <4> QED BY <2>1
    <3> DEFINE a(t) == IF t = {} THEN 0 ELSE f[First(t)] + sum(t \ {First(t)})
               b(t) == IF t = {} THEN 0 ELSE f[First(t)] + g[t \ {First(t)}]
    <3>2. g = [t \in SUBSET s |-> a(t)] /\ \A t \in SUBSET s : a(t) = b(t)
      BY <3>1, Zenon
    <3> HIDE DEF a, b, g
    <3>3. g = [t \in SUBSET s |-> b(t)]
      BY <3>2
    <3> QED BY <3>3, Zenon DEF b
  <2> HIDE DEF g
  <2> QED BY <2>2 DEF Adds
<1> HIDE DEF g
<1> QED BY <1>4, <1>8

-----------------------------------------------------------------------------
(* What sums are *)

LEMMA SumEmpty ==
  ASSUME NEW f
  PROVE  SumFunctionOnSet(f, {}) = 0
<1> DEFINE g == CHOOSE g : Adds(g, f, {})
<1>1. Adds(g, f, {})
  BY AddsExists, FS_EmptySet
<1>2. SumFunctionOnSet(f, {}) = g[{}]
  BY SumIsChosen
<1> HIDE DEF g
<1>3. g[{}] = 0
  BY <1>1, AddsAt
<1> QED BY <1>2, <1>3

LEMMA SumFirst ==
  ASSUME NEW f, NEW S, IsFiniteSet(S), S # {}
  PROVE  /\ First(S) \in S
         /\ SumFunctionOnSet(f, S) = f[First(S)] + SumFunctionOnSet(f, S \ {First(S)})
<1> DEFINE T == S \ {First(S)}
           g == CHOOSE g : Adds(g, f, S)
           h == CHOOSE h : Adds(h, f, T)
<1>1. First(S) \in S
  BY DEF First
<1>2. IsFiniteSet(T) /\ T \subseteq S /\ T \subseteq T
  BY FS_Subset
<1> HIDE DEF T
<1>3. Adds(g, f, S) /\ Adds(h, f, T)
  BY <1>2, AddsExists
<1>4. SumFunctionOnSet(f, S) = g[S] /\ SumFunctionOnSet(f, T) = h[T]
  BY SumIsChosen
<1> HIDE DEF g, h
<1>5. g[T] = h[T]
  BY <1>2, <1>3, AddsAgree
<1>6. g[S] = f[First(S)] + g[T]
  BY <1>3, AddsAt DEF T
<1> QED BY <1>1, <1>4, <1>5, <1>6 DEF T

LEMMA SumInt ==
  ASSUME NEW f, NEW S, IsFiniteSet(S), \A x \in S : f[x] \in Int
  PROVE  SumFunctionOnSet(f, S) \in Int
<1> DEFINE F == {t \in SUBSET S : SumFunctionOnSet(f, t) \notin Int}
<1>1. SUFFICES ASSUME F # {} PROVE FALSE
  <2>1. S \in SUBSET S
    OBVIOUS
  <2> QED BY <1>1, <2>1
<1>2. \A t \in F : IsFiniteSet(t)
  BY FS_Subset
<1> HIDE DEF F
<1>3. PICK t \in F : \A u \in F : ~(u \subseteq t /\ u # t)
  BY <1>1, <1>2, SmallestSet
<1>4. t \subseteq S /\ IsFiniteSet(t) /\ SumFunctionOnSet(f, t) \notin Int
  BY <1>2 DEF F
<1>5. t # {}
  BY <1>4, SumEmpty
<1>6. First(t) \in t /\ SumFunctionOnSet(f, t) = f[First(t)] + SumFunctionOnSet(f, t \ {First(t)})
  BY <1>4, <1>5, SumFirst
<1>7. SumFunctionOnSet(f, t \ {First(t)}) \in Int
  BY <1>3, <1>4, <1>6 DEF F
<1> QED BY <1>4, <1>6, <1>7

\* A sum does not depend on the order of its terms.
LEMMA SumWithout ==
  ASSUME NEW f, NEW S, IsFiniteSet(S), \A x \in S : f[x] \in Int, NEW x \in S
  PROVE  SumFunctionOnSet(f, S) = f[x] + SumFunctionOnSet(f, S \ {x})
<1> DEFINE F == {t \in SUBSET S : \E y \in t : SumFunctionOnSet(f, t) # f[y] + SumFunctionOnSet(f, t \ {y})}
<1>1. SUFFICES ASSUME F # {} PROVE FALSE
  <2>1. S \in SUBSET S
    OBVIOUS
  <2> QED BY <1>1, <2>1
<1>2. \A t \in F : IsFiniteSet(t)
  BY FS_Subset
<1> HIDE DEF F
<1>3. PICK t \in F : \A u \in F : ~(u \subseteq t /\ u # t)
  BY <1>1, <1>2, SmallestSet
<1>4. /\ t \subseteq S /\ IsFiniteSet(t)
      /\ \E y \in t : SumFunctionOnSet(f, t) # f[y] + SumFunctionOnSet(f, t \ {y})
  BY <1>2, <1>3 DEF F
<1>5. PICK y \in t : SumFunctionOnSet(f, t) # f[y] + SumFunctionOnSet(f, t \ {y})
  BY <1>4
<1> DEFINE z == First(t)
<1>6. z \in t /\ SumFunctionOnSet(f, t) = f[z] + SumFunctionOnSet(f, t \ {z})
  BY <1>4, <1>5, SumFirst
<1> HIDE DEF z
<1>7. y # z
  BY <1>5, <1>6
<1> DEFINE rest == t \ {y, z}
<1>8. /\ IsFiniteSet(rest) /\ rest \subseteq S
      /\ (t \ {z}) \ {y} = rest /\ (t \ {y}) \ {z} = rest
      /\ t \ {z} \in SUBSET S /\ t \ {y} \in SUBSET S
  BY <1>4, FS_Subset
<1>9. SumFunctionOnSet(f, t \ {z}) = f[y] + SumFunctionOnSet(f, rest)
  <2>1. y \in t \ {z} /\ t \ {z} \subseteq t /\ t \ {z} # t
    BY <1>6, <1>7
  <2>2. t \ {z} \notin F
    BY <1>3, <2>1
  <2>3. SumFunctionOnSet(f, t \ {z}) = f[y] + SumFunctionOnSet(f, (t \ {z}) \ {y})
    BY <1>8, <2>1, <2>2 DEF F
  <2> QED BY <1>8, <2>3
<1>10. SumFunctionOnSet(f, t \ {y}) = f[z] + SumFunctionOnSet(f, rest)
  <2>1. z \in t \ {y} /\ t \ {y} \subseteq t /\ t \ {y} # t
    BY <1>5, <1>6, <1>7
  <2>2. t \ {y} \notin F
    BY <1>3, <2>1
  <2>3. SumFunctionOnSet(f, t \ {y}) = f[z] + SumFunctionOnSet(f, (t \ {y}) \ {z})
    BY <1>8, <2>1, <2>2 DEF F
  <2> QED BY <1>8, <2>3
<1>11. SumFunctionOnSet(f, rest) \in Int /\ f[y] \in Int /\ f[z] \in Int
  BY <1>4, <1>5, <1>6, <1>8, SumInt
<1> HIDE DEF rest
<1> QED BY <1>5, <1>6, <1>9, <1>10, <1>11

\* The sums of functions with the same terms are the same.
LEMMA SumSame ==
  ASSUME NEW f, NEW g, NEW S, IsFiniteSet(S), \A x \in S : f[x] = g[x]
  PROVE  SumFunctionOnSet(f, S) = SumFunctionOnSet(g, S)
<1> DEFINE F == {t \in SUBSET S : SumFunctionOnSet(f, t) # SumFunctionOnSet(g, t)}
<1>1. SUFFICES ASSUME F # {} PROVE FALSE
  <2>1. S \in SUBSET S
    OBVIOUS
  <2> QED BY <1>1, <2>1
<1>2. \A t \in F : IsFiniteSet(t)
  BY FS_Subset
<1> HIDE DEF F
<1>3. PICK t \in F : \A u \in F : ~(u \subseteq t /\ u # t)
  BY <1>1, <1>2, SmallestSet
<1>4. t \subseteq S /\ IsFiniteSet(t) /\ SumFunctionOnSet(f, t) # SumFunctionOnSet(g, t)
  BY <1>2 DEF F
<1>5. t # {}
  BY <1>4, SumEmpty
<1> DEFINE u == t \ {First(t)}
<1>6. /\ First(t) \in t /\ SumFunctionOnSet(f, t) = f[First(t)] + SumFunctionOnSet(f, u)
      /\ SumFunctionOnSet(g, t) = g[First(t)] + SumFunctionOnSet(g, u)
  BY <1>4, <1>5, SumFirst
<1>7. SumFunctionOnSet(f, u) = SumFunctionOnSet(g, u)
  BY <1>3, <1>4, <1>6 DEF F
<1> HIDE DEF u
<1>8. f[First(t)] = g[First(t)]
  BY <1>4, <1>6
<1> QED BY <1>4, <1>6, <1>7, <1>8

\* One of the terms is another.
LEMMA SumChanged ==
  ASSUME NEW f, NEW g, NEW S, IsFiniteSet(S), NEW x \in S,
         \A y \in S : f[y] \in Int /\ g[y] \in Int, \A y \in S \ {x} : f[y] = g[y]
  PROVE  SumFunctionOnSet(g, S) = SumFunctionOnSet(f, S) + (g[x] - f[x])
<1> DEFINE T == S \ {x}
<1>1. IsFiniteSet(T) /\ T \subseteq S
  BY FS_Subset
<1>2. SumFunctionOnSet(f, S) = f[x] + SumFunctionOnSet(f, T)
  BY SumWithout
<1>3. SumFunctionOnSet(g, S) = g[x] + SumFunctionOnSet(g, T)
  BY SumWithout
<1>4. SumFunctionOnSet(f, T) = SumFunctionOnSet(g, T)
  BY <1>1, SumSame
<1>5. SumFunctionOnSet(f, T) \in Int
  BY <1>1, SumInt
<1> HIDE DEF T
<1> QED BY <1>2, <1>3, <1>4, <1>5

\* The sum of the terms of two functions.
LEMMA SumAdded ==
  ASSUME NEW f, NEW g, NEW h, NEW S, IsFiniteSet(S),
         \A x \in S : f[x] \in Int /\ g[x] \in Int /\ h[x] = f[x] + g[x]
  PROVE  SumFunctionOnSet(h, S) = SumFunctionOnSet(f, S) + SumFunctionOnSet(g, S)
<1> DEFINE F == {t \in SUBSET S :
                   SumFunctionOnSet(h, t) # SumFunctionOnSet(f, t) + SumFunctionOnSet(g, t)}
<1>1. SUFFICES ASSUME F # {} PROVE FALSE
  <2>1. S \in SUBSET S
    OBVIOUS
  <2> QED BY <1>1, <2>1
<1>2. \A t \in F : IsFiniteSet(t)
  BY FS_Subset
<1> HIDE DEF F
<1>3. PICK t \in F : \A u \in F : ~(u \subseteq t /\ u # t)
  BY <1>1, <1>2, SmallestSet
<1>4. /\ t \subseteq S /\ IsFiniteSet(t)
      /\ SumFunctionOnSet(h, t) # SumFunctionOnSet(f, t) + SumFunctionOnSet(g, t)
  BY <1>2, <1>3 DEF F
<1>5. t # {}
  <2>1. SumFunctionOnSet(f, {}) = 0 /\ SumFunctionOnSet(g, {}) = 0 /\ SumFunctionOnSet(h, {}) = 0
    BY SumEmpty
  <2> QED BY <1>4, <2>1
<1> DEFINE u == t \ {First(t)}
<1>6. /\ First(t) \in t /\ SumFunctionOnSet(f, t) = f[First(t)] + SumFunctionOnSet(f, u)
      /\ SumFunctionOnSet(g, t) = g[First(t)] + SumFunctionOnSet(g, u)
      /\ SumFunctionOnSet(h, t) = h[First(t)] + SumFunctionOnSet(h, u)
  BY <1>4, <1>5, SumFirst
<1>7. SumFunctionOnSet(h, u) = SumFunctionOnSet(f, u) + SumFunctionOnSet(g, u)
  BY <1>3, <1>4, <1>6 DEF F
<1>8. SumFunctionOnSet(f, u) \in Int /\ SumFunctionOnSet(g, u) \in Int
  <2>1. IsFiniteSet(u) /\ u \subseteq S
    BY <1>4, FS_Subset
  <2> HIDE DEF u
  <2> QED BY <2>1, SumInt
<1> HIDE DEF u
<1>9. f[First(t)] \in Int /\ g[First(t)] \in Int /\ h[First(t)] = f[First(t)] + g[First(t)]
  BY <1>4, <1>6
<1> QED BY <1>4, <1>6, <1>7, <1>8, <1>9

LEMMA SumZero ==
  ASSUME NEW f, NEW S, IsFiniteSet(S), \A x \in S : f[x] = 0
  PROVE  SumFunctionOnSet(f, S) = 0
<1>0. \A x \in S : f[x] \in Int /\ f[x] = f[x] + f[x]
  OBVIOUS
<1>1. SumFunctionOnSet(f, S) = SumFunctionOnSet(f, S) + SumFunctionOnSet(f, S)
  BY <1>0, SumAdded
<1>2. SumFunctionOnSet(f, S) \in Int
  BY <1>0, SumInt
<1>3. \A n \in Int : n = n + n => n = 0
  OBVIOUS
<1> QED BY <1>1, <1>2, <1>3

\* A sum of terms is the sum of those that are not left out.
LEMMA SumRestricted ==
  ASSUME NEW f, NEW S, IsFiniteSet(S), NEW T \in SUBSET S, \A x \in S : f[x] \in Int,
         \A x \in S \ T : f[x] = 0
  PROVE  SumFunctionOnSet(f, S) = SumFunctionOnSet(f, T)
<1> DEFINE F == {t \in SUBSET S : SumFunctionOnSet(f, t) # SumFunctionOnSet(f, t \cap T)}
<1>1. SUFFICES ASSUME F # {} PROVE FALSE
  <2>1. S \in SUBSET S /\ S \cap T = T
    OBVIOUS
  <2> QED BY <1>1, <2>1
<1>2. \A t \in F : IsFiniteSet(t)
  BY FS_Subset
<1> HIDE DEF F
<1>3. PICK t \in F : \A u \in F : ~(u \subseteq t /\ u # t)
  BY <1>1, <1>2, SmallestSet
<1>4. t \subseteq S /\ IsFiniteSet(t) /\ SumFunctionOnSet(f, t) # SumFunctionOnSet(f, t \cap T)
  BY <1>2 DEF F
<1>5. PICK x \in t : x \notin T
  <2>1. ~(t \subseteq T)
    <3>1. t \subseteq T => t \cap T = t
      OBVIOUS
    <3> QED BY <1>4, <3>1
  <2> QED BY <2>1
<1> DEFINE u == t \ {x}
<1>6. SumFunctionOnSet(f, t) = f[x] + SumFunctionOnSet(f, u)
  BY <1>4, SumWithout
<1>7. u \subseteq t /\ u # t /\ u \in SUBSET S /\ u \cap T = t \cap T /\ IsFiniteSet(u)
  BY <1>4, <1>5, FS_Subset
<1>8. SumFunctionOnSet(f, u) = SumFunctionOnSet(f, t \cap T)
  BY <1>3, <1>7 DEF F
<1>9. SumFunctionOnSet(f, u) \in Int /\ f[x] = 0
  <2>1. f[x] = 0
    BY <1>4, <1>5
  <2> HIDE DEF u
  <2> QED BY <1>7, <2>1, SumInt
<1> HIDE DEF u
<1> QED BY <1>4, <1>6, <1>8, <1>9

-----------------------------------------------------------------------------
(* Sums of sequences *)

LEMMA Numbers == \A a, b \in Int : IsFiniteSet(a .. b)
BY FS_Interval

\* The sum of the numbers of a sequence is a number.
LEMMA SumSeqInt ==
  ASSUME NEW s \in Seq(Int)
  PROVE  SumFunction(s) \in Int
<1>1. DOMAIN s = 1 .. Len(s) /\ Len(s) \in Nat /\ \A i \in 1 .. Len(s) : s[i] \in Int
  BY LenProperties, ElementOfSeq
<1>2. IsFiniteSet(DOMAIN s) /\ \A i \in DOMAIN s : s[i] \in Int
  BY <1>1, FS_Interval
<1>3. SumFunctionOnSet(s, DOMAIN s) \in Int
  BY <1>2, SumInt
<1> QED BY <1>3 DEF SumFunction

LEMMA SumSeqEmpty == SumFunction(<<>>) = 0
<1>1. DOMAIN <<>> = {}
  OBVIOUS
<1>2. SumFunctionOnSet(<<>>, {}) = 0
  BY SumEmpty
<1> QED BY <1>1, <1>2 DEF SumFunction

\* A number more at the end.
LEMMA SumAppend ==
  ASSUME NEW s \in Seq(Int), NEW e \in Int
  PROVE  SumFunction(Append(s, e)) = SumFunction(s) + e
<1> DEFINE t == Append(s, e)
           n == Len(s)
<1>1. /\ n \in Nat /\ DOMAIN s = 1 .. n /\ \A i \in 1 .. n : s[i] \in Int
      /\ DOMAIN t = 1 .. n + 1 /\ t[n + 1] = e /\ \A i \in 1 .. n : t[i] = s[i]
  <2>1. t \in Seq(Int) /\ Len(t) = n + 1 /\ t[n + 1] = e /\ \A i \in 1 .. n : t[i] = s[i]
    BY AppendProperties
  <2>2. DOMAIN t = 1 .. n + 1 /\ n \in Nat /\ DOMAIN s = 1 .. n
    BY <2>1, LenProperties
  <2>3. \A i \in 1 .. n : s[i] \in Int
    BY ElementOfSeq
  <2> QED BY <2>1, <2>2, <2>3
<1> HIDE DEF t, n
<1>2. IsFiniteSet(1 .. n + 1) /\ IsFiniteSet(1 .. n) /\ (1 .. n + 1) \ {n + 1} = 1 .. n
  <2>1. IsFiniteSet(1 .. n) /\ IsFiniteSet(1 .. n + 1)
    BY <1>1, Numbers
  <2>2. (1 .. n + 1) \ {n + 1} = 1 .. n
    BY <1>1
  <2> QED BY <2>1, <2>2
<1>3. n + 1 \in 1 .. n + 1 /\ \A i \in 1 .. n + 1 : t[i] \in Int
  BY <1>1
<1>4. SumFunctionOnSet(t, 1 .. n + 1) = t[n + 1] + SumFunctionOnSet(t, (1 .. n + 1) \ {n + 1})
  BY <1>2, <1>3, SumWithout
<1>5. SumFunctionOnSet(t, 1 .. n) = SumFunctionOnSet(s, 1 .. n)
  BY <1>1, <1>2, SumSame
<1>6. SumFunctionOnSet(s, 1 .. n) \in Int
  BY <1>1, <1>2, SumInt
<1>7. SumFunction(t) = SumFunctionOnSet(t, 1 .. n + 1) /\ SumFunction(s) = SumFunctionOnSet(s, 1 .. n)
  BY <1>1 DEF SumFunction
<1>8. SumFunction(t) = e + SumFunctionOnSet(s, 1 .. n)
  BY <1>1, <1>2, <1>4, <1>5, <1>7
<1> QED BY <1>6, <1>7, <1>8 DEF t

\* The terms may be numbered from one.
LEMMA SumShifted ==
  ASSUME NEW f, NEW g, NEW n \in Nat,
         \A i \in 1 .. n + 1 : f[i] \in Int, \A i \in 1 .. n : g[i] = f[i + 1]
  PROVE  SumFunctionOnSet(f, 2 .. n + 1) = SumFunctionOnSet(g, 1 .. n)
<1> DEFINE F == {m \in 0 .. n : SumFunctionOnSet(f, 2 .. m + 1) # SumFunctionOnSet(g, 1 .. m)}
<1>1. SUFFICES ASSUME F # {} PROVE FALSE
  <2>1. n \in 0 .. n
    OBVIOUS
  <2> QED BY <1>1, <2>1
<1>2. F \subseteq Nat
  OBVIOUS
<1> HIDE DEF F
<1>3. PICK m \in F : \A k \in F : m <= k
  BY <1>1, <1>2, LeastNumber
<1>4. m \in 0 .. n /\ SumFunctionOnSet(f, 2 .. m + 1) # SumFunctionOnSet(g, 1 .. m)
  BY DEF F
<1>5. m # 0
  <2>1. 2 .. 0 + 1 = {} /\ 1 .. 0 = {}
    OBVIOUS
  <2>2. SumFunctionOnSet(f, {}) = 0 /\ SumFunctionOnSet(g, {}) = 0
    BY SumEmpty
  <2> QED BY <1>4, <2>1, <2>2
<1> DEFINE k == m - 1
<1>6. k \in 0 .. n /\ k < m /\ m = k + 1
  BY <1>4, <1>5
<1>7. SumFunctionOnSet(f, 2 .. k + 1) = SumFunctionOnSet(g, 1 .. k)
  BY <1>2, <1>3, <1>6 DEF F
<1> HIDE DEF k
<1>8. /\ IsFiniteSet(2 .. m + 1) /\ IsFiniteSet(1 .. m)
      /\ m + 1 \in 2 .. m + 1 /\ m \in 1 .. m
      /\ (2 .. m + 1) \ {m + 1} = 2 .. k + 1 /\ (1 .. m) \ {m} = 1 .. k
      /\ \A i \in 2 .. m + 1 : f[i] \in Int
      /\ \A i \in 1 .. m : g[i] \in Int
      /\ g[m] = f[m + 1]
  <2>1. IsFiniteSet(2 .. m + 1) /\ IsFiniteSet(1 .. m)
    <3>1. 2 \in Int /\ 1 \in Int /\ m \in Int /\ m + 1 \in Int
      BY <1>4
    <3> QED BY <3>1, Numbers
  <2>2. (2 .. m + 1) \ {m + 1} = 2 .. k + 1 /\ (1 .. m) \ {m} = 1 .. k
    BY <1>4, <1>6
  <2>3. /\ \A i \in 2 .. m + 1 : f[i] \in Int
        /\ \A i \in 1 .. m : g[i] \in Int
        /\ g[m] = f[m + 1]
    BY <1>4, <1>6
  <2>4. m + 1 \in 2 .. m + 1 /\ m \in 1 .. m
    BY <1>4, <1>6
  <2> QED BY <2>1, <2>2, <2>3, <2>4
<1>9. SumFunctionOnSet(f, 2 .. m + 1) = f[m + 1] + SumFunctionOnSet(f, 2 .. k + 1)
  <2> DEFINE S == 2 .. m + 1
             x == m + 1
  <2>1. IsFiniteSet(S) /\ x \in S /\ \A i \in S : f[i] \in Int
    BY <1>8
  <2> HIDE DEF S, x
  <2>2. SumFunctionOnSet(f, S) = f[x] + SumFunctionOnSet(f, S \ {x})
    BY <2>1, SumWithout
  <2> QED BY <1>8, <2>2 DEF S, x
<1>10. SumFunctionOnSet(g, 1 .. m) = g[m] + SumFunctionOnSet(g, 1 .. k)
  <2> DEFINE S == 1 .. m
             x == m
  <2>1. IsFiniteSet(S) /\ x \in S /\ \A i \in S : g[i] \in Int
    BY <1>8
  <2> HIDE DEF S, x
  <2>2. SumFunctionOnSet(g, S) = g[x] + SumFunctionOnSet(g, S \ {x})
    BY <2>1, SumWithout
  <2> QED BY <1>8, <2>2 DEF S, x
<1> QED BY <1>4, <1>7, <1>8, <1>9, <1>10

\* A number less at the beginning.
LEMMA SumTail ==
  ASSUME NEW s \in Seq(Int), s # <<>>
  PROVE  SumFunction(s) = Head(s) + SumFunction(Tail(s))
<1> DEFINE t == Tail(s)
<1>1. PICK n \in Nat : Len(s) = n + 1
  <2>1. Len(s) \in Nat /\ Len(s) # 0
    BY EmptySeq, LenProperties
  <2> QED BY <2>1
<1>2. /\ DOMAIN s = 1 .. n + 1 /\ \A i \in 1 .. n + 1 : s[i] \in Int
      /\ DOMAIN t = 1 .. n /\ \A i \in 1 .. n : t[i] = s[i + 1]
      /\ Head(s) = s[1]
  <2>1. t \in Seq(Int) /\ Len(t) = n
    BY <1>1, HeadTailProperties
  <2>2. \A i \in 1 .. n : t[i] = s[i + 1]
    BY <1>1, HeadTailProperties
  <2>3. DOMAIN t = 1 .. n /\ DOMAIN s = 1 .. n + 1 /\ Head(s) = s[1]
    BY <1>1, <2>1, LenProperties, HeadTailProperties
  <2>4. \A i \in 1 .. n + 1 : s[i] \in Int
    BY <1>1, ElementOfSeq
  <2> QED BY <2>2, <2>3, <2>4
<1> HIDE DEF t
<1>3. /\ IsFiniteSet(1 .. n + 1) /\ (1 .. n + 1) \ {1} = 2 .. n + 1 /\ 1 \in 1 .. n + 1
  <2>1. IsFiniteSet(1 .. n + 1)
    BY Numbers
  <2> QED BY <2>1
<1>4. SumFunctionOnSet(s, 1 .. n + 1) = s[1] + SumFunctionOnSet(s, 2 .. n + 1)
  <2>1. SumFunctionOnSet(s, 1 .. n + 1) = s[1] + SumFunctionOnSet(s, (1 .. n + 1) \ {1})
    BY <1>2, <1>3, SumWithout
  <2> QED BY <1>3, <2>1
<1>5. SumFunctionOnSet(s, 2 .. n + 1) = SumFunctionOnSet(t, 1 .. n)
  BY <1>2, SumShifted
<1>6. SumFunction(s) = SumFunctionOnSet(s, 1 .. n + 1) /\ SumFunction(t) = SumFunctionOnSet(t, 1 .. n)
  BY <1>2 DEF SumFunction
<1> QED BY <1>2, <1>4, <1>5, <1>6 DEF t

\* A sum of natural numbers is one, and no smaller than any of its terms.
LEMMA SumNat ==
  ASSUME NEW f, NEW S, IsFiniteSet(S), \A x \in S : f[x] \in Nat
  PROVE  SumFunctionOnSet(f, S) \in Nat
<1> DEFINE F == {t \in SUBSET S : SumFunctionOnSet(f, t) \notin Nat}
<1>1. SUFFICES ASSUME F # {} PROVE FALSE
  <2>1. S \in SUBSET S
    OBVIOUS
  <2> QED BY <1>1, <2>1
<1>2. \A t \in F : IsFiniteSet(t)
  BY FS_Subset
<1> HIDE DEF F
<1>3. PICK t \in F : \A u \in F : ~(u \subseteq t /\ u # t)
  BY <1>1, <1>2, SmallestSet
<1>4. t \subseteq S /\ IsFiniteSet(t) /\ SumFunctionOnSet(f, t) \notin Nat
  BY <1>2 DEF F
<1>5. t # {}
  BY <1>4, SumEmpty
<1>6. First(t) \in t /\ SumFunctionOnSet(f, t) = f[First(t)] + SumFunctionOnSet(f, t \ {First(t)})
  BY <1>4, <1>5, SumFirst
<1>7. SumFunctionOnSet(f, t \ {First(t)}) \in Nat
  BY <1>3, <1>4, <1>6 DEF F
<1> QED BY <1>4, <1>6, <1>7

LEMMA SumAtLeast ==
  ASSUME NEW f, NEW S, IsFiniteSet(S), \A x \in S : f[x] \in Nat, NEW x \in S
  PROVE  f[x] <= SumFunctionOnSet(f, S)
<1> DEFINE T == S \ {x}
<1>1. IsFiniteSet(T) /\ \A y \in T : f[y] \in Nat
  BY FS_Subset
<1>2. \A y \in S : f[y] \in Int
  OBVIOUS
<1>3. SumFunctionOnSet(f, S) = f[x] + SumFunctionOnSet(f, T)
  BY <1>2, SumWithout
<1> HIDE DEF T
<1>4. SumFunctionOnSet(f, T) \in Nat
  BY <1>1, SumNat
<1> QED BY <1>3, <1>4

\* One more term.
LEMMA SumGrown ==
  ASSUME NEW f, NEW g, NEW S, IsFiniteSet(S), NEW T, NEW x \in T, T \ {x} = S,
         \A y \in S : f[y] \in Int /\ g[y] = f[y], g[x] \in Int
  PROVE  SumFunctionOnSet(g, T) = SumFunctionOnSet(f, S) + g[x]
<1>1. IsFiniteSet(T) /\ \A y \in T : g[y] \in Int
  <2>1. T = S \cup {x}
    OBVIOUS
  <2>2. IsFiniteSet(S \cup {x})
    BY FS_AddElement
  <2> QED BY <2>1, <2>2
<1>2. SumFunctionOnSet(g, T) = g[x] + SumFunctionOnSet(g, S)
  BY <1>1, SumWithout
<1>3. SumFunctionOnSet(g, S) = SumFunctionOnSet(f, S)
  BY SumSame
<1>4. SumFunctionOnSet(f, S) \in Int
  BY SumInt
<1> QED BY <1>2, <1>3, <1>4

\* The same sequence but for a number more at its end, or one less at its front.
LEMMA SumLonger ==
  ASSUME NEW s \in Seq(Int), NEW t \in Seq(Int), Len(t) = Len(s) + 1,
         \A i \in 1 .. Len(s) : t[i] = s[i]
  PROVE  SumFunction(t) = SumFunction(s) + t[Len(s) + 1]
<1> DEFINE e == t[Len(s) + 1]
<1>1. Len(s) \in Nat /\ e \in Int
  <2>1. Len(s) \in Nat /\ Len(s) + 1 \in 1 .. Len(t)
    BY LenProperties
  <2> QED BY <2>1, ElementOfSeq
<1>2. /\ Append(s, e) \in Seq(Int) /\ Len(Append(s, e)) = Len(s) + 1
      /\ \A i \in 1 .. Len(s) : Append(s, e)[i] = s[i]
      /\ Append(s, e)[Len(s) + 1] = e
  BY <1>1, AppendProperties
<1> HIDE DEF e
<1>3. \A i \in 1 .. Len(t) : t[i] = Append(s, e)[i]
  BY <1>1, <1>2 DEF e
<1>4. t = Append(s, e)
  BY <1>2, <1>3, SeqEqual
<1> QED BY <1>1, <1>4, SumAppend DEF e

LEMMA SumShorter ==
  ASSUME NEW s \in Seq(Int), NEW t \in Seq(Int), Len(s) = Len(t) + 1,
         \A i \in 1 .. Len(t) : t[i] = s[i + 1]
  PROVE  SumFunction(s) = s[1] + SumFunction(t)
<1>1. Len(t) \in Nat /\ s # <<>>
  <2>1. Len(t) \in Nat
    BY LenProperties
  <2>2. Len(s) # 0
    BY <2>1
  <2> QED BY <2>1, <2>2, EmptySeq
<1>2. /\ Tail(s) \in Seq(Int) /\ Len(Tail(s)) = Len(t)
      /\ \A i \in 1 .. Len(t) : Tail(s)[i] = s[i + 1]
  BY <1>1, HeadTailProperties
<1>3. t = Tail(s)
  BY <1>2, SeqEqual
<1>4. Head(s) = s[1]
  BY <1>1
<1> QED BY <1>1, <1>3, <1>4, SumTail
=================================================================================
