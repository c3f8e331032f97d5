----------------------------- MODULE BottleSums -----------------------------
(***************************************************************************)
(* Facts about SumFunction of the community module Functions, with which   *)
(* BottleAccounting adds up the bottles of a wine over their sizes. It is  *)
(* a fold over the subsets of the domain that takes one element after the  *)
(* other by CHOOSE; that the sum does not depend on the order, and how it  *)
(* changes with one value, is proved by looking at a smallest subset for   *)
(* which it would be wrong.                                                *)
(***************************************************************************)
EXTENDS Naturals, FiniteSets, Functions, FiniteSetTheorems, WellFoundedInduction, TLAPS

(* The element the fold takes first, and the fold's recursion over the     *)
(* subsets of S, once as one step and once as its fixed point.             *)
First(s) == CHOOSE x \in s : TRUE
Added(f, S, g) ==
    [s \in SUBSET S |-> IF s = {} THEN 0 ELSE f[First(s)] + g[s \ {First(s)}]]
Partial(f, S) == CHOOSE g : g = Added(f, S, g)

(***************************************************************************)
(* Every non-empty set of subsets of a finite set has a smallest member.   *)
(***************************************************************************)
LEMMA SmallestSubset ==
    ASSUME NEW S, IsFiniteSet(S), NEW T, T \subseteq SUBSET S, T # {}
    PROVE  \E x \in T : \A y \in T : y \subseteq x => y = x
<1>1. FiniteSubsetsOf(S) = SUBSET S
  BY FS_FiniteSubsetsOfFinite
<1>2. IsWellFoundedOn(StrictSubsetOrdering(S), SUBSET S)
  BY <1>1, FS_StrictSubsetOrderingWellFounded
<1>3. PICK x \in T : \A y \in T : <<y, x>> \notin StrictSubsetOrdering(S)
  BY <1>2, WFMin
<1>4. ASSUME NEW y \in T, y \subseteq x, y # x PROVE FALSE
  <2>1. <<y, x>> \in StrictSubsetOrdering(S)
    BY <1>4 DEF StrictSubsetOrdering
  <2> QED
    BY <1>3, <2>1
<1> QED
  BY <1>4

(***************************************************************************)
(* The fold, unfolded.                                                     *)
(***************************************************************************)
LEMMA SumIsPartial ==
    ASSUME NEW f
    PROVE  SumFunction(f) = Partial(f, DOMAIN f)[DOMAIN f]
BY DEF SumFunction, SumFunctionOnSet, FoldFunctionOnSet, MapThenFoldSet,
       Partial, Added, First

(***************************************************************************)
(* First takes an element, and the rest is smaller.                        *)
(***************************************************************************)
LEMMA FirstIsMember ==
    ASSUME NEW s, s # {}
    PROVE  First(s) \in s
BY DEF First

(***************************************************************************)
(* Two solutions of the recursion agree where both are defined.            *)
(***************************************************************************)
LEMMA AddedUnique ==
    ASSUME NEW S, IsFiniteSet(S), NEW f, NEW T \in SUBSET S, NEW g, NEW h,
           g = Added(f, S, g), h = Added(f, T, h)
    PROVE  \A s \in SUBSET T : g[s] = h[s]
<1> DEFINE Bad == {s \in SUBSET T : g[s] # h[s]}
<1> SUFFICES ASSUME Bad # {} PROVE FALSE
  OBVIOUS
<1>1. Bad \subseteq SUBSET S
  OBVIOUS
<1>2. PICK s \in Bad : \A r \in Bad : r \subseteq s => r = s
  <2> HIDE DEF Bad
  <2> QED
    BY <1>1, SmallestSubset
<1>3. s \in SUBSET T /\ s \in SUBSET S /\ g[s] # h[s]
  BY <1>2
<1>4. CASE s = {}
  BY <1>3, <1>4 DEF Added
<1>5. CASE s # {}
  <2>1. First(s) \in s
    BY <1>5, FirstIsMember
  <2>2. g[s \ {First(s)}] = h[s \ {First(s)}]
    BY <1>2, <1>3, <2>1
  <2>3. /\ g[s] = f[First(s)] + g[s \ {First(s)}]
        /\ h[s] = f[First(s)] + h[s \ {First(s)}]
    BY <1>3, <1>5 DEF Added
  <2> QED
    BY <1>3, <2>2, <2>3
<1> QED
  BY <1>4, <1>5

(***************************************************************************)
(* The recursion has a solution, and its values are numbers.               *)
(***************************************************************************)
LEMMA AddedExists ==
    ASSUME NEW S, IsFiniteSet(S), NEW f \in [S -> Nat]
    PROVE  \E g \in [SUBSET S -> Nat] : g = Added(f, S, g)
<1> DEFINE Solved(T) == \E g \in [SUBSET T -> Nat] : g = Added(f, T, g)
<1> DEFINE Bad == {T \in SUBSET S : ~Solved(T)}
<1> SUFFICES ASSUME Bad # {} PROVE FALSE
  OBVIOUS
<1>1. PICK T \in Bad : \A U \in Bad : U \subseteq T => U = T
  <2>1. Bad \subseteq SUBSET S
    OBVIOUS
  <2> HIDE DEF Bad
  <2> QED
    BY <2>1, SmallestSubset
<1>2. T \in SUBSET S /\ ~Solved(T)
  BY <1>1
<1> DEFINE Sol(U) == CHOOSE g \in [SUBSET U -> Nat] : g = Added(f, U, g)
<1>3. ASSUME NEW U \in SUBSET T, U # T
      PROVE  Sol(U) \in [SUBSET U -> Nat] /\ Sol(U) = Added(f, U, Sol(U))
  <2>1. Solved(U)
    BY <1>1, <1>2, <1>3
  <2> QED
    BY <2>1
<1> DEFINE Rest(s) == s \ {First(s)}
<1> DEFINE h == [s \in SUBSET T |-> IF s = {} THEN 0
                                    ELSE f[First(s)] + Sol(Rest(s))[Rest(s)]]
<1>4. ASSUME NEW s \in SUBSET T, s # {}
      PROVE  /\ First(s) \in S /\ f[First(s)] \in Nat
             /\ Rest(s) \in SUBSET T /\ Rest(s) # T
             /\ Sol(Rest(s))[Rest(s)] \in Nat
  <2>1. First(s) \in s
    BY <1>4, FirstIsMember
  <2>2. Rest(s) \in SUBSET T /\ Rest(s) # T
    BY <2>1
  <2>3. Sol(Rest(s)) \in [SUBSET Rest(s) -> Nat]
    BY <1>3, <2>2
  <2> HIDE DEF Sol, Rest
  <2> QED
    BY <1>2, <2>1, <2>2, <2>3
<1>5. h \in [SUBSET T -> Nat]
  <2> HIDE DEF Sol, Rest
  <2> QED
    BY <1>4
<1>6. ASSUME NEW s \in SUBSET T, s # {} PROVE h[Rest(s)] = Sol(Rest(s))[Rest(s)]
  <2> DEFINE r == Rest(s)
  <2>1. r \in SUBSET T /\ r # T
    BY <1>4, <1>6
  <2>2. Sol(r) = Added(f, r, Sol(r))
    BY <1>3, <2>1
  <2>3. CASE r = {}
    <3>1. Sol(r)[r] = 0
      BY <2>2, <2>3 DEF Added
    <3>2. h[r] = 0
      BY <2>1, <2>3
    <3> QED
      BY <3>1, <3>2
  <2>4. CASE r # {}
    <3> DEFINE q == Rest(r)
    <3>1. q \in SUBSET T /\ q # T
      BY <1>4, <2>1, <2>4
    <3>2. Sol(q) = Added(f, q, Sol(q))
      BY <1>3, <3>1
    <3>3. q \in SUBSET r /\ r \in SUBSET S
      BY <1>2, <2>1
    <3>4. IsFiniteSet(r)
      BY <3>3, FS_Subset
    <3>5. Sol(r)[q] = Sol(q)[q]
      <4> HIDE DEF Sol, r, q
      <4> QED
        BY <2>2, <3>2, <3>3, <3>4, AddedUnique
    <3>6. Sol(r)[r] = f[First(r)] + Sol(r)[q]
      <4> HIDE DEF Sol
      <4>1. Sol(r)[r] = Added(f, r, Sol(r))[r]
        BY <2>2
      <4> QED
        BY <2>4, <4>1 DEF Added
    <3>7. h[r] = f[First(r)] + Sol(q)[q]
      <4> HIDE DEF Sol
      <4> QED
        BY <2>1, <2>4
    <3> QED
      BY <3>5, <3>6, <3>7
  <2> QED
    BY <2>3, <2>4
<1>7. h = Added(f, T, h)
  <2>1. ASSUME NEW s \in SUBSET T
        PROVE  h[s] = IF s = {} THEN 0 ELSE f[First(s)] + h[Rest(s)]
    <3>1. s # {} => h[Rest(s)] = Sol(Rest(s))[Rest(s)]
      BY <1>6
    <3> HIDE DEF Sol
    <3> QED
      BY <3>1
  <2> HIDE DEF h
  <2> QED
    BY <1>5, <2>1 DEF Added
<1>8. Solved(T)
  <2> HIDE DEF h
  <2> QED
    BY <1>5, <1>7
<1> QED
  BY <1>2, <1>8

(***************************************************************************)
(* What the fold computes for a finite set: the values of all subsets.     *)
(***************************************************************************)
LEMMA PartialSums ==
    ASSUME NEW S, IsFiniteSet(S), NEW f \in [S -> Nat]
    PROVE  /\ Partial(f, S) \in [SUBSET S -> Nat]
           /\ Partial(f, S)[{}] = 0
           /\ \A s \in SUBSET S : s # {} =>
                 Partial(f, S)[s] = f[First(s)] + Partial(f, S)[s \ {First(s)}]
<1>1. PICK g \in [SUBSET S -> Nat] : g = Added(f, S, g)
  BY AddedExists
<1> DEFINE p == Partial(f, S)
<1>2. p = Added(f, S, p)
  BY <1>1 DEF Partial
<1> HIDE DEF p
<1>3. \A s \in SUBSET S : p[s] = g[s]
  BY <1>1, <1>2, AddedUnique
<1>4. p \in [SUBSET S -> Nat]
  <2>1. p = [s \in SUBSET S |-> p[s]]
    BY <1>2 DEF Added
  <2> QED
    BY <1>3, <2>1
<1>5. /\ p[{}] = 0
      /\ \A s \in SUBSET S : s # {} => p[s] = f[First(s)] + p[s \ {First(s)}]
  BY <1>2 DEF Added
<1> QED
  BY <1>4, <1>5 DEF p

(***************************************************************************)
(* The order does not matter: any member may be taken first.               *)
(***************************************************************************)
LEMMA TakeAny ==
    ASSUME NEW S, IsFiniteSet(S), NEW f \in [S -> Nat],
           NEW s \in SUBSET S, NEW y \in s
    PROVE  Partial(f, S)[s] = f[y] + Partial(f, S)[s \ {y}]
<1> DEFINE p == Partial(f, S)
<1>1. /\ p \in [SUBSET S -> Nat]
      /\ \A r \in SUBSET S : r # {} => p[r] = f[First(r)] + p[r \ {First(r)}]
  BY PartialSums
<1> HIDE DEF p
<1> DEFINE Bad == {r \in SUBSET S : \E x \in r : p[r] # f[x] + p[r \ {x}]}
<1>2. Bad = {}
  <2> SUFFICES ASSUME Bad # {} PROVE FALSE
    OBVIOUS
  <2>1. PICK r \in Bad : \A q \in Bad : q \subseteq r => q = r
    <3>1. Bad \subseteq SUBSET S
      OBVIOUS
    <3> HIDE DEF Bad
    <3> QED
      BY <3>1, SmallestSubset
  <2>2. PICK x \in r : p[r] # f[x] + p[r \ {x}]
    BY <2>1
  <2>3. r \in SUBSET S /\ r # {} /\ First(r) \in r
    BY <2>1, <2>2, FirstIsMember
  <2> DEFINE z == First(r)
  <2>4. p[r] = f[z] + p[r \ {z}] /\ z # x
    BY <1>1, <2>2, <2>3
  <2>5. \A q \in SUBSET r : q # r => \A v \in q : p[q] = f[v] + p[q \ {v}]
    BY <2>1, <2>3
  <2> HIDE DEF z
  <2>6. z \in r
    BY <2>3 DEF z
  <2> DEFINE rest == r \ {x, z}
  <2>7. rest \in SUBSET S /\ (r \ {z}) \ {x} = rest /\ (r \ {x}) \ {z} = rest
    BY <2>3
  <2>8. p[r \ {z}] = f[x] + p[rest]
    BY <2>4, <2>5, <2>6, <2>7
  <2>9. p[r \ {x}] = f[z] + p[rest]
    BY <2>4, <2>5, <2>6, <2>7
  <2> HIDE DEF rest, Bad
  <2>10. f[x] \in Nat /\ f[z] \in Nat /\ p[rest] \in Nat
    BY <1>1, <2>3, <2>6, <2>7
  <2>11. p[r] = f[z] + (f[x] + p[rest]) /\ p[r] # f[x] + (f[z] + p[rest])
    BY <2>2, <2>4, <2>8, <2>9
  <2> QED
    BY <2>10, <2>11
<1> QED
  BY <1>2 DEF p

(***************************************************************************)
(* A value that is not added does not count.                               *)
(***************************************************************************)
LEMMA OthersOnly ==
    ASSUME NEW S, IsFiniteSet(S), NEW f \in [S -> Nat], NEW y \in S, NEW n \in Nat,
           NEW s \in SUBSET (S \ {y})
    PROVE  Partial([f EXCEPT ![y] = n], S)[s] = Partial(f, S)[s]
<1> DEFINE e == [f EXCEPT ![y] = n]
<1> DEFINE p == Partial(f, S)
<1> DEFINE q == Partial(e, S)
<1>1. e \in [S -> Nat] /\ \A x \in S \ {y} : e[x] = f[x]
  OBVIOUS
<1> HIDE DEF e
<1>2. /\ p[{}] = 0
      /\ \A r \in SUBSET S : r # {} => p[r] = f[First(r)] + p[r \ {First(r)}]
  BY PartialSums
<1>3. /\ q[{}] = 0
      /\ \A r \in SUBSET S : r # {} => q[r] = e[First(r)] + q[r \ {First(r)}]
  BY <1>1, PartialSums
<1> HIDE DEF p, q
<1> DEFINE Bad == {r \in SUBSET (S \ {y}) : q[r] # p[r]}
<1>4. Bad = {}
  <2> SUFFICES ASSUME Bad # {} PROVE FALSE
    OBVIOUS
  <2>1. PICK r \in Bad : \A v \in Bad : v \subseteq r => v = r
    <3>1. Bad \subseteq SUBSET S
      OBVIOUS
    <3> HIDE DEF Bad
    <3> QED
      BY <3>1, SmallestSubset
  <2>2. r \in SUBSET (S \ {y}) /\ q[r] # p[r] /\ r # {}
    BY <1>2, <1>3, <2>1
  <2>3. First(r) \in r /\ e[First(r)] = f[First(r)]
    BY <1>1, <2>2, FirstIsMember
  <2>4. q[r \ {First(r)}] = p[r \ {First(r)}]
    BY <2>1, <2>2, <2>3
  <2> QED
    BY <1>2, <1>3, <2>2, <2>3, <2>4
<1> QED
  BY <1>4 DEF e, p, q

-----------------------------------------------------------------------------

(***************************************************************************)
(* A sum is a number, and no value exceeds it.                             *)
(***************************************************************************)
THEOREM SumBounds ==
    ASSUME NEW S, IsFiniteSet(S), NEW f \in [S -> Nat]
    PROVE  SumFunction(f) \in Nat /\ \A x \in S : f[x] <= SumFunction(f)
<1> DEFINE p == Partial(f, S)
<1>1. SumFunction(f) = p[S] /\ p \in [SUBSET S -> Nat]
  BY SumIsPartial, PartialSums
<1>2. ASSUME NEW x \in S PROVE p[S] = f[x] + p[S \ {x}]
  BY TakeAny
<1> HIDE DEF p
<1>3. ASSUME NEW x \in S PROVE f[x] <= p[S]
  <2>1. f[x] \in Nat /\ p[S \ {x}] \in Nat
    BY <1>1
  <2> QED
    BY <1>2, <2>1
<1> QED
  BY <1>1, <1>3

(***************************************************************************)
(* Changing one value changes the sum by the difference.                   *)
(***************************************************************************)
THEOREM SumExcept ==
    ASSUME NEW S, IsFiniteSet(S), NEW f \in [S -> Nat], NEW y \in S, NEW n \in Nat
    PROVE  SumFunction([f EXCEPT ![y] = n]) = (SumFunction(f) - f[y]) + n
<1> DEFINE e == [f EXCEPT ![y] = n]
<1>1. e \in [S -> Nat] /\ e[y] = n
  OBVIOUS
<1>2. Partial(e, S)[S \ {y}] = Partial(f, S)[S \ {y}]
  <2>1. \A s \in SUBSET (S \ {y}) : Partial(e, S)[s] = Partial(f, S)[s]
    BY OthersOnly
  <2> HIDE DEF e
  <2> QED
    BY <2>1
<1> HIDE DEF e
<1>3. SumFunction(e) = n + Partial(e, S)[S \ {y}]
  <2>1. SumFunction(e) = Partial(e, S)[S] /\ S \in SUBSET S
    BY <1>1, SumIsPartial
  <2>2. Partial(e, S)[S] = e[y] + Partial(e, S)[S \ {y}]
    BY <1>1, <2>1, TakeAny
  <2> QED
    BY <1>1, <2>1, <2>2
<1>4. SumFunction(f) = f[y] + Partial(f, S)[S \ {y}]
  <2>1. SumFunction(f) = Partial(f, S)[S] /\ S \in SUBSET S
    BY SumIsPartial
  <2> QED
    BY <2>1, TakeAny
<1>5. Partial(f, S)[S \ {y}] \in Nat /\ f[y] \in Nat
  <2>1. Partial(f, S) \in [SUBSET S -> Nat]
    BY PartialSums
  <2> QED
    BY <2>1
<1> QED
  BY <1>2, <1>3, <1>4, <1>5 DEF e

(***************************************************************************)
(* The sum is zero exactly when all values are.                            *)
(***************************************************************************)
THEOREM SumZero ==
    ASSUME NEW S, IsFiniteSet(S), NEW f \in [S -> Nat]
    PROVE  SumFunction(f) = 0 <=> f = [x \in S |-> 0]
<1>1. ASSUME SumFunction(f) = 0, NEW x \in S PROVE f[x] = 0
  BY <1>1, SumBounds
<1>2. ASSUME \A x \in S : f[x] = 0 PROVE SumFunction(f) = 0
  <2> DEFINE p == Partial(f, S)
  <2>1. /\ p[{}] = 0 /\ p \in [SUBSET S -> Nat]
        /\ \A r \in SUBSET S : r # {} => p[r] = f[First(r)] + p[r \ {First(r)}]
    BY PartialSums
  <2> HIDE DEF p
  <2> DEFINE Bad == {r \in SUBSET S : p[r] # 0}
  <2>2. Bad = {}
    <3> SUFFICES ASSUME Bad # {} PROVE FALSE
      OBVIOUS
    <3>1. PICK r \in Bad : \A v \in Bad : v \subseteq r => v = r
      <4>1. Bad \subseteq SUBSET S
        OBVIOUS
      <4> HIDE DEF Bad
      <4> QED
        BY <4>1, SmallestSubset
    <3>2. r \in SUBSET S /\ p[r] # 0 /\ r # {}
      BY <2>1, <3>1
    <3>3. First(r) \in r /\ f[First(r)] = 0
      BY <1>2, <3>2, FirstIsMember
    <3>4. p[r \ {First(r)}] = 0
      BY <3>1, <3>2, <3>3
    <3> QED
      BY <2>1, <3>2, <3>3, <3>4
  <2> QED
    BY <2>2, SumIsPartial DEF p
<1> QED
  BY <1>1, <1>2

(***************************************************************************)
(* The sum grows with the values.                                          *)
(***************************************************************************)
THEOREM SumMonotone ==
    ASSUME NEW S, IsFiniteSet(S), NEW f \in [S -> Nat], NEW g \in [S -> Nat],
           \A x \in S : f[x] <= g[x]
    PROVE  SumFunction(f) <= SumFunction(g)
<1> DEFINE p == Partial(f, S)
<1> DEFINE q == Partial(g, S)
<1>1. /\ p[{}] = 0 /\ p \in [SUBSET S -> Nat]
      /\ \A r \in SUBSET S : r # {} => p[r] = f[First(r)] + p[r \ {First(r)}]
  BY PartialSums
<1>2. /\ q[{}] = 0 /\ q \in [SUBSET S -> Nat]
      /\ \A r \in SUBSET S : r # {} => q[r] = g[First(r)] + q[r \ {First(r)}]
  BY PartialSums
<1>3. SumFunction(f) = p[S] /\ SumFunction(g) = q[S]
  BY SumIsPartial
<1> HIDE DEF p, q
<1> DEFINE Bad == {r \in SUBSET S : ~(p[r] <= q[r])}
<1>4. Bad = {}
  <2> SUFFICES ASSUME Bad # {} PROVE FALSE
    OBVIOUS
  <2>1. PICK r \in Bad : \A v \in Bad : v \subseteq r => v = r
    <3>1. Bad \subseteq SUBSET S
      OBVIOUS
    <3> HIDE DEF Bad
    <3> QED
      BY <3>1, SmallestSubset
  <2>2. r \in SUBSET S /\ ~(p[r] <= q[r]) /\ r # {}
    <3>1. r \in SUBSET S /\ ~(p[r] <= q[r])
      BY <2>1
    <3>2. r = {} => p[r] = 0 /\ q[r] = 0
      BY <1>1, <1>2
    <3> HIDE DEF Bad
    <3> QED
      BY <3>1, <3>2
  <2> DEFINE z == First(r)
  <2> DEFINE rest == r \ {z}
  <2>3. z \in r
    BY <2>2, FirstIsMember
  <2>4. p[rest] <= q[rest] /\ rest \in SUBSET S
    BY <2>1, <2>2, <2>3
  <2>5. p[r] = f[z] + p[rest] /\ q[r] = g[z] + q[rest]
    BY <1>1, <1>2, <2>2
  <2> HIDE DEF z, rest, Bad
  <2>6. /\ f[z] \in Nat /\ g[z] \in Nat /\ f[z] <= g[z]
        /\ p[rest] \in Nat /\ q[rest] \in Nat
    BY <1>1, <1>2, <2>2, <2>3, <2>4
  <2> QED
    BY <2>2, <2>4, <2>5, <2>6
<1> QED
  BY <1>3, <1>4

(***************************************************************************)
(* The parts of a finite set, by a key of its members, add up to it.       *)
(***************************************************************************)
THEOREM SumOfParts ==
    ASSUME NEW S, IsFiniteSet(S), NEW H, IsFiniteSet(H), NEW k \in [H -> S]
    PROVE  SumFunction([x \in S |-> Cardinality({h \in H : k[h] = x})]) = Cardinality(H)
<1> DEFINE Part(G, x) == {h \in G : k[h] = x}
<1> DEFINE Parts(G) == [x \in S |-> Cardinality(Part(G, x))]
<1>1. ASSUME NEW G \in SUBSET H
      PROVE  /\ IsFiniteSet(G) /\ Cardinality(G) \in Nat
             /\ \A x \in S : IsFiniteSet(Part(G, x)) /\ Cardinality(Part(G, x)) \in Nat
             /\ Parts(G) \in [S -> Nat]
  <2>1. IsFiniteSet(G)
    BY FS_Subset
  <2>2. ASSUME NEW x \in S PROVE IsFiniteSet(Part(G, x)) /\ Cardinality(Part(G, x)) \in Nat
    <3>1. Part(G, x) \subseteq G
      OBVIOUS
    <3> HIDE DEF Part
    <3> QED
      BY <2>1, <3>1, FS_Subset, FS_CardinalityType
  <2> HIDE DEF Part
  <2> QED
    BY <2>1, <2>2, FS_CardinalityType
<1> DEFINE Bad == {G \in SUBSET H : SumFunction(Parts(G)) # Cardinality(G)}
<1>2. Bad = {}
  <2> SUFFICES ASSUME Bad # {} PROVE FALSE
    OBVIOUS
  <2>1. PICK G \in Bad : \A F \in Bad : F \subseteq G => F = G
    <3>1. Bad \subseteq SUBSET H
      OBVIOUS
    <3> HIDE DEF Bad
    <3> QED
      BY <3>1, SmallestSubset
  <2>2. G \in SUBSET H /\ SumFunction(Parts(G)) # Cardinality(G)
    BY <2>1
  <2>3. CASE G = {}
    <3>1. \A x \in S : Part(G, x) = {}
      BY <2>3
    <3>2. Parts(G) = [x \in S |-> 0]
      <4> HIDE DEF Part
      <4> QED
        BY <3>1, FS_EmptySet
    <3> HIDE DEF Parts
    <3>3. SumFunction(Parts(G)) = 0
      BY <1>1, <2>2, <3>2, SumZero
    <3> QED
      BY <2>2, <2>3, <3>3, FS_EmptySet
  <2>4. CASE G # {}
    <3>1. PICK h \in G : TRUE
      BY <2>4
    <3> DEFINE F == G \ {h}
    <3> DEFINE y == k[h]
    <3>2. F \in SUBSET H /\ F # G /\ y \in S
      BY <2>2, <3>1
    <3>3. SumFunction(Parts(F)) = Cardinality(F)
      <4> HIDE DEF Parts
      <4> QED
        BY <2>1, <3>2
    <3>4. Cardinality(G) = Cardinality(F) + 1
      <4>1. Cardinality(F) = Cardinality(G) - 1 /\ Cardinality(G) \in Nat
        BY <1>1, <2>2, <3>1, FS_RemoveElement
      <4>2. Cardinality(F) \in Nat
        BY <1>1, <3>2
      <4> QED
        BY <4>1, <4>2
    <3>5. Part(F, y) = Part(G, y) \ {h} /\ h \in Part(G, y)
      BY <3>1
    <3>6. ASSUME NEW x \in S, x # y PROVE Part(F, x) = Part(G, x)
      BY <3>6
    <3>7. Cardinality(Part(G, y)) = Cardinality(Part(F, y)) + 1
      <4>1. /\ IsFiniteSet(Part(G, y)) /\ Cardinality(Part(G, y)) \in Nat
            /\ Cardinality(Part(F, y)) \in Nat
        BY <1>1, <2>2, <3>2
      <4> HIDE DEF Part
      <4>2. Cardinality(Part(G, y) \ {h}) = Cardinality(Part(G, y)) - 1
        BY <4>1, <3>5, FS_RemoveElement
      <4> HIDE DEF F
      <4> QED
        BY <3>5, <4>1, <4>2
    <3>8. Parts(F) \in [S -> Nat] /\ Cardinality(Part(F, y)) \in Nat
      BY <1>1, <3>2
    <3> DEFINE pf == Parts(F)
    <3> DEFINE n == Cardinality(Part(F, y)) + 1
    <3>9. Parts(G) = [pf EXCEPT ![y] = n]
      <4> HIDE DEF Part, F
      <4> QED
        BY <3>6, <3>7
    <3>10. pf[y] = Cardinality(Part(F, y))
      BY <3>2
    <3> HIDE DEF pf
    <3>11. SumFunction([pf EXCEPT ![y] = n]) = (SumFunction(pf) - pf[y]) + n
      <4>1. pf \in [S -> Nat] /\ y \in S /\ n \in Nat
        BY <3>2, <3>8 DEF pf
      <4> HIDE DEF n, y
      <4> QED
        BY <4>1, SumExcept
    <3>12. SumFunction(pf) = Cardinality(F) /\ Cardinality(F) \in Nat
      BY <1>1, <3>2, <3>3 DEF pf
    <3> HIDE DEF Part, F, y, Parts
    <3>13. SumFunction(Parts(G)) = Cardinality(F) + 1
      BY <3>8, <3>9, <3>10, <3>11, <3>12
    <3> QED
      BY <2>2, <3>4, <3>13
  <2> QED
    BY <2>3, <2>4
<1> QED
  BY <1>2

=============================================================================
