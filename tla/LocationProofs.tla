--------------------------- MODULE LocationProofs ---------------------------
(***************************************************************************)
(* Proofs about LocationString: for any names, any number of shelves and   *)
(* positions and any quantity, the readers of the location string agree    *)
(* with its writers in the way ReadsBack, CountsSpots and ShelvesShowAll   *)
(* say. First what Split, Join and Trim do to a string that was put        *)
(* together, then the segments, then the string of all bottles.            *)
(***************************************************************************)
EXTENDS LocationString, BottleSums, SequenceTheorems

-----------------------------------------------------------------------------
(* Split                                                                   *)

Below(S, i) == {j \in S : j < i}

(***************************************************************************)
(* A member with k - 1 smaller ones is the k-th.                           *)
(***************************************************************************)
LEMMA NthIs ==
    ASSUME NEW S \in SUBSET Nat, IsFiniteSet(S), NEW i \in S, NEW k \in Int,
           Cardinality(Below(S, i)) = k - 1
    PROVE  Nth(S, k) = i
<1> DEFINE c == Nth(S, k)
<1>1. c \in S /\ Cardinality(Below(S, c)) = k - 1
  BY DEF Nth, Below
<1> HIDE DEF c
<1>0. c \in Nat /\ i \in Nat /\ \A j \in S : j \in Nat
  BY <1>1
<1>2. IsFiniteSet(Below(S, c)) /\ IsFiniteSet(Below(S, i))
  <2>1. Below(S, c) \in SUBSET S /\ Below(S, i) \in SUBSET S
    BY DEF Below
  <2> QED
    BY <2>1, FS_Subset
<1>3. CASE c < i
  <2>1. Below(S, c) \in SUBSET Below(S, i) /\ c \in Below(S, i) /\ c \notin Below(S, c)
    <3>1. \A j \in S : j < c => j < i
      BY <1>0, <1>3
    <3>2. ~(c < c)
      BY <1>0
    <3> QED
      BY <1>1, <1>3, <3>1, <3>2 DEF Below
  <2>2. Below(S, c) = Below(S, i)
    BY <1>1, <1>2, <2>1, FS_Subset
  <2> QED
    BY <2>1, <2>2
<1>4. CASE i < c
  <2>1. Below(S, i) \in SUBSET Below(S, c) /\ i \in Below(S, c) /\ i \notin Below(S, i)
    <3>1. \A j \in S : j < i => j < c
      BY <1>0, <1>4
    <3>2. ~(i < i)
      BY <1>0
    <3> QED
      BY <1>1, <1>4, <3>1, <3>2 DEF Below
  <2>2. Below(S, c) = Below(S, i)
    BY <1>1, <1>2, <2>1, FS_Subset
  <2> QED
    BY <2>1, <2>2
<1> QED
  BY <1>0, <1>3, <1>4 DEF c

(***************************************************************************)
(* A finite set of numbers has a k-th member for every k up to its size.   *)
(***************************************************************************)
LEMMA NthExists ==
    ASSUME NEW S \in SUBSET Nat, IsFiniteSet(S), NEW k \in 1..Cardinality(S)
    PROVE  Nth(S, k) \in S /\ Cardinality(Below(S, Nth(S, k))) = k - 1
<1> DEFINE n == Cardinality(S)
<1> DEFINE f == [i \in S |-> Cardinality(Below(S, i))]
<1>1. n \in Nat
  BY FS_CardinalityType
<1>2. ASSUME NEW i \in S PROVE Cardinality(Below(S, i)) \in 0..(n - 1)
  <2>1. Below(S, i) \in SUBSET S /\ Below(S, i) # S
    BY DEF Below
  <2>2. IsFiniteSet(Below(S, i)) /\ Cardinality(Below(S, i)) <= n /\ Cardinality(Below(S, i)) # n
    BY <2>1, FS_Subset
  <2>3. Cardinality(Below(S, i)) \in Nat
    BY <2>2, FS_CardinalityType
  <2> HIDE DEF n
  <2> QED
    BY <1>1, <2>2, <2>3
<1>3. \A i, j \in S : f[i] = f[j] => i = j
  <2> SUFFICES ASSUME NEW i \in S, NEW j \in S, f[i] = f[j] PROVE i = j
    OBVIOUS
  <2> DEFINE m == Cardinality(Below(S, i)) + 1
  <2>1. Cardinality(Below(S, i)) = m - 1 /\ Cardinality(Below(S, j)) = m - 1 /\ m \in Int
    BY <1>2
  <2> HIDE DEF m
  <2> QED
    BY <2>1, NthIs
<1>4. f \in Injection(S, 0..(n - 1))
  <2>1. f \in [S -> 0..(n - 1)]
    BY <1>2
  <2> HIDE DEF f, n
  <2> QED
    BY <1>3, <2>1 DEF Injection, IsInjective
<1>5. IsFiniteSet(0..(n - 1)) /\ Cardinality(0..(n - 1)) = n
  <2>1. 0 \in Int /\ n - 1 \in Int
    BY <1>1
  <2> HIDE DEF n
  <2> QED
    BY <1>1, <2>1, FS_Interval
<1>6. f \in Surjection(S, 0..(n - 1))
  <2> HIDE DEF f
  <2> QED
    BY <1>4, <1>5, FS_Injection
<1>7. \E i \in S : f[i] = k - 1
  <2>1. k - 1 \in 0..(n - 1)
    BY <1>1
  <2> HIDE DEF f, n
  <2> QED
    BY <1>6, <2>1 DEF Surjection
<1> QED
  BY <1>7 DEF Nth, Below

(***************************************************************************)
(* A finite set of numbers that is not empty has a least and a greatest    *)
(* member.                                                                 *)
(***************************************************************************)
LEMMA MinMax ==
    ASSUME NEW S \in SUBSET Nat, IsFiniteSet(S), S # {}
    PROVE  /\ Min(S) \in S /\ \A i \in S : Min(S) <= i
           /\ Max(S) \in S /\ \A i \in S : i <= Max(S)
<1> DEFINE n == Cardinality(S)
<1>1. n \in Nat /\ n >= 1 /\ \A i \in S : i \in Nat
  <2>1. n \in Nat /\ n # 0
    BY FS_CardinalityType, FS_EmptySet
  <2> HIDE DEF n
  <2> QED
    BY <2>1
<1>2. ASSUME NEW k \in 1..n PROVE Nth(S, k) \in S /\ Cardinality(Below(S, Nth(S, k))) = k - 1
  BY NthExists
<1> DEFINE low == Nth(S, 1)
<1> DEFINE high == Nth(S, n)
<1>3. low \in S /\ Cardinality(Below(S, low)) = 0
  <2>1. 1 \in 1..n
    BY <1>1
  <2> HIDE DEF n
  <2>2. Cardinality(Below(S, Nth(S, 1))) = 1 - 1 /\ Nth(S, 1) \in S
    BY <1>2, <2>1
  <2> QED
    BY <2>2
<1>4. high \in S /\ Cardinality(Below(S, high)) = n - 1
  <2>1. n \in 1..n
    BY <1>1
  <2> HIDE DEF n
  <2> QED
    BY <1>2, <2>1
<1> HIDE DEF low, high
<1>5. \A i \in S : low <= i
  <2>1. IsFiniteSet(Below(S, low))
    <3>1. Below(S, low) \in SUBSET S
      BY DEF Below
    <3> QED
      BY <3>1, FS_Subset
  <2>2. Below(S, low) = {}
    BY <1>3, <2>1, FS_EmptySet
  <2>3. \A i \in S : ~(i < low)
    BY <2>2 DEF Below
  <2> QED
    BY <1>1, <1>3, <2>3
<1>6. ASSUME NEW i \in S, ~(i <= high) PROVE FALSE
  <2>1. high < i /\ ~(high < high)
    BY <1>1, <1>4, <1>6
  <2>2. ~(i < high)
    BY <1>1, <1>4, <2>1
  <2>3. Below(S, high) \in SUBSET ((S \ {high}) \ {i}) /\ i \in S \ {high}
    BY <2>1, <2>2 DEF Below
  <2>4. IsFiniteSet(S \ {high}) /\ Cardinality(S \ {high}) = n - 1
    BY <1>4, FS_RemoveElement
  <2>5. IsFiniteSet((S \ {high}) \ {i}) /\ Cardinality((S \ {high}) \ {i}) = (n - 1) - 1
    BY <2>3, <2>4, FS_RemoveElement
  <2>6. Cardinality(Below(S, high)) <= (n - 1) - 1
    BY <2>3, <2>5, FS_Subset
  <2> HIDE DEF n
  <2> QED
    BY <1>1, <1>4, <2>6
<1>7. Min(S) \in S /\ \A i \in S : Min(S) <= i
  BY <1>3, <1>5 DEF Min
<1>8. Max(S) \in S /\ \A i \in S : Max(S) >= i
  <2>1. \A i \in S : high >= i
    BY <1>1, <1>4, <1>6
  <2> QED
    BY <1>4, <2>1 DEF Max
<1> QED
  BY <1>1, <1>7, <1>8

(***************************************************************************)
(* Induction over the parts of a string, with the set of the numbers for   *)
(* which a claim holds.                                                    *)
(***************************************************************************)
LEMMA PartByPart ==
    ASSUME NEW N \in Nat, NEW G, N >= 1 => 1 \in G,
           \A n \in 2..N : n - 1 \in G => n \in G
    PROVE  \A n \in 1..N : n \in G
<1> DEFINE Bad == {n \in 1..N : n \notin G}
<1> SUFFICES ASSUME Bad # {} PROVE FALSE
  OBVIOUS
<1> DEFINE B == {1..n : n \in Bad}
<1>1. B \subseteq SUBSET (1..N) /\ B # {} /\ IsFiniteSet(1..N)
  <2>1. IsFiniteSet(1..N)
    BY FS_Interval
  <2> QED
    BY <2>1
<1>2. PICK b \in B : \A c \in B : c \subseteq b => c = b
  <2> DEFINE I == 1..N
  <2> HIDE DEF B, I
  <2> SUFFICES B \subseteq SUBSET I /\ B # {} /\ IsFiniteSet(I)
    BY SmallestSubset
  <2> USE DEF I
  <2> QED
    BY <1>1
<1>3. PICK n \in Bad : b = 1..n
  BY <1>2
<1>4. n \in 1..N /\ n \notin G
  BY <1>3
<1>5. n \in 2..N
  BY <1>4
<1>6. n - 1 \in Bad
  BY <1>4, <1>5
<1>7. 1..(n - 1) \in B /\ 1..(n - 1) \subseteq 1..n
  BY <1>5, <1>6
<1>8. 1..(n - 1) = 1..n
  BY <1>2, <1>3, <1>7
<1>9. n \in 1..n /\ n \notin 1..(n - 1)
  BY <1>5
<1> QED
  BY <1>8, <1>9

(* w ends at i.                                                            *)
Occurs(s, w, i) ==
    i \in Len(w)..Len(s) /\ \A k \in 1..Len(w) : s[i - Len(w) + k] = w[k]

(***************************************************************************)
(* An occurrence, character by character.                                  *)
(***************************************************************************)
LEMMA FoundAt ==
    ASSUME NEW T, NEW s \in Seq(T), NEW w \in Seq(T), NEW i
    PROVE  i \in Found(s, w) <=> Occurs(s, w, i)
<1> SUFFICES ASSUME i \in Len(w)..Len(s)
             PROVE  SubSeq(s, i - Len(w) + 1, i) = w <=>
                        \A k \in 1..Len(w) : s[i - Len(w) + k] = w[k]
  BY DEF Found, Occurs
<1> DEFINE a == i - Len(w) + 1
<1> DEFINE t == SubSeq(s, a, i)
<1>1. Len(w) \in Nat /\ Len(s) \in Nat /\ a \in 1..(i + 1) /\ i \in Nat /\ i <= Len(s)
  OBVIOUS
<1>2. t \in Seq(T) /\ Len(t) = Len(w) /\ \A k \in 1..Len(w) : t[k] = s[i - Len(w) + k]
  <2>1. \A k \in a..i : s[k] \in T
    BY <1>1
  <2>2. /\ t \in Seq(T) /\ Len(t) = IF a <= i THEN i - a + 1 ELSE 0
        /\ \A k \in 1..(i - a + 1) : t[k] = s[a + k - 1]
    BY <1>1, <2>1, SubSeqProperties
  <2>3. i - a + 1 = Len(w) /\ \A k \in 1..Len(w) : a + k - 1 = i - Len(w) + k
    BY <1>1
  <2>4. Len(t) = Len(w)
    BY <1>1, <2>2, <2>3
  <2> HIDE DEF t
  <2> QED
    BY <2>2, <2>3, <2>4
<1> HIDE DEF t
<1>3. t = w <=> \A k \in 1..Len(w) : t[k] = w[k]
  BY <1>2, SeqEqual
<1>4. (\A k \in 1..Len(w) : t[k] = w[k]) <=> \A k \in 1..Len(w) : s[i - Len(w) + k] = w[k]
  BY <1>2
<1> QED
  BY <1>3, <1>4 DEF t

(***************************************************************************)
(* Occurrences lie within the string.                                      *)
(***************************************************************************)
LEMMA FoundType ==
    ASSUME NEW T, NEW s \in Seq(T), NEW w \in Seq(T), w # <<>>
    PROVE  /\ Found(s, w) \in SUBSET Nat /\ IsFiniteSet(Found(s, w))
           /\ \A i \in Found(s, w) : i >= Len(w) /\ i <= Len(s) /\ i >= 1
<1>1. Len(w) \in Nat /\ Len(w) >= 1 /\ Len(s) \in Nat
  OBVIOUS
<1>2. /\ Found(s, w) \in SUBSET Nat
      /\ \A i \in Found(s, w) : i >= Len(w) /\ i <= Len(s) /\ i >= 1
  BY <1>1 DEF Found
<1>3. IsFiniteSet(Found(s, w))
  <2> DEFINE F == Found(s, w)
  <2>1. F \in SUBSET Nat /\ \A i \in F : i <= Len(s)
    BY <1>2
  <2> HIDE DEF F
  <2>2. IsFiniteSet(F)
    BY <1>1, <2>1, FS_BoundedSetOfNaturals
  <2> QED
    BY <2>2 DEF F
<1> QED
  BY <1>2, <1>3

(* C are the occurrences, up to n, that a scan from the left meets.        *)
Scanned(F, L, C, n) ==
    \A i \in F : i <= n => (i \in C <=> ~\E j \in C : j < i /\ i < j + L)

(***************************************************************************)
(* There are such occurrences.                                             *)
(***************************************************************************)
LEMMA ScanExists ==
    ASSUME NEW N \in Nat, NEW F \in SUBSET (1..N), NEW L \in Nat
    PROVE  \E C \in SUBSET F : Scanned(F, L, C, N)
<1> DEFINE Sol(n) == {C \in SUBSET F : Scanned(F, L, C, n) /\ \A i \in C : i <= n}
<1> DEFINE G == {n \in 1..N : Sol(n) # {}}
<1>0. \A i \in F : i \in Nat /\ i >= 1 /\ i <= N
  OBVIOUS
<1>1. ASSUME NEW n \in 1..N, NEW C \in SUBSET F, Scanned(F, L, C, n - 1), \A i \in C : i <= n - 1
      PROVE  Sol(n) # {}
  <2> DEFINE free == n \in F /\ ~\E j \in C : j < n /\ n < j + L
  <2> DEFINE D == IF free THEN C \cup {n} ELSE C
  <2>1. D \in SUBSET F /\ \A i \in D : i <= n
    BY <1>0, <1>1
  <2>2. ASSUME NEW i \in F, i <= n
        PROVE  i \in D <=> ~\E j \in D : j < i /\ i < j + L
    <3>1. (\E j \in D : j < i /\ i < j + L) <=> (\E j \in C : j < i /\ i < j + L)
      <4>1. \A j \in D : j < i => j \in C
        BY <1>0, <2>2
      <4> QED
        BY <4>1
    <3>2. CASE i = n
      <4>1. n \notin C
        BY <1>0, <1>1
      <4>2. i \in D <=> free
        BY <3>2, <4>1
      <4> QED
        BY <3>1, <3>2, <4>2
    <3>3. CASE i # n
      <4>1. i <= n - 1 /\ (i \in D <=> i \in C)
        BY <1>0, <2>2, <3>3
      <4> QED
        BY <1>1, <3>1, <4>1 DEF Scanned
    <3> QED
      BY <3>2, <3>3
  <2> HIDE DEF D
  <2>3. Scanned(F, L, D, n)
    BY <2>2 DEF Scanned
  <2> QED
    BY <2>1, <2>3
<1>2. ASSUME N >= 1 PROVE 1 \in G
  <2>1. Scanned(F, L, {}, 1 - 1)
    BY <1>0 DEF Scanned
  <2>2. Sol(1) # {}
    <3> HIDE DEF Sol
    <3>1. 1 \in 1..N /\ {} \in SUBSET F /\ \A i \in {} : i <= 1 - 1
      BY <1>2
    <3> QED
      BY <1>1, <2>1, <3>1
  <2> QED
    BY <1>2, <2>2
<1>3. ASSUME NEW n \in 2..N, n - 1 \in G PROVE n \in G
  <2>1. PICK C \in SUBSET F : Scanned(F, L, C, n - 1) /\ \A i \in C : i <= n - 1
    BY <1>3
  <2>2. n \in 1..N
    OBVIOUS
  <2>3. Sol(n) # {}
    <3> HIDE DEF Sol
    <3> QED
      BY <1>1, <2>1, <2>2
  <2> QED
    BY <2>2, <2>3
<1>4. \A n \in 1..N : n \in G
  <2> HIDE DEF G
  <2> QED
    BY <1>2, <1>3, PartByPart
<1>5. CASE N = 0
  <2>1. F = {} /\ Scanned(F, L, {}, N)
    BY <1>0, <1>5 DEF Scanned
  <2> QED
    BY <2>1
<1>6. CASE N # 0
  <2>1. N \in G
    BY <1>4, <1>6
  <2> QED
    BY <2>1
<1> QED
  BY <1>5, <1>6

(***************************************************************************)
(* A scan meets the same occurrences every time.                           *)
(***************************************************************************)
LEMMA ScanUnique ==
    ASSUME NEW F \in SUBSET Nat, IsFiniteSet(F), NEW L \in Nat, NEW N \in Nat,
           \A i \in F : i <= N,
           NEW C \in SUBSET F, NEW D \in SUBSET F, Scanned(F, L, C, N), Scanned(F, L, D, N)
    PROVE  C = D
<1> DEFINE X == {i \in F : ~(i \in C <=> i \in D)}
<1> SUFFICES ASSUME X # {} PROVE FALSE
  OBVIOUS
<1>1. X \in SUBSET Nat /\ X \in SUBSET F
  OBVIOUS
<1>2. IsFiniteSet(X)
  BY <1>1, FS_Subset
<1> DEFINE m == Min(X)
<1>3. m \in X /\ \A i \in X : m <= i
  <2> HIDE DEF X
  <2> QED
    BY <1>1, <1>2, MinMax
<1> HIDE DEF m
<1>4. m \in F /\ m \in Nat /\ m <= N
  BY <1>3
<1>5. \A j \in F : j < m => (j \in C <=> j \in D)
  <2>1. \A j \in F : j \in Nat
    OBVIOUS
  <2>2. \A j \in F : j < m => j \notin X
    BY <1>3, <1>4, <2>1
  <2> QED
    BY <2>2
<1>6. (\E j \in C : j < m /\ m < j + L) <=> (\E j \in D : j < m /\ m < j + L)
  BY <1>5
<1>7. m \in C <=> m \in D
  BY <1>4, <1>6 DEF Scanned
<1> QED
  BY <1>3, <1>7

(***************************************************************************)
(* Cuts is what such a scan meets, and nothing else is.                    *)
(***************************************************************************)
LEMMA CutsIs ==
    ASSUME NEW T, NEW s \in Seq(T), NEW sep \in Seq(T), sep # <<>>
    PROVE  /\ Cuts(s, sep) \in SUBSET Found(s, sep)
           /\ Scanned(Found(s, sep), Len(sep), Cuts(s, sep), Len(s))
           /\ \A C \in SUBSET Found(s, sep) :
                 Scanned(Found(s, sep), Len(sep), C, Len(s)) => C = Cuts(s, sep)
<1> DEFINE F == Found(s, sep)
<1> DEFINE L == Len(sep)
<1> DEFINE N == Len(s)
<1> DEFINE K == Cuts(s, sep)
<1>1. /\ F \in SUBSET Nat /\ IsFiniteSet(F) /\ L \in Nat /\ N \in Nat
      /\ \A i \in F : i <= N /\ i >= 1
  BY FoundType
<1>2. K = CHOOSE C \in SUBSET F : \A i \in F : i \in C <=> ~\E j \in C : j < i /\ i < j + L
  BY DEF Cuts
<1> HIDE DEF F, L, N, K
<1>3. \A C \in SUBSET F :
         Scanned(F, L, C, N) <=> \A i \in F : i \in C <=> ~\E j \in C : j < i /\ i < j + L
  BY <1>1 DEF Scanned
<1>4. \E C \in SUBSET F : Scanned(F, L, C, N)
  <2>1. F \in SUBSET (1..N)
    BY <1>1
  <2> QED
    BY <1>1, <2>1, ScanExists
<1>5. K \in SUBSET F /\ \A i \in F : i \in K <=> ~\E j \in K : j < i /\ i < j + L
  <2> DEFINE Q(C) == \A i \in F : i \in C <=> ~\E j \in C : j < i /\ i < j + L
  <2>1. \E C \in SUBSET F : Q(C)
    BY <1>3, <1>4
  <2>2. K = CHOOSE C \in SUBSET F : Q(C)
    BY <1>2
  <2> HIDE DEF Q
  <2>3. K \in SUBSET F /\ Q(K)
    BY <2>1, <2>2
  <2> QED
    BY <2>3 DEF Q
<1>6. Scanned(F, L, K, N)
  BY <1>3, <1>5
<1>7. \A C \in SUBSET F : Scanned(F, L, C, N) => C = K
  BY <1>1, <1>5, <1>6, ScanUnique
<1> QED
  BY <1>5, <1>6, <1>7 DEF F, L, N, K

(***************************************************************************)
(* The ends of a string: a finite set of numbers, with the two outer ones. *)
(***************************************************************************)
LEMMA EndsType ==
    ASSUME NEW T, NEW s \in Seq(T), NEW sep \in Seq(T), sep # <<>>
    PROVE  /\ Ends(s, sep) \in SUBSET Nat /\ IsFiniteSet(Ends(s, sep))
           /\ Cardinality(Ends(s, sep)) \in Nat /\ Cardinality(Ends(s, sep)) >= 2
           /\ 0 \in Ends(s, sep) /\ Len(s) + Len(sep) \in Ends(s, sep)
           /\ \A i \in Ends(s, sep) : i <= Len(s) + Len(sep)
<1> DEFINE E == Ends(s, sep)
<1> DEFINE x == Len(s) + Len(sep)
<1>0. x \in Nat /\ x # 0 /\ Len(s) <= x
  OBVIOUS
<1>1. E \in SUBSET Nat /\ 0 \in E /\ x \in E /\ \A i \in E : i <= x
  <2>1. Cuts(s, sep) \in SUBSET Found(s, sep)
    BY CutsIs
  <2>2. Found(s, sep) \in SUBSET Nat /\ \A i \in Found(s, sep) : i <= Len(s)
    BY FoundType
  <2>3. E = {0, x} \cup Cuts(s, sep)
    BY DEF Ends
  <2>4. Len(s) \in Nat
    OBVIOUS
  <2> HIDE DEF E, x
  <2> QED
    BY <1>0, <2>1, <2>2, <2>3, <2>4
<1> HIDE DEF E, x
<1>2. IsFiniteSet(E)
  BY <1>0, <1>1, FS_BoundedSetOfNaturals
<1>3. Cardinality(E) \in Nat
  BY <1>2, FS_CardinalityType
<1>4. Cardinality(E) >= 2
  <2> DEFINE Z == {0}
  <2>1. IsFiniteSet(Z) /\ Cardinality(Z) = 1 /\ x \notin Z /\ Z \cup {x} \in SUBSET E
    BY <1>0, <1>1, FS_Singleton
  <2> HIDE DEF Z
  <2>2. Cardinality(Z \cup {x}) = Cardinality(Z) + 1
    BY <2>1, FS_AddElement
  <2>3. Cardinality(Z \cup {x}) <= Cardinality(E)
    BY <1>2, <2>1, FS_Subset
  <2>4. Cardinality(Z) + 1 = 2
    BY <2>1
  <2> QED
    BY <1>3, <2>2, <2>3, <2>4
<1> QED
  BY <1>1, <1>2, <1>3, <1>4 DEF E, x

(***************************************************************************)
(* A string without the separator is one piece.                            *)
(***************************************************************************)
LEMMA SplitFree ==
    ASSUME NEW T, NEW sep \in Seq(T), sep # <<>>, NEW p \in Seq(T), Found(p, sep) = {}
    PROVE  Split(p, sep) = <<p>>
<1> DEFINE E == Ends(p, sep)
<1> DEFINE x == Len(p) + Len(sep)
<1>0. x \in Nat /\ x # 0 /\ Len(p) \in Nat /\ Len(sep) \in Nat /\ x - Len(sep) = Len(p)
  OBVIOUS
<1>1. E = {0, x}
  <2>1. Cuts(p, sep) \in SUBSET Found(p, sep)
    BY CutsIs
  <2> QED
    BY <2>1 DEF Ends
<1> HIDE DEF x
<1>2. Cardinality(E) = 2 /\ IsFiniteSet(E)
  <2>1. IsFiniteSet({0}) /\ Cardinality({0}) = 1
    BY FS_Singleton
  <2>2. x \notin {0}
    BY <1>0
  <2> HIDE DEF E
  <2>3. {0} \cup {x} = E
    BY <1>1
  <2>4. IsFiniteSet({0} \cup {x}) /\ Cardinality({0} \cup {x}) = Cardinality({0}) + 1
    BY <2>1, <2>2, FS_AddElement
  <2>5. Cardinality({0} \cup {x}) = 2
    <3> DEFINE c == Cardinality({0})
    <3> DEFINE d == Cardinality({0} \cup {x})
    <3>1. c = 1 /\ d = c + 1
      BY <2>1, <2>4, Zenon
    <3> HIDE DEF c, d
    <3>2. d = 2
      BY <3>1
    <3> QED
      BY <3>2 DEF d
  <2> QED
    BY <2>3, <2>4, <2>5, Zenon
<1> HIDE DEF E
<1>3. Nth(E, 1) = 0
  <2>1. Below(E, 0) = {} /\ E \in SUBSET Nat /\ 0 \in E
    BY <1>0, <1>1 DEF Below
  <2>2. Cardinality(Below(E, 0)) = 0
    BY <2>1, FS_EmptySet
  <2>3. Cardinality(Below(E, 0)) = 1 - 1 /\ 1 \in Int
    BY <2>2
  <2> QED
    BY <1>2, <2>1, <2>3, NthIs
<1>4. Nth(E, 2) = x
  <2>1. Below(E, x) = {0} /\ E \in SUBSET Nat /\ x \in E
    BY <1>0, <1>1 DEF Below
  <2>2. Cardinality(Below(E, x)) = 1
    BY <2>1, FS_Singleton
  <2>3. Cardinality(Below(E, x)) = 2 - 1 /\ 2 \in Int
    BY <2>2
  <2> QED
    BY <1>2, <2>1, <2>3, NthIs
<1>5. Split(p, sep) = [k \in 1..1 |-> SubSeq(p, Nth(E, k) + 1, Nth(E, k + 1) - Len(sep))]
  BY <1>2 DEF Split, E
<1>6. SubSeq(p, 0 + 1, x - Len(sep)) = p
  <2>1. SubSeq(p, 1, Len(p)) = p
    BY SubSeqFull
  <2> QED
    BY <1>0, <2>1
<1>7. Split(p, sep) = [k \in 1..1 |-> p]
  BY <1>3, <1>4, <1>5, <1>6
<1> QED
  BY <1>7

(* A separator and a piece put after a string, the two with something      *)
(* between them, and parts with something before all but the first.        *)
After(s, sep, p) == s \o sep \o p
Glue(a, b) == a \o b
AfterPre(s, sep, pre, p) == s \o Glue(sep, pre) \o p
Led(pre, parts) ==
    [k \in 1..Len(parts) |-> IF k = 1 THEN parts[1] ELSE Glue(pre, parts[k])]

(***************************************************************************)
(* The longer string, character by character.                              *)
(***************************************************************************)
LEMMA AfterTokens ==
    ASSUME NEW T, NEW sep \in Seq(T), NEW s \in Seq(T), NEW p \in Seq(T)
    PROVE  /\ After(s, sep, p) \in Seq(T)
           /\ Len(After(s, sep, p)) = Len(s) + Len(sep) + Len(p)
           /\ \A i \in 1..Len(s) : After(s, sep, p)[i] = s[i]
           /\ \A i \in 1..Len(sep) : After(s, sep, p)[Len(s) + i] = sep[i]
           /\ \A i \in 1..Len(p) : After(s, sep, p)[Len(s) + Len(sep) + i] = p[i]
<1> DEFINE t == s \o sep
<1>1. /\ t \in Seq(T) /\ Len(t) = Len(s) + Len(sep)
      /\ \A i \in 1..Len(s) : t[i] = s[i]
      /\ \A i \in 1..Len(sep) : t[Len(s) + i] = sep[i]
  OBVIOUS
<1>2. After(s, sep, p) = t \o p
  BY DEF After
<1> HIDE DEF t
<1>3. /\ t \o p \in Seq(T) /\ Len(t \o p) = Len(t) + Len(p)
      /\ \A i \in 1..Len(t) : (t \o p)[i] = t[i]
      /\ \A i \in 1..Len(p) : (t \o p)[Len(t) + i] = p[i]
  <2>1. t \in Seq(T)
    BY <1>1
  <2> QED
    BY <2>1
<1> DEFINE e == t \o p
<1>4. Len(s) \in Nat /\ Len(sep) \in Nat /\ Len(p) \in Nat
  OBVIOUS
<1>5. /\ e \in Seq(T) /\ Len(e) = Len(s) + Len(sep) + Len(p)
      /\ \A i \in 1..Len(p) : e[Len(s) + Len(sep) + i] = p[i]
  BY <1>1, <1>3
<1> HIDE DEF e
<1>6. \A i \in 1..Len(t) : e[i] = t[i]
  BY <1>3 DEF e
<1>7. \A i \in 1..Len(s) : i \in 1..Len(t)
  BY <1>1, <1>4
<1>8. \A i \in 1..Len(sep) : Len(s) + i \in 1..Len(t)
  BY <1>1, <1>4
<1>9. /\ \A i \in 1..Len(s) : e[i] = s[i]
      /\ \A i \in 1..Len(sep) : e[Len(s) + i] = sep[i]
  BY <1>1, <1>6, <1>7, <1>8
<1> QED
  BY <1>2, <1>5, <1>9 DEF e

(* No separator begins in s and ends in a separator put after it.          *)
Clean(s, sep) ==
    \A x \in 1..(Len(sep) - 1) :
        \E k \in 1..Len(sep) :
            \/ x - Len(sep) + k + Len(s) < 1
            \/ x - Len(sep) + k <= 0 /\ s[Len(s) + (x - Len(sep) + k)] # sep[k]
            \/ x - Len(sep) + k > 0 /\ sep[x - Len(sep) + k] # sep[k]

(***************************************************************************)
(* Where the separator is found in the longer string: where it was, where  *)
(* it was put, or across its end.                                          *)
(***************************************************************************)
LEMMA FoundAfter ==
    ASSUME NEW T, NEW sep \in Seq(T), sep # <<>>, NEW s \in Seq(T), Clean(s, sep),
           NEW p \in Seq(T), Found(p, sep) = {}
    PROVE  LET F == Found(After(s, sep, p), sep)
               x == Len(s) + Len(sep)
           IN  /\ x \in F /\ Found(s, sep) \in SUBSET F
               /\ \A i \in F : \/ i \in Found(s, sep)
                               \/ i = x
                               \/ x < i /\ i < x + Len(sep)
<1> DEFINE e == After(s, sep, p)
<1> DEFINE L == Len(sep)
<1> DEFINE n == Len(s)
<1> DEFINE x == n + L
<1>1. /\ e \in Seq(T) /\ Len(e) = n + L + Len(p)
      /\ \A i \in 1..n : e[i] = s[i]
      /\ \A i \in 1..L : e[n + i] = sep[i]
      /\ \A i \in 1..Len(p) : e[n + L + i] = p[i]
  <2>1. e \in Seq(T) /\ Len(e) = n + L + Len(p)
    BY AfterTokens
  <2>2. \A i \in 1..n : e[i] = s[i]
    BY AfterTokens
  <2>3. \A i \in 1..L : e[n + i] = sep[i]
    BY AfterTokens
  <2>4. \A i \in 1..Len(p) : e[n + L + i] = p[i]
    BY AfterTokens
  <2> QED
    BY <2>1, <2>2, <2>3, <2>4
<1>2. n \in Nat /\ L \in Nat /\ L >= 1 /\ Len(p) \in Nat
  OBVIOUS
<1> HIDE DEF e
<1>3. x \in Found(e, sep)
  <2>1. x \in L..Len(e)
    BY <1>1, <1>2
  <2>2. \A k \in 1..L : x - L + k = n + k
    BY <1>2
  <2>3. \A k \in 1..L : e[x - L + k] = sep[k]
    BY <1>1, <2>2
  <2> QED
    BY <1>1, <2>1, <2>3, FoundAt DEF Occurs
<1>4. ASSUME NEW i \in Nat, i <= n PROVE i \in Found(e, sep) <=> i \in Found(s, sep)
  <2>1. i \in L..Len(e) <=> i \in L..n
    BY <1>1, <1>2, <1>4
  <2>2. ASSUME i \in L..n, NEW k \in 1..L PROVE e[i - L + k] = s[i - L + k]
    <3>1. i - L + k \in 1..n
      BY <1>2, <2>2
    <3> QED
      BY <1>1, <3>1
  <2>3. i \in Found(s, sep) <=> i \in L..n /\ \A k \in 1..L : s[i - L + k] = sep[k]
    <3>1. i \in Found(s, sep) <=> Occurs(s, sep, i)
      BY FoundAt
    <3> QED
      BY <3>1 DEF Occurs
  <2>4. i \in Found(e, sep) <=> i \in L..Len(e) /\ \A k \in 1..L : e[i - L + k] = sep[k]
    <3>1. i \in Found(e, sep) <=> Occurs(e, sep, i)
      BY <1>1, FoundAt
    <3> QED
      BY <3>1 DEF Occurs
  <2> QED
    BY <2>1, <2>2, <2>3, <2>4
<1>5. Found(s, sep) \in SUBSET Found(e, sep)
  <2>1. \A i \in Found(s, sep) : i \in Nat /\ i <= n
    BY FoundType
  <2> QED
    BY <1>4, <2>1
<1>6. ASSUME NEW i \in Found(e, sep)
      PROVE  i \in Found(s, sep) \/ i = x \/ (x < i /\ i < x + L)
  <2>1. i \in L..Len(e) /\ \A k \in 1..L : e[i - L + k] = sep[k]
    BY <1>1, FoundAt DEF Occurs
  <2>2. i \in Nat
    BY <1>1, <1>2, <2>1
  <2>3. CASE i <= n
    BY <1>4, <2>2, <2>3
  <2>4. CASE i > n /\ i < x
    <3> DEFINE y == i - n
    <3>1. y \in 1..(L - 1)
      BY <1>2, <2>2, <2>4
    <3>2. PICK k \in 1..L :
              \/ y - L + k + n < 1
              \/ y - L + k <= 0 /\ s[n + (y - L + k)] # sep[k]
              \/ y - L + k > 0 /\ sep[y - L + k] # sep[k]
      BY <3>1 DEF Clean
    <3>3. e[i - L + k] = sep[k]
      BY <2>1
    <3>4. i - L + k = n + (y - L + k) /\ i - L + k >= 1 /\ k \in Int /\ y \in Int
      BY <1>2, <2>1, <2>2, <3>1
    <3> HIDE DEF y
    <3>5. CASE y - L + k <= 0
      <4>1. n + (y - L + k) \in 1..n
        BY <1>2, <3>4, <3>5
      <4>2. e[i - L + k] = s[n + (y - L + k)]
        BY <1>1, <3>4, <4>1
      <4> QED
        BY <1>2, <3>2, <3>3, <3>4, <3>5, <4>1, <4>2
    <3>6. CASE y - L + k > 0
      <4>1. y - L + k \in 1..L
        BY <1>2, <3>1, <3>4, <3>6
      <4>2. e[i - L + k] = sep[y - L + k]
        BY <1>1, <3>4, <4>1
      <4>3. ~(y - L + k + n < 1) /\ ~(y - L + k <= 0)
        BY <1>2, <3>4, <3>6
      <4> QED
        BY <3>2, <3>3, <4>2, <4>3
    <3> QED
      BY <1>2, <3>4, <3>5, <3>6
  <2>5. CASE i >= x + L
    <3> DEFINE y == i - x
    <3>1. y \in L..Len(p)
      BY <1>1, <1>2, <2>1, <2>2, <2>5
    <3>2. ASSUME NEW k \in 1..L PROVE p[y - L + k] = sep[k]
      <4>1. y - L + k \in 1..Len(p) /\ n + L + (y - L + k) = i - L + k
        BY <1>2, <2>2, <3>1
      <4> QED
        BY <1>1, <2>1, <4>1
    <3>3. y \in Found(p, sep)
      <4> HIDE DEF y
      <4> QED
        BY <3>1, <3>2, FoundAt DEF Occurs
    <3> QED
      BY <3>3
  <2> QED
    BY <1>2, <2>2, <2>3, <2>4, <2>5
<1> QED
  BY <1>3, <1>5, <1>6 DEF e

(***************************************************************************)
(* The longer string has one end more.                                     *)
(***************************************************************************)
LEMMA EndsAppend ==
    ASSUME NEW T, NEW sep \in Seq(T), sep # <<>>, NEW s \in Seq(T), Clean(s, sep),
           NEW p \in Seq(T), Found(p, sep) = {}
    PROVE  Ends(After(s, sep, p), sep) = Ends(s, sep) \cup {Len(After(s, sep, p)) + Len(sep)}
<1> DEFINE e == After(s, sep, p)
<1> DEFINE L == Len(sep)
<1> DEFINE n == Len(s)
<1> DEFINE x == n + L
<1> DEFINE F == Found(s, sep)
<1> DEFINE H == Found(e, sep)
<1> DEFINE C == Cuts(s, sep)
<1>1. e \in Seq(T) /\ Len(e) = n + L + Len(p)
  BY AfterTokens
<1>2. n \in Nat /\ L \in Nat /\ L >= 1 /\ Len(p) \in Nat /\ x \in Nat
  OBVIOUS
<1>3. /\ x \in H /\ F \in SUBSET H
      /\ \A i \in H : i \in F \/ i = x \/ (x < i /\ i < x + L)
  BY FoundAfter
<1> HIDE DEF e
<1>4. F \in SUBSET Nat /\ \A i \in F : i >= 1 /\ i <= n
  BY FoundType
<1>5. H \in SUBSET Nat /\ \A i \in H : i <= Len(e)
  BY <1>1, FoundType
<1>6. C \in SUBSET F /\ Scanned(F, L, C, n)
  BY CutsIs
<1> HIDE DEF F, H, C
<1> DEFINE D == C \cup {x}
<1>7. D \in SUBSET H
  BY <1>3, <1>6
<1>8. \A j \in C : j \in Nat /\ j <= n
  BY <1>4, <1>6
<1>9. ASSUME NEW i \in H PROVE i \in D <=> ~\E j \in D : j < i /\ i < j + L
  <2>1. i \in Nat
    BY <1>5
  <2>2. CASE i \in F
    <3>1. i <= n /\ ~(x < i) /\ i # x
      BY <1>2, <1>4, <2>1, <2>2
    <3>2. i \in C <=> ~\E j \in C : j < i /\ i < j + L
      BY <1>6, <2>2, <3>1 DEF Scanned
    <3> QED
      BY <3>1, <3>2
  <2>3. CASE i = x
    <3>1. \A j \in C : ~(x < j + L)
      BY <1>2, <1>8
    <3>2. ~(x < x)
      BY <1>2
    <3> QED
      BY <2>3, <3>1, <3>2
  <2>4. CASE x < i /\ i < x + L
    <3>1. i \notin C /\ i # x
      BY <1>2, <1>8, <2>1, <2>4
    <3> QED
      BY <2>4, <3>1
  <2> QED
    BY <1>3, <2>2, <2>3, <2>4
<1> HIDE DEF D
<1>10. D = Cuts(e, sep)
  <2>1. Scanned(H, L, D, Len(e))
    BY <1>9 DEF Scanned
  <2>2. \A K \in SUBSET H : Scanned(H, L, K, Len(e)) => K = Cuts(e, sep)
    BY <1>1, CutsIs DEF H
  <2> QED
    BY <1>7, <2>1, <2>2
<1>11. Ends(e, sep) = {0, Len(e) + L} \cup D
  BY <1>10 DEF Ends
<1>12. Ends(s, sep) = {0, x} \cup C
  BY DEF Ends, C
<1> QED
  BY <1>11, <1>12 DEF D, e

(***************************************************************************)
(* The ends of the pieces: the first and the last, and where they lie.     *)
(***************************************************************************)
LEMMA EndsOrdered ==
    ASSUME NEW T, NEW s \in Seq(T), NEW sep \in Seq(T), sep # <<>>
    PROVE  LET E == Ends(s, sep)
               n == Cardinality(E)
           IN  /\ \A k \in 1..n : Nth(E, k) \in 0..(Len(s) + Len(sep))
               /\ Nth(E, n) = Len(s) + Len(sep)
<1> DEFINE E == Ends(s, sep)
<1> DEFINE n == Cardinality(E)
<1> DEFINE x == Len(s) + Len(sep)
<1>1. /\ E \in SUBSET Nat /\ IsFiniteSet(E) /\ n \in Nat /\ n >= 2
      /\ 0 \in E /\ x \in E /\ \A i \in E : i <= x
  BY EndsType
<1>2. x \in Nat /\ \A i \in E : i \in Nat
  BY <1>1
<1>3. ASSUME NEW k \in 1..n PROVE Nth(E, k) \in 0..(Len(s) + Len(sep))
  <2>1. Nth(E, k) \in E
    <3> HIDE DEF E
    <3> QED
      BY <1>1, NthExists
  <2>2. Nth(E, k) \in Nat /\ Nth(E, k) <= x
    BY <1>1, <1>2, <2>1
  <2> HIDE DEF E
  <2> QED
    BY <1>2, <2>2
<1>4. Nth(E, n) = x
  <2> HIDE DEF E, x
  <2>1. Below(E, x) = E \ {x}
    <3>1. \A i \in E : i < x <=> i # x
      BY <1>1, <1>2
    <3> QED
      BY <3>1 DEF Below
  <2>2. Cardinality(E \ {x}) = n - 1
    BY <1>1, FS_RemoveElement
  <2>3. Cardinality(Below(E, x)) = n - 1 /\ n \in Int
    BY <1>1, <2>1, <2>2
  <2> HIDE DEF n
  <2> QED
    BY <1>1, <2>3, NthIs
<1> QED
  BY <1>3, <1>4

(***************************************************************************)
(* Split returns a non-empty sequence of strings.                          *)
(***************************************************************************)
LEMMA SplitType ==
    ASSUME NEW T, NEW s \in Seq(T), NEW sep \in Seq(T), sep # <<>>
    PROVE  /\ Split(s, sep) \in Seq(Seq(T)) /\ Len(Split(s, sep)) \in Nat \ {0}
           /\ Len(Split(s, sep)) = Cardinality(Ends(s, sep)) - 1
<1> DEFINE E == Ends(s, sep)
<1> DEFINE n == Cardinality(E)
<1> DEFINE L == Len(sep)
<1> DEFINE piece(k) == SubSeq(s, Nth(E, k) + 1, Nth(E, k + 1) - L)
<1>1. n \in Nat /\ n >= 2 /\ \A k \in 1..n : Nth(E, k) \in 0..(Len(s) + L)
  BY EndsType, EndsOrdered
<1>2. Split(s, sep) = [k \in 1..(n - 1) |-> piece(k)]
  BY DEF Split
<1>0. L \in Nat
  OBVIOUS
<1> HIDE DEF E, n, L
<1>3. ASSUME NEW k \in 1..(n - 1) PROVE piece(k) \in Seq(T)
  <2> DEFINE a == Nth(E, k) + 1
  <2> DEFINE b == Nth(E, k + 1) - L
  <2>1. Nth(E, k) \in 0..(Len(s) + L) /\ Nth(E, k + 1) \in 0..(Len(s) + L)
    BY <1>1
  <2>2. a \in Int /\ b \in Int /\ a >= 1 /\ b <= Len(s)
    BY <1>0, <2>1
  <2> HIDE DEF a, b
  <2>3. \A i \in a..b : s[i] \in T
    BY <2>2
  <2>4. SubSeq(s, a, b) \in Seq(T)
    BY <2>2, <2>3, SubSeqProperties
  <2> QED
    BY <2>4 DEF a, b
<1>4. [k \in 1..(n - 1) |-> piece(k)] \in Seq(Seq(T))
  <2> HIDE DEF piece
  <2> QED
    BY <1>1, <1>3
<1>5. Len([k \in 1..(n - 1) |-> piece(k)]) = n - 1
  BY <1>1
<1> QED
  BY <1>1, <1>2, <1>4, <1>5 DEF E, n

(***************************************************************************)
(* A part of a string is a part of every string that begins with it.       *)
(***************************************************************************)
LEMMA SubSeqOfPrefix ==
    ASSUME NEW T, NEW s \in Seq(T), NEW e \in Seq(T), Len(s) <= Len(e),
           \A i \in 1..Len(s) : e[i] = s[i],
           NEW a \in Nat, a >= 1, NEW b \in Int, b <= Len(s)
    PROVE  SubSeq(e, a, b) = SubSeq(s, a, b)
<1>1. ASSUME NEW i \in a..b PROVE e[i] = s[i] /\ s[i] \in T
  BY <1>1
<1>2. /\ SubSeq(e, a, b) \in Seq(T)
      /\ Len(SubSeq(e, a, b)) = IF a <= b THEN b - a + 1 ELSE 0
      /\ \A i \in 1..(b - a + 1) : SubSeq(e, a, b)[i] = e[a + i - 1]
  <2>1. \A i \in a..b : e[i] \in T
    BY <1>1
  <2> QED
    BY <2>1, SubSeqProperties
<1>3. /\ SubSeq(s, a, b) \in Seq(T)
      /\ Len(SubSeq(s, a, b)) = IF a <= b THEN b - a + 1 ELSE 0
      /\ \A i \in 1..(b - a + 1) : SubSeq(s, a, b)[i] = s[a + i - 1]
  <2>1. \A i \in a..b : s[i] \in T
    BY <1>1
  <2> QED
    BY <2>1, SubSeqProperties
<1>4. ASSUME NEW i \in 1..Len(SubSeq(e, a, b)) PROVE SubSeq(e, a, b)[i] = SubSeq(s, a, b)[i]
  <2>1. i \in 1..(b - a + 1) /\ a + i - 1 \in a..b
    BY <1>2
  <2> QED
    BY <1>1, <1>2, <1>3, <2>1
<1> QED
  BY <1>2, <1>3, <1>4, SeqEqual

(***************************************************************************)
(* A separator and a piece without it, put after a clean string, add this  *)
(* piece to what the string is split into.                                 *)
(***************************************************************************)
LEMMA SplitAppend ==
    ASSUME NEW T, NEW sep \in Seq(T), sep # <<>>, NEW s \in Seq(T), Clean(s, sep),
           NEW p \in Seq(T), Found(p, sep) = {}
    PROVE  Split(After(s, sep, p), sep) = Append(Split(s, sep), p)
<1> DEFINE e == After(s, sep, p)
<1> DEFINE E == Ends(s, sep)
<1> DEFINE F == Ends(e, sep)
<1> DEFINE n == Cardinality(E)
<1> DEFINE L == Len(sep)
<1> DEFINE x == Len(e) + L
<1>1. Len(p) \in Nat /\ Len(s) \in Nat /\ L \in Nat /\ L >= 1
  OBVIOUS
<1>2. /\ e \in Seq(T) /\ Len(e) = Len(s) + L + Len(p)
      /\ \A i \in 1..Len(s) : e[i] = s[i]
      /\ \A i \in 1..Len(p) : e[Len(s) + L + i] = p[i]
  <2>1. e \in Seq(T) /\ Len(e) = Len(s) + L + Len(p)
    BY AfterTokens
  <2>2. \A i \in 1..Len(s) : e[i] = s[i]
    BY AfterTokens
  <2>3. \A i \in 1..Len(p) : e[Len(s) + L + i] = p[i]
    BY AfterTokens
  <2> QED
    BY <2>1, <2>2, <2>3
<1>3. F = E \cup {x}
  BY EndsAppend
<1> HIDE DEF e
<1>4. /\ E \in SUBSET Nat /\ IsFiniteSet(E) /\ n \in Nat /\ n >= 2
      /\ \A i \in E : i <= Len(s) + L
  BY EndsType
<1>5. /\ \A k \in 1..n : Nth(E, k) \in 0..(Len(s) + L)
      /\ Nth(E, n) = Len(s) + L
  BY EndsOrdered
<1>6. F \in SUBSET Nat /\ IsFiniteSet(F)
  BY <1>2, EndsType
<1> HIDE DEF L
<1>7. /\ \A i \in E : i \in Nat /\ i < x
      /\ x \in Nat /\ x \notin E
  <2> HIDE DEF E
  <2> QED
    BY <1>1, <1>2, <1>4
<1> HIDE DEF E, F, x
<1>8. Cardinality(F) = n + 1
  <2>1. Cardinality(E \cup {x}) = n + 1
    BY <1>4, <1>7, FS_AddElement
  <2> QED
    BY <1>3, <2>1, Zenon
<1>9. Nth(F, n + 1) = x
  <2>1. Below(F, x) = E
    BY <1>3, <1>7 DEF Below
  <2>2. Cardinality(Below(F, x)) = n
    BY <2>1, Zenon
  <2>3. Cardinality(Below(F, x)) = (n + 1) - 1 /\ n + 1 \in Int /\ x \in F
    BY <1>3, <1>4, <2>2
  <2> HIDE DEF n
  <2> QED
    BY <1>6, <2>3, NthIs
<1>10. ASSUME NEW k \in 1..n PROVE Nth(F, k) = Nth(E, k)
  <2> DEFINE i == Nth(E, k)
  <2>1. i \in E /\ Cardinality(Below(E, i)) = k - 1
    BY <1>4, NthExists
  <2> HIDE DEF i
  <2>2. Below(F, i) = Below(E, i)
    <3>1. ~(x < i)
      BY <1>7, <2>1
    <3> QED
      BY <1>3, <3>1 DEF Below
  <2>3. Cardinality(Below(F, i)) = k - 1
    BY <2>1, <2>2, Zenon
  <2>4. i \in F /\ k \in Int
    BY <1>3, <2>1
  <2>5. Nth(F, k) = i
    BY <1>6, <2>3, <2>4, NthIs
  <2> QED
    BY <2>5 DEF i
<1>11. ASSUME NEW k \in 1..(n - 1)
       PROVE  SubSeq(e, Nth(F, k) + 1, Nth(F, k + 1) - L)
                  = SubSeq(s, Nth(E, k) + 1, Nth(E, k + 1) - L)
  <2> DEFINE a == Nth(E, k) + 1
  <2> DEFINE b == Nth(E, k + 1) - L
  <2>1. Nth(F, k) = Nth(E, k) /\ Nth(F, k + 1) = Nth(E, k + 1)
    BY <1>4, <1>10
  <2>2. a \in Nat /\ a >= 1 /\ b \in Int /\ b <= Len(s)
    <3>1. Nth(E, k) \in 0..(Len(s) + L) /\ Nth(E, k + 1) \in 0..(Len(s) + L)
      BY <1>4, <1>5
    <3> QED
      BY <1>1, <3>1
  <2> HIDE DEF a, b
  <2>3. SubSeq(e, a, b) = SubSeq(s, a, b)
    <3>1. Len(s) <= Len(e)
      BY <1>1, <1>2
    <3> QED
      BY <1>2, <2>2, <3>1, SubSeqOfPrefix
  <2> QED
    BY <2>1, <2>3 DEF a, b
<1>12. SubSeq(e, Nth(F, n) + 1, Nth(F, n + 1) - L) = p
  <2> DEFINE a == Len(s) + L + 1
  <2> DEFINE t == SubSeq(e, a, Len(e))
  <2>1. Nth(F, n) + 1 = a /\ Nth(F, n + 1) - L = Len(e)
    BY <1>1, <1>2, <1>4, <1>5, <1>9, <1>10 DEF x
  <2>2. a \in Nat /\ a >= 1 /\ Len(e) - a + 1 = Len(p) /\ Len(e) \in Nat
    BY <1>1, <1>2
  <2>3. /\ t \in Seq(T) /\ Len(t) = Len(p)
        /\ \A i \in 1..Len(p) : t[i] = e[a + i - 1]
    <3>1. \A i \in a..Len(e) : e[i] \in T
      BY <1>2, <2>2
    <3>2. /\ t \in Seq(T) /\ Len(t) = IF a <= Len(e) THEN Len(e) - a + 1 ELSE 0
          /\ \A i \in 1..(Len(e) - a + 1) : t[i] = e[a + i - 1]
      <4> HIDE DEF a
      <4> QED
        BY <2>2, <3>1, SubSeqProperties
    <3> HIDE DEF a, t
    <3> QED
      BY <1>1, <2>2, <3>2
  <2> HIDE DEF t
  <2>4. \A i \in 1..Len(p) : t[i] = p[i]
    <3>1. \A i \in 1..Len(p) : a + i - 1 = Len(s) + L + i
      BY <1>1
    <3> QED
      BY <1>2, <2>3, <3>1
  <2>5. t = p
    BY <2>3, <2>4, SeqEqual
  <2> QED
    BY <2>1, <2>5 DEF t
<1>13. Split(e, sep) = [k \in 1..n |-> SubSeq(e, Nth(F, k) + 1, Nth(F, k + 1) - L)]
  <2>1. (n + 1) - 1 = n
    BY <1>4
  <2>2. Split(e, sep) = [k \in 1..((n + 1) - 1) |-> SubSeq(e, Nth(F, k) + 1, Nth(F, k + 1) - L)]
    BY <1>8 DEF Split, F, L
  <2> QED
    BY <2>1, <2>2
<1>14. Split(s, sep) = [k \in 1..(n - 1) |-> SubSeq(s, Nth(E, k) + 1, Nth(E, k + 1) - L)]
  BY DEF Split, E, L
<1>15. /\ Split(s, sep) \in Seq(Seq(T)) /\ Len(Split(s, sep)) = n - 1
       /\ Split(e, sep) \in Seq(Seq(T)) /\ Len(Split(e, sep)) = n
  <2>1. Split(s, sep) \in Seq(Seq(T)) /\ Len(Split(s, sep)) = n - 1
    BY SplitType DEF E
  <2>2. Split(e, sep) \in Seq(Seq(T)) /\ Len(Split(e, sep)) = (n + 1) - 1
    BY <1>2, <1>8, SplitType DEF F
  <2> QED
    BY <1>4, <2>1, <2>2
<1> DEFINE A == Split(s, sep)
<1> DEFINE B == Split(e, sep)
<1>16. ASSUME NEW k \in 1..(n - 1) PROVE B[k] = A[k]
  <2>1. k \in 1..n
    BY <1>4
  <2>2. B[k] = SubSeq(e, Nth(F, k) + 1, Nth(F, k + 1) - L)
    BY <1>13, <2>1
  <2>3. A[k] = SubSeq(s, Nth(E, k) + 1, Nth(E, k + 1) - L)
    BY <1>14
  <2> QED
    BY <1>11, <2>2, <2>3
<1>17. B[n] = p
  BY <1>4, <1>12, <1>13
<1> HIDE DEF A, B
<1>18. B = Append(A, p)
  BY <1>1, <1>4, <1>15, <1>16, <1>17 DEF A, B
<1> QED
  BY <1>18 DEF A, B, e

-----------------------------------------------------------------------------
(* Join                                                                    *)

(* The strings of the first n parts, as one step of Join's recursion.      *)
JoinedStep(parts, sep, j) ==
    [n \in 1..Len(parts) |-> IF n = 1 THEN parts[1] ELSE j[n - 1] \o sep \o parts[n]]

(* j holds the strings of the first n parts, for every n up to m.          *)
IsJoined(parts, sep, m, j) ==
    /\ m >= 1 => j[1] = parts[1]
    /\ \A n \in 2..m : j[n] = j[n - 1] \o sep \o parts[n]

(***************************************************************************)
(* Join's recursion has a solution.                                        *)
(***************************************************************************)
LEMMA JoinedExists ==
    ASSUME NEW T, NEW parts \in Seq(Seq(T)), NEW sep \in Seq(T)
    PROVE  \E j \in [1..Len(parts) -> Seq(T)] : j = JoinedStep(parts, sep, j)
<1> DEFINE N == Len(parts)
<1> DEFINE Sol(m) == {j \in [1..m -> Seq(T)] : IsJoined(parts, sep, m, j)}
<1> DEFINE G == {m \in 1..N : Sol(m) # {}}
<1>1. N \in Nat /\ \A n \in 1..N : parts[n] \in Seq(T)
  OBVIOUS
<1>2. ASSUME N >= 1 PROVE 1 \in G
  <2> DEFINE j == [n \in 1..1 |-> parts[1]]
  <2>1. 1 \in 1..N
    BY <1>1, <1>2
  <2>2. j \in [1..1 -> Seq(T)] /\ j[1] = parts[1]
    BY <1>1, <2>1
  <2>3. 2..1 = {}
    OBVIOUS
  <2> HIDE DEF j
  <2>4. IsJoined(parts, sep, 1, j)
    BY <2>2, <2>3 DEF IsJoined
  <2> QED
    BY <2>1, <2>2, <2>4
<1>3. ASSUME NEW n \in 2..N, n - 1 \in G PROVE n \in G
  <2>1. PICK j \in [1..(n - 1) -> Seq(T)] : IsJoined(parts, sep, n - 1, j)
    BY <1>3
  <2> DEFINE last == j[n - 1] \o sep \o parts[n]
  <2> DEFINE h == [i \in 1..n |-> IF i = n THEN last ELSE j[i]]
  <2>2. n \in 1..N /\ n - 1 \in 1..(n - 1) /\ n - 1 >= 1
    BY <1>1
  <2>3. last \in Seq(T)
    BY <1>1, <2>1, <2>2
  <2> HIDE DEF last
  <2>4. h \in [1..n -> Seq(T)]
    BY <1>1, <2>1, <2>2, <2>3
  <2>5. \A i \in 1..(n - 1) : h[i] = j[i]
    BY <1>1, <2>2
  <2>6. h[n] = last
    BY <2>2
  <2> HIDE DEF h
  <2>7. h[1] = parts[1]
    BY <2>1, <2>2, <2>5 DEF IsJoined
  <2>8. ASSUME NEW i \in 2..n PROVE h[i] = h[i - 1] \o sep \o parts[i]
    <3>1. CASE i = n
      BY <2>2, <2>5, <2>6, <3>1 DEF last
    <3>2. CASE i # n
      <4>1. i \in 2..(n - 1) /\ i \in 1..(n - 1) /\ i - 1 \in 1..(n - 1)
        BY <1>1, <3>2
      <4> QED
        BY <2>1, <2>5, <4>1 DEF IsJoined
    <3> QED
      BY <3>1, <3>2
  <2>9. IsJoined(parts, sep, n, h)
    BY <2>7, <2>8 DEF IsJoined
  <2> QED
    BY <2>2, <2>4, <2>9
<1>4. \A n \in 1..N : n \in G
  <2> HIDE DEF G, N
  <2> QED
    BY <1>1, <1>2, <1>3, PartByPart
<1>5. CASE N = 0
  <2> DEFINE j == [n \in 1..N |-> <<>>]
  <2>1. 1..N = {}
    BY <1>5
  <2>2. j \in [1..N -> Seq(T)] /\ j = JoinedStep(parts, sep, j)
    BY <2>1 DEF JoinedStep
  <2> QED
    BY <2>2
<1>6. CASE N # 0
  <2>1. N \in 1..N /\ N >= 1
    BY <1>1, <1>6
  <2>2. PICK j \in [1..N -> Seq(T)] : IsJoined(parts, sep, N, j)
    BY <1>4, <2>1
  <2>3. ASSUME NEW n \in 1..N
        PROVE  j[n] = IF n = 1 THEN parts[1] ELSE j[n - 1] \o sep \o parts[n]
    <3>1. n # 1 => n \in 2..N
      BY <1>1
    <3> QED
      BY <2>1, <2>2, <3>1 DEF IsJoined
  <2>4. j = JoinedStep(parts, sep, j)
    BY <2>2, <2>3 DEF JoinedStep
  <2> QED
    BY <2>2, <2>4
<1> QED
  BY <1>5, <1>6

(***************************************************************************)
(* What Join computes: one part after the other, separated.                *)
(***************************************************************************)
LEMMA JoinSteps ==
    ASSUME NEW T, NEW parts \in Seq(Seq(T)), NEW sep \in Seq(T), parts # <<>>
    PROVE  \E j \in [1..Len(parts) -> Seq(T)] :
               /\ j[1] = parts[1]
               /\ \A n \in 2..Len(parts) : j[n] = j[n - 1] \o sep \o parts[n]
               /\ Join(parts, sep) = j[Len(parts)]
<1> DEFINE N == Len(parts)
<1> DEFINE j == CHOOSE f : f = JoinedStep(parts, sep, f)
<1>1. N \in Nat /\ N >= 1 /\ \A n \in 1..N : parts[n] \in Seq(T)
  OBVIOUS
<1>2. j = JoinedStep(parts, sep, j)
  BY JoinedExists
<1>3. Join(parts, sep) = j[N]
  BY DEF Join, JoinedStep
<1> HIDE DEF j
<1>4. /\ j = [n \in 1..N |-> j[n]]
      /\ \A n \in 1..N : j[n] = IF n = 1 THEN parts[1] ELSE j[n - 1] \o sep \o parts[n]
  BY <1>2 DEF JoinedStep
<1>5. j[1] = parts[1] /\ \A n \in 2..N : j[n] = j[n - 1] \o sep \o parts[n]
  <2>1. 1 \in 1..N /\ \A n \in 2..N : n \in 1..N /\ n # 1
    BY <1>1
  <2> QED
    BY <1>4, <2>1
<1> DEFINE G == {n \in 1..N : j[n] \in Seq(T)}
<1>6. 1 \in G
  BY <1>1, <1>5
<1>7. ASSUME NEW n \in 2..N, n - 1 \in G PROVE n \in G
  <2>1. j[n - 1] \in Seq(T) /\ n \in 1..N
    BY <1>1, <1>7
  <2>2. j[n - 1] \o sep \o parts[n] \in Seq(T)
    BY <1>1, <2>1
  <2> QED
    BY <1>5, <2>1, <2>2
<1>8. \A n \in 1..N : n \in G
  <2> HIDE DEF G, N
  <2> QED
    BY <1>1, <1>6, <1>7, PartByPart
<1>9. j \in [1..N -> Seq(T)]
  BY <1>4, <1>8
<1> QED
  BY <1>3, <1>5, <1>9

(***************************************************************************)
(* Join puts in no other tokens than those of the parts and the separator. *)
(***************************************************************************)
LEMMA JoinType ==
    ASSUME NEW T, NEW parts \in Seq(Seq(T)), NEW sep \in Seq(T)
    PROVE  Join(parts, sep) \in Seq(T)
<1>1. CASE parts = <<>>
  BY <1>1 DEF Join
<1>2. CASE parts # <<>>
  <2>1. PICK j \in [1..Len(parts) -> Seq(T)] : Join(parts, sep) = j[Len(parts)]
    BY <1>2, JoinSteps
  <2>2. Len(parts) \in 1..Len(parts)
    BY <1>2
  <2> QED
    BY <2>1, <2>2
<1> QED
  BY <1>1, <1>2

(***************************************************************************)
(* Something put between separator and piece belongs to the piece.         *)
(***************************************************************************)
LEMMA AfterPreIs ==
    ASSUME NEW T, NEW sep \in Seq(T), NEW s \in Seq(T), NEW pre \in Seq(T), NEW p \in Seq(T)
    PROVE  AfterPre(s, sep, pre, p) = After(s, sep, Glue(pre, p))
BY DEF After, AfterPre, Glue

(***************************************************************************)
(* A sequence is its last element after the others.                        *)
(***************************************************************************)
LEMMA AppendIs ==
    ASSUME NEW V, NEW A \in Seq(V), NEW B \in Seq(V), NEW p \in V,
           Len(B) = Len(A) + 1, B[Len(B)] = p, \A k \in 1..Len(A) : B[k] = A[k]
    PROVE  Append(A, p) = B
OBVIOUS

(***************************************************************************)
(* A joined string begins as its first part and ends as its last one.      *)
(***************************************************************************)
LEMMA JoinEnds ==
    ASSUME NEW T, NEW parts \in Seq(Seq(T)), NEW sep \in Seq(T), parts # <<>>,
           \A k \in 1..Len(parts) : parts[k] # <<>>
    PROVE  /\ Join(parts, sep) # <<>> /\ Join(parts, sep)[1] = parts[1][1]
           /\ Join(parts, sep)[Len(Join(parts, sep))] = parts[Len(parts)][Len(parts[Len(parts)])]
<1> DEFINE N == Len(parts)
<1>1. /\ N \in Nat /\ N >= 1
      /\ \A n \in 1..N : parts[n] \in Seq(T) /\ parts[n] # <<>>
  OBVIOUS
<1>2. PICK j \in [1..N -> Seq(T)] :
          /\ j[1] = parts[1]
          /\ \A n \in 2..N : j[n] = j[n - 1] \o sep \o parts[n]
          /\ Join(parts, sep) = j[N]
  BY JoinSteps
<1> DEFINE Good(n) == /\ j[n] # <<>> /\ j[n][1] = parts[1][1]
                      /\ j[n][Len(j[n])] = parts[n][Len(parts[n])]
<1> DEFINE G == {n \in 1..N : Good(n)}
<1>3. 1 \in G
  BY <1>1, <1>2
<1>4. ASSUME NEW n \in 2..N, n - 1 \in G PROVE n \in G
  <2> DEFINE s == j[n - 1]
  <2> DEFINE p == parts[n]
  <2>0. n \in 1..N /\ n - 1 \in 1..N
    BY <1>1
  <2>1. /\ s \in Seq(T) /\ s # <<>> /\ s[1] = parts[1][1]
        /\ p \in Seq(T) /\ p # <<>> /\ j[n] = s \o sep \o p
    BY <1>1, <1>2, <1>4, <2>0
  <2> HIDE DEF s, p
  <2> DEFINE e == s \o sep \o p
  <2>2. e # <<>> /\ e[1] = s[1] /\ e[Len(e)] = p[Len(p)]
    BY <2>1
  <2> HIDE DEF e
  <2>3. Good(n)
    BY <2>1, <2>2 DEF e, p
  <2> QED
    BY <2>0, <2>3
<1>5. \A n \in 1..N : n \in G
  <2> HIDE DEF G, N
  <2> QED
    BY <1>1, <1>3, <1>4, PartByPart
<1>6. Good(N)
  BY <1>1, <1>5
<1> QED
  BY <1>2, <1>6

(***************************************************************************)
(* What was joined is split into the same parts, when these are free of    *)
(* the separator and make none with the one put after them; what the       *)
(* joining put after it (the blank of ", ") leads all of them but the      *)
(* first.                                                                  *)
(***************************************************************************)
LEMMA SplitJoin ==
    ASSUME NEW T, NEW sep \in Seq(T), sep # <<>>, NEW pre \in Seq(T),
           NEW parts \in Seq(Seq(T)), parts # <<>>, NEW Z,
           \A k \in 1..Len(parts) : parts[k] # <<>> /\ parts[k][Len(parts[k])] \in Z,
           \A k \in 1..Len(parts) : Found(parts[k], sep) = {},
           \A k \in 1..Len(parts) : Found(Glue(pre, parts[k]), sep) = {},
           \A s \in Seq(T) : s # <<>> /\ s[Len(s)] \in Z => Clean(s, sep)
    PROVE  Split(Join(parts, Glue(sep, pre)), sep) = Led(pre, parts)
<1> DEFINE N == Len(parts)
<1> DEFINE q(k) == IF k = 1 THEN parts[1] ELSE Glue(pre, parts[k])
<1> DEFINE R(n) == [k \in 1..n |-> q(k)]
<1>1. /\ N \in Nat /\ N >= 1 /\ \A n \in 1..N : parts[n] \in Seq(T)
      /\ Glue(sep, pre) \in Seq(T)
  BY DEF Glue
<1>2. PICK j \in [1..N -> Seq(T)] :
          /\ j[1] = parts[1]
          /\ \A n \in 2..N : j[n] = j[n - 1] \o Glue(sep, pre) \o parts[n]
          /\ Join(parts, Glue(sep, pre)) = j[N]
  BY <1>1, JoinSteps
<1>3. ASSUME NEW k \in 1..N PROVE q(k) \in Seq(T) /\ Found(q(k), sep) = {}
  <2>1. 1 \in 1..N
    BY <1>1
  <2>2. Glue(pre, parts[k]) \in Seq(T)
    BY <1>1 DEF Glue
  <2> QED
    BY <1>1, <2>1, <2>2
<1>4. q(1) = parts[1] /\ \A k \in 2..N : q(k) = Glue(pre, parts[k])
  OBVIOUS
<1> HIDE DEF q, N
<1>5. ASSUME NEW n \in 1..N
      PROVE  /\ R(n) \in Seq(Seq(T)) /\ Len(R(n)) = n
             /\ \A k \in 1..n : R(n)[k] = q(k)
  <2>1. \A k \in 1..n : q(k) \in Seq(T)
    BY <1>1, <1>3
  <2>2. n \in Nat
    BY <1>1
  <2> QED
    BY <2>1, <2>2
<1>6. R(1) = <<parts[1]>>
  BY <1>4
<1> HIDE DEF R
<1> DEFINE Good(n) == j[n] # <<>> /\ j[n][Len(j[n])] \in Z
<1> DEFINE G == {n \in 1..N : Split(j[n], sep) = R(n) /\ Good(n)}
<1>7. 1 \in G
  <2>1. 1 \in 1..N
    BY <1>1
  <2>2. parts[1] \in Seq(T) /\ Found(parts[1], sep) = {}
    BY <1>1, <2>1 DEF N
  <2>3. Split(parts[1], sep) = <<parts[1]>>
    BY <2>2, SplitFree
  <2>4. Good(1)
    BY <1>2, <2>1 DEF N
  <2> HIDE DEF Good
  <2> QED
    BY <1>2, <1>6, <2>1, <2>3, <2>4
<1>8. ASSUME NEW n \in 2..N, n - 1 \in G PROVE n \in G
  <2> DEFINE s == j[n - 1]
  <2>1. n \in 1..N /\ n - 1 \in 1..N /\ n - 1 \in Nat
    BY <1>1
  <2>2. s \in Seq(T) /\ Split(s, sep) = R(n - 1) /\ s # <<>> /\ s[Len(s)] \in Z
    BY <1>2, <1>8, <2>1
  <2>3. j[n] = AfterPre(s, sep, pre, parts[n])
    BY <1>2 DEF AfterPre
  <2> HIDE DEF s, Good
  <2>4. q(n) \in Seq(T) /\ Found(q(n), sep) = {}
    BY <1>3, <2>1
  <2>5. Split(j[n], sep) = Append(Split(s, sep), q(n))
    <3>1. AfterPre(s, sep, pre, parts[n]) = After(s, sep, Glue(pre, parts[n]))
      BY <1>1, <2>1, <2>2, AfterPreIs
    <3>2. j[n] = After(s, sep, q(n))
      BY <1>4, <2>3, <3>1
    <3>3. Clean(s, sep)
      BY <2>2
    <3>4. Split(After(s, sep, q(n)), sep) = Append(Split(s, sep), q(n))
      BY <2>2, <2>4, <3>3, SplitAppend
    <3> QED
      BY <3>2, <3>4
  <2>6. Append(R(n - 1), q(n)) = R(n)
    <3> DEFINE A == R(n - 1)
    <3> DEFINE B == R(n)
    <3> DEFINE V == Seq(T)
    <3>1. A \in Seq(V) /\ Len(A) = n - 1 /\ \A k \in 1..(n - 1) : A[k] = q(k)
      BY <1>5, <2>1
    <3>2. B \in Seq(V) /\ Len(B) = n /\ \A k \in 1..n : B[k] = q(k)
      BY <1>5, <2>1
    <3> HIDE DEF A, B, V
    <3>3. /\ Len(B) = Len(A) + 1 /\ B[Len(B)] = q(n)
          /\ \A k \in 1..Len(A) : B[k] = A[k]
      BY <2>1, <3>1, <3>2
    <3>4. q(n) \in V
      BY <2>4 DEF V
    <3>5. Append(A, q(n)) = B
      BY <3>1, <3>2, <3>3, <3>4, AppendIs
    <3> QED
      BY <3>5 DEF A, B
  <2>7. Good(n)
    <3> DEFINE g == Glue(sep, pre)
    <3> DEFINE p == parts[n]
    <3>1. /\ g \in Seq(T) /\ p \in Seq(T) /\ p # <<>> /\ p[Len(p)] \in Z
          /\ j[n] = s \o g \o p
      BY <1>1, <1>2, <2>1 DEF N, s
    <3> HIDE DEF g, p
    <3> DEFINE e == s \o g \o p
    <3>2. e # <<>> /\ e[Len(e)] = p[Len(p)]
      BY <2>2, <3>1
    <3> HIDE DEF e
    <3>3. j[n] = e
      BY <3>1 DEF e
    <3> QED
      BY <3>1, <3>2, <3>3 DEF Good
  <2> QED
    BY <2>1, <2>2, <2>5, <2>6, <2>7
<1>9. \A n \in 1..N : n \in G
  <2> HIDE DEF G
  <2> QED
    BY <1>1, <1>7, <1>8, PartByPart
<1>10. Split(j[N], sep) = R(N)
  BY <1>1, <1>9
<1> QED
  BY <1>2, <1>10 DEF R, q, N, Led

(***************************************************************************)
(* A blank put after a comma, and nothing put after a separator.           *)
(***************************************************************************)
LEMMA Glued ==
    ASSUME NEW T, NEW a \in T, NEW b \in T, NEW s \in Seq(T)
    PROVE  Glue(<<a>>, <<b>>) = <<a, b>> /\ Glue(s, <<>>) = s /\ Glue(<<>>, s) = s
<1> DEFINE t == <<a>> \o <<b>>
<1> DEFINE u == <<a, b>>
<1>1. t \in Seq(T) /\ Len(t) = 2 /\ t[1] = a /\ t[2] = b
  OBVIOUS
<1>2. u \in Seq(T) /\ Len(u) = 2 /\ u[1] = a /\ u[2] = b
  OBVIOUS
<1> HIDE DEF t, u
<1>3. \A i \in 1..2 : t[i] = u[i]
  BY <1>1, <1>2
<1>4. t = u
  BY <1>1, <1>2, <1>3, SeqEqual
<1>5. s \o <<>> = s /\ <<>> \o s = s
  OBVIOUS
<1> QED
  BY <1>4, <1>5 DEF Glue, t, u

-----------------------------------------------------------------------------
(* Trim, Strip, SetToSeq                                                   *)

(***************************************************************************)
(* What is not blank: its first and its last position.                     *)
(***************************************************************************)
LEMMA TrimIs ==
    ASSUME NEW T, NEW s \in Seq(T), NEW i \in 1..Len(s), s[i] # Blank
    PROVE  \E a, b \in 1..Len(s) :
               /\ Trim(s) = SubSeq(s, a, b) /\ a <= i /\ i <= b
               /\ s[a] # Blank /\ s[b] # Blank
               /\ \A k \in 1..Len(s) : s[k] # Blank => a <= k /\ k <= b
<1> DEFINE ink == {k \in 1..Len(s) : s[k] # Blank}
<1>1. /\ ink \in SUBSET Nat /\ i \in ink /\ ink # {}
      /\ \A k \in ink : k \in 1..Len(s) /\ s[k] # Blank
  OBVIOUS
<1>2. IsFiniteSet(ink)
  <2>1. IsFiniteSet(1..Len(s)) /\ ink \in SUBSET (1..Len(s))
    BY FS_Interval
  <2> HIDE DEF ink
  <2> QED
    BY <2>1, FS_Subset
<1>3. Trim(s) = SubSeq(s, Min(ink), Max(ink))
  <2>1. DOMAIN s = 1..Len(s)
    OBVIOUS
  <2> QED
    BY <1>1, <2>1 DEF Trim
<1> HIDE DEF ink
<1>4. /\ Min(ink) \in ink /\ Max(ink) \in ink
      /\ \A k \in ink : Min(ink) <= k /\ k <= Max(ink)
  BY <1>1, <1>2, MinMax
<1>5. \A k \in 1..Len(s) : s[k] # Blank => k \in ink
  BY DEF ink
<1> QED
  BY <1>1, <1>3, <1>4, <1>5

(***************************************************************************)
(* A string without outer blanks is left as it is.                         *)
(***************************************************************************)
LEMMA TrimSame ==
    ASSUME NEW T, NEW s \in Seq(T), s # <<>>, s[1] # Blank, s[Len(s)] # Blank
    PROVE  Trim(s) = s
<1>1. 1 \in 1..Len(s) /\ Len(s) \in 1..Len(s)
  OBVIOUS
<1>2. PICK a, b \in 1..Len(s) :
          /\ Trim(s) = SubSeq(s, a, b)
          /\ \A k \in 1..Len(s) : s[k] # Blank => a <= k /\ k <= b
  BY <1>1, TrimIs
<1>3. a = 1 /\ b = Len(s)
  BY <1>1, <1>2
<1> QED
  BY <1>2, <1>3, SubSeqFull

(***************************************************************************)
(* A name that Trim leaves as it is does not begin with a blank.           *)
(***************************************************************************)
LEMMA TrimmedBegins ==
    ASSUME NEW T, NEW s \in Seq(T), s # <<>>
    PROVE  Trim(s) = s => s[1] # Blank
<1>1. CASE \A i \in 1..Len(s) : s[i] = Blank
  <2>1. {i \in DOMAIN s : s[i] # Blank} = {}
    BY <1>1
  <2>2. Trim(s) = <<>>
    BY <2>1 DEF Trim
  <2> QED
    BY <2>2
<1>2. ASSUME NEW i \in 1..Len(s), s[i] # Blank PROVE Trim(s) = s => s[1] # Blank
  <2>1. PICK a, b \in 1..Len(s) :
            Trim(s) = SubSeq(s, a, b) /\ a <= i /\ i <= b /\ s[a] # Blank
    BY <1>2, TrimIs
  <2>2. SubSeq(s, a, b)[1] = s[a]
    BY <2>1
  <2> QED
    BY <2>1, <2>2
<1> QED
  BY <1>1, <1>2

(***************************************************************************)
(* Trim keeps every character that is not blank.                           *)
(***************************************************************************)
LEMMA TrimKeeps ==
    ASSUME NEW T, NEW s \in Seq(T), NEW i \in 1..Len(s), s[i] # Blank
    PROVE  \E k \in 1..Len(Trim(s)) : Trim(s)[k] = s[i]
<1>1. PICK a, b \in 1..Len(s) :
          Trim(s) = SubSeq(s, a, b) /\ a <= i /\ i <= b
  BY TrimIs
<1> DEFINE k == i - a + 1
<1> DEFINE t == SubSeq(s, a, b)
<1>2. t \in Seq(T) /\ k \in 1..Len(t) /\ t[k] = s[i]
  BY <1>1
<1> HIDE DEF k, t
<1> QED
  BY <1>1, <1>2 DEF t

(***************************************************************************)
(* A numeral, with or without a blank before it.                           *)
(***************************************************************************)
LEMMA TrimNumeral ==
    ASSUME NEW n, n # Blank
    PROVE  Trim(<<n>>) = <<n>> /\ Trim(Glue(<<Blank>>, <<n>>)) = <<n>>
<1> DEFINE T == {n, Blank}
<1>1. Trim(<<n>>) = <<n>>
  <2>1. <<n>> \in Seq(T) /\ <<n>> # <<>> /\ <<n>>[1] = n /\ <<n>>[Len(<<n>>)] = n
    OBVIOUS
  <2> QED
    BY <2>1, TrimSame
<1>2. Trim(Glue(<<Blank>>, <<n>>)) = <<n>>
  <2> DEFINE s == Glue(<<Blank>>, <<n>>)
  <2>1. s \in Seq(T) /\ Len(s) = 2 /\ s[1] = Blank /\ s[2] = n
    BY DEF Glue
  <2>2. SubSeq(s, 2, 2) = <<n>>
    <3>1. \A i \in 2..2 : s[i] \in T
      BY <2>1
    <3> HIDE DEF s
    <3>2. /\ SubSeq(s, 2, 2) \in Seq(T) /\ Len(SubSeq(s, 2, 2)) = 1
          /\ SubSeq(s, 2, 2)[1] = s[2]
      <4>1. Len(SubSeq(s, 2, 2)) = IF 2 <= 2 THEN 2 - 2 + 1 ELSE 0
        BY <3>1, SubSeqProperties
      <4>2. SubSeq(s, 2, 2) \in Seq(T) /\ \A i \in 1..(2 - 2 + 1) : SubSeq(s, 2, 2)[i] = s[2 + i - 1]
        BY <3>1, SubSeqProperties
      <4> QED
        BY <4>1, <4>2
    <3> DEFINE t == SubSeq(s, 2, 2)
    <3>3. t \in Seq(T) /\ Len(t) = 1 /\ t[1] = n
      BY <2>1, <3>2
    <3> HIDE DEF t
    <3>4. t = <<n>>
      BY <3>3
    <3> QED
      BY <3>4 DEF t
  <2> HIDE DEF s
  <2>3. 2 \in 1..Len(s) /\ s[2] # Blank
    BY <2>1
  <2>4. PICK a, b \in 1..Len(s) :
            Trim(s) = SubSeq(s, a, b) /\ a <= 2 /\ 2 <= b /\ s[a] # Blank
    BY <2>1, <2>3, TrimIs
  <2>5. a = 2 /\ b = 2
    BY <2>1, <2>4
  <2> QED
    BY <2>2, <2>4, <2>5 DEF s
<1> QED
  BY <1>1, <1>2

(***************************************************************************)
(* A part of a string is not longer than it.                               *)
(***************************************************************************)
LEMMA SubSeqsShorter ==
    ASSUME NEW T, NEW u \in Seq(T), NEW v \in SubSeqs(u)
    PROVE  Len(v) <= Len(u)
<1>1. PICK i, j \in 0..Len(u) : v = SubSeq(u, i + 1, j)
  BY DEF SubSeqs
<1>2. \A k \in (i + 1)..j : u[k] \in T
  OBVIOUS
<1>3. Len(SubSeq(u, i + 1, j)) = IF i + 1 <= j THEN j - (i + 1) + 1 ELSE 0
  <2> DEFINE a == i + 1
  <2>1. a \in Int /\ j \in Int /\ \A k \in a..j : u[k] \in T
    BY <1>2
  <2> HIDE DEF a
  <2>2. Len(SubSeq(u, a, j)) = IF a <= j THEN j - a + 1 ELSE 0
    BY <2>1, SubSeqProperties
  <2> QED
    BY <2>2 DEF a
<1> QED
  BY <1>1, <1>3

(***************************************************************************)
(* A string is a part of itself.                                           *)
(***************************************************************************)
LEMMA SubSeqsWhole ==
    ASSUME NEW T, NEW u \in Seq(T)
    PROVE  u \in SubSeqs(u)
<1>1. u = SubSeq(u, 0 + 1, Len(u)) /\ 0 \in 0..Len(u) /\ Len(u) \in 0..Len(u)
  BY SubSeqFull
<1> QED
  BY <1>1 DEF SubSeqs

(***************************************************************************)
(* A string that begins with w: its beginnings and its end.                *)
(***************************************************************************)
LEMMA GlueParts ==
    ASSUME NEW T, NEW w \in Seq(T), NEW l \in Seq(T)
    PROVE  /\ Glue(w, l) \in Seq(T) /\ Len(Glue(w, l)) = Len(w) + Len(l)
           /\ \A i \in 1..Len(w) : Glue(w, l)[i] = w[i]
           /\ \A i \in 1..Len(l) : Glue(w, l)[Len(w) + i] = l[i]
           /\ SubSeq(Glue(w, l), 1, Len(w)) = w
           /\ SubSeq(Glue(w, l), 1 + Len(w), Len(Glue(w, l))) = l
<1> DEFINE t == Glue(w, l)
<1>1. /\ t \in Seq(T) /\ Len(t) = Len(w) + Len(l)
      /\ \A i \in 1..Len(w) : t[i] = w[i]
      /\ \A i \in 1..Len(l) : t[Len(w) + i] = l[i]
  BY DEF Glue
<1>2. Len(w) \in Nat /\ Len(l) \in Nat
  OBVIOUS
<1> HIDE DEF t
<1>3. SubSeq(t, 1, Len(w)) = w
  <2>1. SubSeq(t, 1, Len(w)) = SubSeq(w, 1, Len(w))
    BY <1>1, <1>2, SubSeqOfPrefix
  <2> QED
    BY <2>1, SubSeqFull
<1>4. SubSeq(t, 1 + Len(w), Len(t)) = l
  <2> DEFINE a == 1 + Len(w)
  <2> DEFINE b == Len(t)
  <2> DEFINE u == SubSeq(t, a, b)
  <2>1. a \in Int /\ b \in Int /\ b - a + 1 = Len(l) /\ \A i \in a..b : t[i] \in T
    BY <1>1, <1>2
  <2>2. \A i \in 1..Len(l) : a + i - 1 = Len(w) + i
    BY <1>2
  <2> HIDE DEF a, b
  <2>3. /\ u \in Seq(T) /\ Len(u) = IF a <= b THEN b - a + 1 ELSE 0
        /\ \A i \in 1..(b - a + 1) : u[i] = t[a + i - 1]
    BY <2>1, SubSeqProperties
  <2> HIDE DEF u
  <2>4. Len(u) = Len(l)
    BY <1>2, <2>1, <2>3
  <2>5. \A i \in 1..Len(l) : u[i] = l[i]
    BY <1>1, <2>1, <2>2, <2>3
  <2>6. u = l
    BY <2>3, <2>4, <2>5, SeqEqual
  <2> QED
    BY <2>6 DEF u, a, b
<1> QED
  BY <1>1, <1>3, <1>4 DEF t

(***************************************************************************)
(* Strip takes off what a string begins with.                              *)
(***************************************************************************)
LEMMA StripHead ==
    ASSUME NEW T, NEW w \in Seq(T), w # <<>>, NEW l \in Seq(T)
    PROVE  Strip(Glue(w, l), w) = l
<1> DEFINE t == Glue(w, l)
<1> DEFINE L == Len(w)
<1>1. /\ t \in Seq(T) /\ Len(t) = L + Len(l)
      /\ SubSeq(t, 1, L) = w /\ SubSeq(t, 1 + L, Len(t)) = l
  <2>1. t \in Seq(T) /\ Len(t) = L + Len(l)
    BY GlueParts
  <2>2. SubSeq(t, 1, L) = w
    BY GlueParts
  <2>3. SubSeq(t, 1 + L, Len(t)) = l
    BY GlueParts
  <2> QED
    BY <2>1, <2>2, <2>3
<1>2. L \in Nat /\ L >= 1 /\ Len(l) \in Nat
  OBVIOUS
<1> HIDE DEF t
<1>3. w \in SubSeqs(t)
  <2>1. 0 \in 0..Len(t) /\ L \in 0..Len(t) /\ SubSeq(t, 0 + 1, L) = w
    BY <1>1, <1>2
  <2> QED
    BY <2>1 DEF SubSeqs
<1> DEFINE In(i) == w \in SubSeqs(SubSeq(t, 1, i))
<1>4. ASSUME NEW j \in 0..(L - 1) PROVE ~In(j)
  <2> DEFINE u == SubSeq(t, 1, j)
  <2>1. u \in Seq(T) /\ Len(u) = j
    <3>1. \A k \in 1..j : t[k] \in T
      BY <1>1, <1>2
    <3>2. j \in Int /\ u \in Seq(T) /\ Len(u) = IF 1 <= j THEN j - 1 + 1 ELSE 0
      BY <3>1, SubSeqProperties
    <3> HIDE DEF u
    <3> QED
      BY <1>2, <3>2
  <2> HIDE DEF u
  <2>2. ASSUME w \in SubSeqs(u) PROVE FALSE
    <3>1. Len(w) <= Len(u)
      BY <2>1, <2>2, SubSeqsShorter
    <3> QED
      BY <1>2, <2>1, <3>1
  <2> QED
    BY <2>2 DEF u
<1>5. In(L)
  BY <1>1, SubSeqsWhole
<1> DEFINE first == CHOOSE i \in 0..Len(t) : In(i) /\ \A j \in 0..i-1 : ~In(j)
<1>6. IndexFirstSubSeq(w, t) = first - (L - 1)
  BY DEF IndexFirstSubSeq
<1> HIDE DEF In
<1>7. L \in 0..Len(t) /\ In(L) /\ \A j \in 0..L-1 : ~In(j)
  BY <1>1, <1>2, <1>4, <1>5
<1>8. first \in 0..Len(t) /\ In(first) /\ \A j \in 0..first-1 : ~In(j)
  BY <1>7
<1> HIDE DEF first
<1>9. first = L
  <2>1. CASE first < L
    BY <1>2, <1>4, <1>8, <2>1
  <2>2. CASE first > L
    <3>1. L \in 0..first-1
      BY <1>2, <1>8, <2>2
    <3> QED
      BY <1>5, <1>8, <3>1
  <2> QED
    <3>1. first \in Int /\ L \in Int
      BY <1>2, <1>8
    <3> HIDE DEF L
    <3> QED
      BY <2>1, <2>2, <3>1
<1>10. IndexFirstSubSeq(w, t) = 1
  BY <1>2, <1>6, <1>9
<1>11. Strip(t, w) = ReplaceSubSeqAt(1, <<>>, w, t)
  BY <1>3, <1>10 DEF Strip, ReplaceFirstSubSeq
<1>12. ReplaceSubSeqAt(1, <<>>, w, t) = SubSeq(t, 1, 1 - 1) \o <<>> \o l
  BY <1>1 DEF ReplaceSubSeqAt
<1>13. SubSeq(t, 1, 1 - 1) = <<>>
  BY <1>1
<1>14. <<>> \o <<>> \o l = l
  OBVIOUS
<1> QED
  BY <1>11, <1>12, <1>13, <1>14 DEF t

(***************************************************************************)
(* SetToSeq lists every member of a finite set once.                       *)
(***************************************************************************)
LEMMA Listed ==
    ASSUME NEW S, IsFiniteSet(S)
    PROVE  /\ SetToSeq(S) \in [1..Cardinality(S) -> S]
           /\ \A i, k \in 1..Cardinality(S) : SetToSeq(S)[i] = SetToSeq(S)[k] => i = k
           /\ \A x \in S : \E i \in 1..Cardinality(S) : SetToSeq(S)[i] = x
<1> DEFINE n == Cardinality(S)
<1> DEFINE f == SetToSeq(S)
<1>1. n \in Nat /\ ExistsBijection(1..n, S)
  BY FS_CardinalityType
<1>2. PICK g \in [1..n -> S] : \A a, b \in 1..n : g[a] = g[b] => a = b
  BY <1>1 DEF ExistsBijection, Bijection, Injection, IsInjective
<1>3. f \in [1..n -> S] /\ \A a, b \in DOMAIN f : f[a] = f[b] => a = b
  <2>1. \E h \in [1..n -> S] : IsInjective(h)
    BY <1>2 DEF IsInjective
  <2>2. f \in [1..n -> S] /\ IsInjective(f)
    BY <2>1 DEF SetToSeq
  <2> QED
    BY <2>2 DEF IsInjective
<1> HIDE DEF f
<1>4. \A a, b \in 1..n : f[a] = f[b] => a = b
  BY <1>3
<1>5. IsFiniteSet(1..n) /\ Cardinality(1..n) = Cardinality(S)
  <2>1. 1 \in Int /\ n \in Int
    BY <1>1
  <2>2. IsFiniteSet(1..n) /\ Cardinality(1..n) = n
    <3> HIDE DEF n
    <3>1. IsFiniteSet(1..n) /\ Cardinality(1..n) = IF 1 > n THEN 0 ELSE n - 1 + 1
      BY <2>1, FS_Interval
    <3> QED
      BY <1>1, <3>1
  <2> QED
    BY <2>2
<1>6. f \in Injection(1..n, S)
  <2> HIDE DEF n
  <2> QED
    BY <1>3 DEF Injection, IsInjective
<1>7. f \in Surjection(1..n, S)
  <2> DEFINE I == 1..n
  <2> HIDE DEF I
  <2> SUFFICES f \in Injection(I, S) /\ Cardinality(I) = Cardinality(S)
    BY FS_Injection DEF I
  <2> QED
    BY <1>5, <1>6 DEF I
<1>8. \A x \in S : \E i \in 1..n : f[i] = x
  <2> HIDE DEF n
  <2> QED
    BY <1>7 DEF Surjection
<1> QED
  BY <1>3, <1>4, <1>8 DEF f

-----------------------------------------------------------------------------
(* Marks and separators                                                    *)

Token == STRING \cup Marks \cup {"Unassigned"}

(* A mark with a blank on either side.                                     *)
Sep(m) == <<Blank, m, Blank>>

(***************************************************************************)
(* The marks differ, and "Unassigned" is none of them.                     *)
(***************************************************************************)
LEMMA TokensDiffer ==
    /\ Semi # Greater /\ Semi # SpotWord /\ Semi # Comma /\ Semi # Blank
    /\ Greater # SpotWord /\ Greater # Comma /\ Greater # Blank
    /\ SpotWord # Comma /\ SpotWord # Blank /\ Comma # Blank
    /\ \A m \in Marks : m # "Unassigned"
BY Zenon DEF Semi, Greater, SpotWord, Comma, Blank, Marks

(***************************************************************************)
(* All of them are characters, and numerals are characters of another      *)
(* kind.                                                                   *)
(***************************************************************************)
LEMMA TokenFacts ==
    /\ Semi \in Token /\ Greater \in Token /\ SpotWord \in Token
    /\ Comma \in Token /\ Blank \in Token
    /\ \A i \in Index :
          /\ i \in Token /\ i # Semi /\ i # Greater /\ i # SpotWord
          /\ i # Comma /\ i # Blank
BY LocationAssumption DEF Token, Marks

(***************************************************************************)
(* A separator, character by character.                                    *)
(***************************************************************************)
LEMMA SepTokens ==
    ASSUME NEW m \in Token
    PROVE  /\ Sep(m) \in Seq(Token) /\ Sep(m) # <<>> /\ Len(Sep(m)) = 3
           /\ Sep(m)[1] = Blank /\ Sep(m)[2] = m /\ Sep(m)[3] = Blank
<1>1. Blank \in Token
  BY TokenFacts
<1> HIDE DEF Token
<1> QED
  BY <1>1 DEF Sep

(***************************************************************************)
(* The separators and the label of the spots.                              *)
(***************************************************************************)
LEMMA Separators ==
    /\ Arrow = Sep(Greater) /\ Semicolon = Sep(Semi)
    /\ Arrow \in Seq(Token) /\ Arrow # <<>> /\ Semicolon \in Seq(Token) /\ Semicolon # <<>>
    /\ SpotLabel \in Seq(Token) /\ SpotLabel # <<>> /\ Len(SpotLabel) = 2
    /\ SpotLabel[1] = SpotWord /\ SpotLabel[2] = Blank
    /\ <<Comma>> \in Seq(Token) /\ <<Comma>> # <<>> /\ <<Blank>> \in Seq(Token)
    /\ <<Comma, Blank>> \in Seq(Token)
<1>1. Arrow = Sep(Greater) /\ Semicolon = Sep(Semi)
  BY DEF Arrow, Semicolon, Sep
<1>2. Semi \in Token /\ Greater \in Token /\ SpotWord \in Token /\ Comma \in Token /\ Blank \in Token
  BY TokenFacts
<1>3. /\ Sep(Greater) \in Seq(Token) /\ Sep(Greater) # <<>>
      /\ Sep(Semi) \in Seq(Token) /\ Sep(Semi) # <<>>
  BY <1>2, SepTokens
<1> HIDE DEF Token
<1>4. /\ SpotLabel \in Seq(Token) /\ SpotLabel # <<>> /\ Len(SpotLabel) = 2
      /\ SpotLabel[1] = SpotWord /\ SpotLabel[2] = Blank
  BY <1>2 DEF SpotLabel
<1>5. /\ <<Comma>> \in Seq(Token) /\ <<Comma>> # <<>> /\ <<Blank>> \in Seq(Token)
      /\ <<Comma, Blank>> \in Seq(Token)
  BY <1>2
<1> QED
  BY <1>1, <1>3, <1>4, <1>5

(***************************************************************************)
(* A string that lacks a character of w lacks w.                           *)
(***************************************************************************)
LEMMA FoundNone ==
    ASSUME NEW T, NEW s \in Seq(T), NEW w \in Seq(T), NEW k \in 1..Len(w),
           \A i \in 1..Len(s) : s[i] # w[k]
    PROVE  Found(s, w) = {}
<1> SUFFICES ASSUME NEW i \in Found(s, w) PROVE FALSE
  OBVIOUS
<1>1. Occurs(s, w, i)
  BY FoundAt
<1>2. i \in Len(w)..Len(s) /\ s[i - Len(w) + k] = w[k]
  BY <1>1 DEF Occurs
<1>3. i - Len(w) + k \in 1..Len(s)
  BY <1>2
<1> QED
  BY <1>2, <1>3

(* m is a word of its own in s.                                            *)
Alone(s, m) ==
    \E j \in 1..Len(s) :
        s[j] = m /\ (j > 1 => s[j - 1] = Blank) /\ (j < Len(s) => s[j + 1] = Blank)

(***************************************************************************)
(* Where a separator is found its mark is a word of its own.               *)
(***************************************************************************)
LEMMA AloneFree ==
    ASSUME NEW m \in Token, NEW s \in Seq(Token), ~Alone(s, m)
    PROVE  Found(s, Sep(m)) = {}
<1> SUFFICES ASSUME NEW i \in Found(s, Sep(m)) PROVE FALSE
  OBVIOUS
<1> DEFINE w == Sep(m)
<1>1. /\ w \in Seq(Token) /\ Len(w) = 3 /\ w[1] = Blank /\ w[2] = m /\ w[3] = Blank
  BY SepTokens
<1> HIDE DEF w
<1>2. Occurs(s, w, i)
  BY <1>1, FoundAt DEF w
<1>3. i \in 3..Len(s) /\ \A k \in 1..3 : s[i - 3 + k] = w[k]
  BY <1>1, <1>2 DEF Occurs
<1>4. i - 3 + 1 = (i - 1) - 1 /\ i - 3 + 2 = i - 1 /\ i - 3 + 3 = (i - 1) + 1
  BY <1>3
<1>5. s[(i - 1) - 1] = Blank /\ s[i - 1] = m /\ s[(i - 1) + 1] = Blank
  BY <1>1, <1>3, <1>4
<1>6. i - 1 \in 1..Len(s)
  BY <1>3
<1> QED
  BY <1>5, <1>6 DEF Alone

(***************************************************************************)
(* The condition on names, word by word.                                   *)
(***************************************************************************)
LEMMA PaddedTokens ==
    ASSUME NEW s \in Seq(Token)
    PROVE  /\ Padded(s) \in Seq(Token) /\ Len(Padded(s)) = Len(s) + 2
           /\ Padded(s)[1] = Blank /\ Padded(s)[Len(s) + 2] = Blank
           /\ \A i \in 1..Len(s) : Padded(s)[i + 1] = s[i]
<1>1. Blank \in Token
  BY TokenFacts
<1> HIDE DEF Token
<1> DEFINE t == <<Blank>> \o s
<1>2. /\ t \in Seq(Token) /\ Len(t) = Len(s) + 1 /\ t[1] = Blank
      /\ \A i \in 1..Len(s) : t[i + 1] = s[i]
  BY <1>1
<1>3. Padded(s) = t \o <<Blank>>
  BY DEF Padded
<1> HIDE DEF t
<1> DEFINE e == t \o <<Blank>>
<1>4. /\ e \in Seq(Token) /\ Len(e) = Len(t) + 1 /\ e[Len(t) + 1] = Blank
      /\ \A i \in 1..Len(t) : e[i] = t[i]
  <2>1. t \in Seq(Token)
    BY <1>2
  <2> QED
    BY <1>1, <2>1
<1> HIDE DEF e
<1>5. Len(s) \in Nat /\ Len(t) + 1 = Len(s) + 2 /\ 1 \in 1..Len(t)
  BY <1>2
<1>6. \A i \in 1..Len(s) : i + 1 \in 1..Len(t)
  BY <1>2
<1>7. \A i \in 1..Len(s) : e[i + 1] = s[i]
  BY <1>2, <1>4, <1>6
<1> QED
  BY <1>2, <1>3, <1>4, <1>5, <1>7 DEF e

(***************************************************************************)
(* A mark that is a word of its own in a name separates the padded name.   *)
(***************************************************************************)
LEMMA AlonePadded ==
    ASSUME NEW m \in Token, NEW s \in Seq(Token), NEW j \in 1..Len(s), s[j] = m,
           j > 1 => s[j - 1] = Blank, j < Len(s) => s[j + 1] = Blank
    PROVE  j + 2 \in Found(Padded(s), Sep(m))
<1> DEFINE w == Sep(m)
<1> DEFINE e == Padded(s)
<1>1. /\ w \in Seq(Token) /\ Len(w) = 3 /\ w[1] = Blank /\ w[2] = m /\ w[3] = Blank
  BY SepTokens
<1>2. /\ e \in Seq(Token) /\ Len(e) = Len(s) + 2
      /\ e[1] = Blank /\ e[Len(s) + 2] = Blank
  BY PaddedTokens
<1>3. \A i \in 1..Len(s) : e[i + 1] = s[i]
  BY PaddedTokens
<1> HIDE DEF w, e
<1>4. e[j + 1] = m
  BY <1>3
<1>5. e[j] = Blank
  <2>1. CASE j = 1
    BY <1>2, <2>1
  <2>2. CASE j # 1
    <3>1. j - 1 \in 1..Len(s) /\ j > 1 /\ (j - 1) + 1 = j
      BY <2>2
    <3>2. e[(j - 1) + 1] = s[j - 1]
      BY <1>3, <3>1
    <3> QED
      BY <3>1, <3>2
  <2> QED
    BY <2>1, <2>2
<1>6. e[j + 2] = Blank
  <2>1. CASE j = Len(s)
    BY <1>2, <2>1
  <2>2. CASE j # Len(s)
    <3>1. j + 1 \in 1..Len(s) /\ j < Len(s) /\ (j + 1) + 1 = j + 2
      BY <2>2
    <3>2. e[(j + 1) + 1] = s[j + 1]
      BY <1>3, <3>1
    <3> QED
      BY <3>1, <3>2
  <2> QED
    BY <2>1, <2>2
<1>7. j + 2 \in 3..Len(e)
  BY <1>2
<1>8. ASSUME NEW k \in 1..3 PROVE e[(j + 2) - 3 + k] = w[k]
  <2>1. /\ (j + 2) - 3 + 1 = j /\ (j + 2) - 3 + 2 = j + 1 /\ (j + 2) - 3 + 3 = j + 2
    OBVIOUS
  <2>2. k = 1 \/ k = 2 \/ k = 3
    OBVIOUS
  <2> QED
    BY <1>1, <1>4, <1>5, <1>6, <2>1, <2>2
<1>9. Occurs(e, w, j + 2)
  BY <1>1, <1>7, <1>8 DEF Occurs
<1>10. j + 2 \in Found(e, w)
  BY <1>1, <1>2, <1>9, FoundAt
<1> QED
  BY <1>10 DEF e, w

(***************************************************************************)
(* A string without a mark has no such word.                               *)
(***************************************************************************)
LEMMA AloneNone ==
    ASSUME NEW s, NEW m, \A i \in 1..Len(s) : s[i] # m
    PROVE  ~Alone(s, m)
BY DEF Alone

(***************************************************************************)
(* Another separator between two strings makes no such word of their ends. *)
(***************************************************************************)
LEMMA AloneAfter ==
    ASSUME NEW m \in Token, NEW x \in Token, m # x, m # Blank,
           NEW s \in Seq(Token), NEW p \in Seq(Token), ~Alone(s, m), ~Alone(p, m)
    PROVE  ~Alone(After(s, Sep(x), p), m)
<1> DEFINE w == Sep(x)
<1> DEFINE e == After(s, w, p)
<1>1. /\ w \in Seq(Token) /\ Len(w) = 3 /\ w[1] = Blank /\ w[2] = x /\ w[3] = Blank
  BY SepTokens
<1> HIDE DEF w
<1>0. w \in Seq(Token)
  BY <1>1
<1>a. e \in Seq(Token)
  <2> HIDE DEF Token
  <2> QED
    BY <1>0, AfterTokens
<1>2. e \in Seq(Token) /\ Len(e) = Len(s) + Len(w) + Len(p)
  <2> HIDE DEF Token
  <2>1. Len(e) = Len(s) + Len(w) + Len(p)
    BY <1>0, AfterTokens
  <2> QED
    BY <1>a, <2>1
<1>3. \A i \in 1..Len(s) : e[i] = s[i]
  <2> HIDE DEF Token
  <2> QED
    BY <1>0, AfterTokens
<1>4. \A i \in 1..Len(w) : e[Len(s) + i] = w[i]
  <2> HIDE DEF Token
  <2> QED
    BY <1>0, AfterTokens
<1>5. \A i \in 1..Len(p) : e[Len(s) + Len(w) + i] = p[i]
  <2> HIDE DEF Token
  <2> QED
    BY <1>0, AfterTokens
<1> HIDE DEF e
<1> DEFINE n == Len(s)
<1> DEFINE r == Len(p)
<1>6. n \in Nat /\ r \in Nat /\ Len(e) = n + 3 + r
  BY <1>1, <1>2
<1>7. \A i \in 1..r : e[n + 3 + i] = p[i]
  BY <1>1, <1>5
<1>8. e[n + 1] = Blank /\ e[n + 2] = x /\ e[n + 3] = Blank
  BY <1>1, <1>4
<1> SUFFICES ASSUME NEW j \in 1..Len(e), e[j] = m, j > 1 => e[j - 1] = Blank,
                    j < Len(e) => e[j + 1] = Blank
             PROVE  FALSE
  BY DEF Alone, e, w
<1>9. CASE j <= n
  <2>1. j \in 1..n /\ s[j] = m
    BY <1>3, <1>6, <1>9
  <2>2. ASSUME j > 1 PROVE s[j - 1] = Blank
    <3>1. j - 1 \in 1..n
      BY <1>6, <2>1, <2>2
    <3> QED
      BY <1>3, <2>2, <3>1
  <2>3. ASSUME j < n PROVE s[j + 1] = Blank
    <3>1. j + 1 \in 1..n /\ j < Len(e)
      BY <1>6, <2>1, <2>3
    <3> QED
      BY <1>3, <3>1
  <2> QED
    BY <2>1, <2>2, <2>3 DEF Alone
<1>10. CASE j > n /\ j <= n + 3
  <2>1. j = n + 1 \/ j = n + 2 \/ j = n + 3
    BY <1>6, <1>10
  <2> QED
    BY <1>8, <2>1
<1>11. CASE j > n + 3
  <2> DEFINE i == j - (n + 3)
  <2>1. i \in 1..r /\ n + 3 + i = j
    BY <1>6, <1>11
  <2>2. p[i] = m
    BY <1>7, <2>1
  <2>3. ASSUME i > 1 PROVE p[i - 1] = Blank
    <3>1. i - 1 \in 1..r /\ n + 3 + (i - 1) = j - 1 /\ j > 1
      BY <1>6, <2>1, <2>3
    <3>2. e[n + 3 + (i - 1)] = p[i - 1]
      BY <1>7, <3>1
    <3> QED
      BY <3>1, <3>2
  <2>4. ASSUME i < r PROVE p[i + 1] = Blank
    <3>1. i + 1 \in 1..r /\ n + 3 + (i + 1) = j + 1 /\ j < Len(e)
      BY <1>6, <2>1, <2>4
    <3>2. e[n + 3 + (i + 1)] = p[i + 1]
      BY <1>7, <3>1
    <3> QED
      BY <3>1, <3>2
  <2> HIDE DEF i
  <2> QED
    BY <2>1, <2>2, <2>3, <2>4 DEF Alone
<1> QED
  BY <1>6, <1>9, <1>10, <1>11

(***************************************************************************)
(* A string that does not end in the mark as a word is clean.              *)
(***************************************************************************)
LEMMA CleanMark ==
    ASSUME NEW m \in Token, m # Blank, NEW s \in Seq(Token),
           ~(Len(s) >= 2 /\ s[Len(s)] = m /\ s[Len(s) - 1] = Blank)
    PROVE  Clean(s, Sep(m))
<1> DEFINE w == Sep(m)
<1>1. /\ Len(w) = 3 /\ w[1] = Blank /\ w[2] = m /\ w[3] = Blank
  BY SepTokens
<1> HIDE DEF w
<1>2. Len(s) \in Nat
  OBVIOUS
<1> DEFINE Q(x, k) == \/ x - 3 + k + Len(s) < 1
                      \/ x - 3 + k <= 0 /\ s[Len(s) + (x - 3 + k)] # w[k]
                      \/ x - 3 + k > 0 /\ w[x - 3 + k] # w[k]
<1>3. \E k \in 1..3 : Q(1, k)
  <2>1. CASE Len(s) < 2
    <3>1. Q(1, 1)
      BY <1>2, <2>1
    <3> QED
      BY <3>1
  <2>2. CASE Len(s) >= 2 /\ s[Len(s)] # m
    <3>1. 1 - 3 + 2 = 0 /\ Len(s) + 0 = Len(s)
      BY <1>2
    <3>2. Q(1, 2)
      BY <1>1, <2>2, <3>1
    <3> QED
      BY <3>2
  <2>3. CASE Len(s) >= 2 /\ s[Len(s) - 1] # Blank
    <3>1. 1 - 3 + 1 <= 0 /\ Len(s) + (1 - 3 + 1) = Len(s) - 1
      BY <1>2
    <3>2. Q(1, 1)
      BY <1>1, <2>3, <3>1
    <3> QED
      BY <3>2
  <2> QED
    BY <1>2, <2>1, <2>2, <2>3
<1>4. \E k \in 1..3 : Q(2, k)
  <2>1. 2 - 3 + 2 = 1
    OBVIOUS
  <2>2. Q(2, 2)
    BY <1>1, <2>1
  <2> QED
    BY <2>2
<1> HIDE DEF Q
<1>5. ASSUME NEW x \in 1..2 PROVE \E k \in 1..3 : Q(x, k)
  <2>1. x = 1 \/ x = 2
    OBVIOUS
  <2> QED
    BY <1>3, <1>4, <2>1
<1>6. Len(w) - 1 = 2
  BY <1>1
<1>7. Clean(s, w)
  BY <1>1, <1>5, <1>6 DEF Clean, Q
<1> QED
  BY <1>7 DEF w

(***************************************************************************)
(* The comma and the label make no other occurrence where they are put.    *)
(***************************************************************************)
LEMMA CleanOthers ==
    ASSUME NEW s \in Seq(Token)
    PROVE  Clean(s, <<Comma>>) /\ Clean(s, SpotLabel)
<1>1. Clean(s, <<Comma>>)
  <2>1. Len(<<Comma>>) = 1
    OBVIOUS
  <2> DEFINE w == <<Comma>>
  <2> HIDE DEF w
  <2>2. 1..(Len(w) - 1) = {}
    BY <2>1 DEF w
  <2>3. Clean(s, w)
    BY <2>2 DEF Clean
  <2> QED
    BY <2>3 DEF w
<1>2. Clean(s, SpotLabel)
  <2> DEFINE w == SpotLabel
  <2>1. Len(w) = 2 /\ w[1] = SpotWord /\ w[2] = Blank /\ SpotWord # Blank
    BY Separators, TokensDiffer
  <2> HIDE DEF w
  <2> DEFINE Q(x, k) == x - Len(w) + k > 0 /\ w[x - Len(w) + k] # w[k]
  <2>2. 1 - Len(w) + 2 = 1
    BY <2>1
  <2>3. Q(1, 2) /\ 2 \in 1..Len(w)
    BY <2>1, <2>2
  <2>4. \A x \in 1..(Len(w) - 1) : x = 1
    BY <2>1
  <2>5. \A x \in 1..(Len(w) - 1) : \E k \in 1..Len(w) : Q(x, k)
    <3> HIDE DEF Q
    <3> QED
      BY <2>3, <2>4
  <2>6. Clean(s, w)
    BY <2>5 DEF Clean
  <2> QED
    BY <2>6 DEF w
<1> QED
  BY <1>1, <1>2

-----------------------------------------------------------------------------
(* The segments                                                            *)

(* The positions of a segment, and the numerals that stand for them.       *)
Group(G) == G \in SUBSET Spot /\ IsFiniteSet(G) /\ G # {}
NumList(spots) == Join([k \in DOMAIN spots |-> <<spots[k][2]>>], <<Comma, Blank>>)

(* A string without outer blanks and without the marks of the separators.  *)
Numerals(l) ==
    /\ l \in Seq(Token) /\ l # <<>> /\ l[1] # Blank /\ l[Len(l)] # Blank
    /\ \A i \in 1..Len(l) : l[i] # Semi /\ l[i] # Greater /\ l[i] # SpotWord

(***************************************************************************)
(* The positions of a group in the order in which they are written.        *)
(***************************************************************************)
LEMMA GroupListed ==
    ASSUME NEW G, Group(G)
    PROVE  /\ Cardinality(G) \in Nat \ {0}
           /\ DOMAIN SetToSeq(G) = 1..Cardinality(G)
           /\ \A k \in 1..Cardinality(G) : SetToSeq(G)[k] \in G /\ SetToSeq(G)[k][2] \in Index
           /\ {SetToSeq(G)[k][2] : k \in 1..Cardinality(G)} = {s[2] : s \in G}
<1> DEFINE n == Cardinality(G)
<1> DEFINE f == SetToSeq(G)
<1>1. n \in Nat \ {0}
  BY FS_CardinalityType, FS_EmptySet DEF Group
<1>2. f \in [1..n -> G] /\ \A x \in G : \E i \in 1..n : f[i] = x
  BY Listed DEF Group
<1>3. \A x \in G : x[2] \in Index
  BY DEF Group, Spot
<1> HIDE DEF f, n
<1>4. \A k \in 1..n : f[k] \in G /\ f[k][2] \in Index
  BY <1>2, <1>3
<1>5. {f[k][2] : k \in 1..n} = {s[2] : s \in G}
  BY <1>2
<1> QED
  BY <1>1, <1>2, <1>4, <1>5 DEF f, n

(***************************************************************************)
(* There is no comma in a numeral.                                         *)
(***************************************************************************)
LEMMA CommaFree ==
    ASSUME NEW n \in Index
    PROVE  /\ Found(<<n>>, <<Comma>>) = {} /\ Found(Glue(<<Blank>>, <<n>>), <<Comma>>) = {}
<1>1. n \in Token /\ Blank \in Token /\ Comma \in Token /\ n # Comma /\ Blank # Comma
  BY TokenFacts, TokensDiffer
<1> HIDE DEF Token
<1> DEFINE w == <<Comma>>
<1>2. w \in Seq(Token) /\ 1 \in 1..Len(w) /\ w[1] = Comma
  BY <1>1
<1> HIDE DEF w
<1>3. Found(<<n>>, w) = {}
  <2> DEFINE s == <<n>>
  <2>1. s \in Seq(Token) /\ \A i \in 1..Len(s) : s[i] # Comma
    BY <1>1
  <2> HIDE DEF s
  <2>2. Found(s, w) = {}
    BY <1>2, <2>1, FoundNone
  <2> QED
    BY <2>2 DEF s
<1>4. Found(Glue(<<Blank>>, <<n>>), w) = {}
  <2> DEFINE s == Glue(<<Blank>>, <<n>>)
  <2>1. s \in Seq(Token) /\ \A i \in 1..Len(s) : s[i] # Comma
    BY <1>1 DEF Glue
  <2> HIDE DEF s
  <2>2. Found(s, w) = {}
    BY <1>2, <2>1, FoundNone
  <2> QED
    BY <2>2 DEF s
<1> QED
  BY <1>3, <1>4 DEF w

(***************************************************************************)
(* What stands between two numerals.                                       *)
(***************************************************************************)
LEMMA CommaBlank == Glue(<<Comma>>, <<Blank>>) = <<Comma, Blank>>
<1>1. Comma \in Token /\ Blank \in Token
  BY TokenFacts
<1>2. <<Blank>> \in Seq(Token)
  BY Separators
<1> HIDE DEF Token
<1> QED
  BY <1>1, <1>2, Glued

(***************************************************************************)
(* The numerals of a group are read back one by one.                       *)
(***************************************************************************)
LEMMA NumListRead ==
    ASSUME NEW G, Group(G)
    PROVE  /\ Numerals(NumList(SetToSeq(G)))
           /\ Split(NumList(SetToSeq(G)), <<Comma>>) \in Seq(Seq(Token))
           /\ Len(Split(NumList(SetToSeq(G)), <<Comma>>)) = Cardinality(G)
           /\ \A k \in 1..Cardinality(G) :
                 Trim(Split(NumList(SetToSeq(G)), <<Comma>>)[k]) = <<SetToSeq(G)[k][2]>>
<1> DEFINE n == Cardinality(G)
<1> DEFINE f == SetToSeq(G)
<1> DEFINE q(k) == <<f[k][2]>>
<1> DEFINE parts == [k \in 1..n |-> q(k)]
<1> DEFINE U == Token \ {Semi, Greater, SpotWord}
<1> DEFINE l == NumList(f)
<1> DEFINE w == <<Comma>>
<1>1. n \in Nat \ {0} /\ DOMAIN f = 1..n /\ \A k \in 1..n : f[k][2] \in Index
  BY GroupListed
<1>2. l = Join(parts, <<Comma, Blank>>)
  BY <1>1 DEF NumList
<1>w. w \in Seq(Token) /\ w # <<>> /\ <<Blank>> \in Seq(Token)
  BY Separators
<1> HIDE DEF f, n, l, w
<1>3. /\ Comma \in U /\ Blank \in U /\ Comma \in Token /\ Blank \in Token
      /\ Index \subseteq U /\ Index \subseteq Token /\ \A i \in Index : i # Blank
  BY TokensDiffer, TokenFacts
<1>u. \A x \in U : x \in Token /\ x # Semi /\ x # Greater /\ x # SpotWord
  OBVIOUS
<1> HIDE DEF U, Token
<1>4. parts \in Seq(Seq(U)) /\ parts \in Seq(Seq(Token)) /\ Len(parts) = n /\ parts # <<>>
  <2> DEFINE A == Seq(U)
  <2> DEFINE B == Seq(Token)
  <2>1. \A k \in 1..n : q(k) \in A /\ q(k) \in B
    BY <1>1, <1>3
  <2> HIDE DEF q, A, B
  <2>2. parts \in [1..n -> A] /\ parts \in [1..n -> B]
    BY <2>1
  <2> HIDE DEF parts
  <2>3. parts \in Seq(A) /\ Len(parts) = n /\ parts # <<>>
    BY <1>1, <2>2
  <2>4. parts \in Seq(B)
    BY <1>1, <2>2
  <2> QED
    BY <2>3, <2>4 DEF A, B
<1>5. \A k \in 1..n : /\ parts[k] = <<f[k][2]>> /\ parts[k] # <<>> /\ parts[k][1] # Blank
                      /\ Len(parts[k]) = 1 /\ f[k][2] # Blank
  BY <1>1, <1>3
<1> HIDE DEF parts
<1>6. <<Comma, Blank>> \in Seq(U)
  BY <1>3
<1>7. l \in Seq(U)
  BY <1>2, <1>4, <1>6, JoinType
<1>8. l # <<>> /\ l[1] = parts[1][1] /\ l[Len(l)] = parts[n][Len(parts[n])]
  <2> DEFINE c == <<Comma, Blank>>
  <2>1. c \in Seq(U) /\ l = Join(parts, c) /\ \A k \in 1..Len(parts) : parts[k] # <<>>
    BY <1>2, <1>4, <1>5, <1>6
  <2> HIDE DEF c
  <2>2. /\ Join(parts, c) # <<>> /\ Join(parts, c)[1] = parts[1][1]
        /\ Join(parts, c)[Len(Join(parts, c))] = parts[Len(parts)][Len(parts[Len(parts)])]
    BY <1>4, <2>1, JoinEnds
  <2> QED
    BY <1>4, <2>1, <2>2
<1>9. 1 \in 1..n /\ n \in 1..n
  BY <1>1
<1>10. l[1] # Blank /\ l[Len(l)] # Blank
  BY <1>5, <1>8, <1>9
<1>a. l \in Seq(Token)
  BY <1>u, <1>7, SeqMonotonic
<1>b. Numerals(l)
  <2>1. \A i \in 1..Len(l) : l[i] \in U
    BY <1>7
  <2>2. \A i \in 1..Len(l) : l[i] # Semi /\ l[i] # Greater /\ l[i] # SpotWord
    BY <1>u, <2>1
  <2> QED
    BY <1>8, <1>10, <1>a, <2>2 DEF Numerals
<1> DEFINE S == Split(l, w)
<1>11. S = Led(<<Blank>>, parts)
  <2> DEFINE b == <<Blank>>
  <2>1. Glue(w, b) = <<Comma, Blank>>
    BY CommaBlank DEF w
  <2>2. b \in Seq(Token)
    BY <1>w
  <2>3. ASSUME NEW k \in 1..n
        PROVE  /\ Found(parts[k], w) = {} /\ Found(Glue(b, parts[k]), w) = {}
               /\ parts[k] # <<>> /\ parts[k][Len(parts[k])] \in Token
    <3>1. parts[k] = <<f[k][2]>> /\ f[k][2] \in Index /\ f[k][2] \in Token
      BY <1>1, <1>3, <1>5
    <3>2. parts[k] # <<>> /\ parts[k][Len(parts[k])] \in Token
      BY <3>1
    <3>3. Found(<<f[k][2]>>, w) = {} /\ Found(Glue(b, <<f[k][2]>>), w) = {}
      BY <3>1, CommaFree DEF w
    <3> HIDE DEF b
    <3> QED
      BY <3>1, <3>2, <3>3
  <2>4. \A s \in Seq(Token) : Clean(s, w)
    BY CleanOthers DEF w
  <2> HIDE DEF b
  <2>5. \A k \in 1..Len(parts) : Found(parts[k], w) = {}
    BY <1>4, <2>3
  <2>6. \A k \in 1..Len(parts) : Found(Glue(b, parts[k]), w) = {}
    BY <1>4, <2>3
  <2>7. \A k \in 1..Len(parts) : parts[k] # <<>> /\ parts[k][Len(parts[k])] \in Token
    BY <1>4, <2>3
  <2>8. \A s \in Seq(Token) : s # <<>> /\ s[Len(s)] \in Token => Clean(s, w)
    BY <2>4
  <2>9. parts \in Seq(Seq(Token)) /\ parts # <<>> /\ w \in Seq(Token) /\ w # <<>>
    BY <1>4, <1>w
  <2>10. Split(Join(parts, Glue(w, b)), w) = Led(b, parts)
    BY <2>2, <2>5, <2>6, <2>7, <2>8, <2>9, SplitJoin
  <2> QED
    BY <1>2, <2>1, <2>10 DEF b
<1>12. ASSUME NEW k \in 1..n PROVE Trim(S[k]) = <<f[k][2]>>
  <2> DEFINE m == f[k][2]
  <2>1. m # Blank /\ parts[k] = <<m>> /\ (k = 1 => parts[1] = <<m>>)
    BY <1>5
  <2>2. S[k] = <<m>> \/ S[k] = Glue(<<Blank>>, <<m>>)
    BY <1>4, <1>11, <2>1 DEF Led
  <2> HIDE DEF m, S
  <2>3. Trim(<<m>>) = <<m>> /\ Trim(Glue(<<Blank>>, <<m>>)) = <<m>>
    BY <2>1, TrimNumeral
  <2>4. Trim(S[k]) = <<m>>
    BY <2>2, <2>3
  <2> QED
    BY <2>4 DEF m
<1>13. S \in Seq(Seq(Token)) /\ Len(S) = n
  <2>1. S \in Seq(Seq(Token))
    BY <1>a, <1>w, SplitType
  <2>2. DOMAIN S = 1..n
    BY <1>4, <1>11 DEF Led
  <2> HIDE DEF S
  <2>3. Len(S) = n
    BY <1>1, <2>1, <2>2
  <2> QED
    BY <2>1, <2>3
<1> QED
  BY <1>b, <1>12, <1>13 DEF l, f, n, w

(* A key, the arrow and the label, and the numerals.                       *)
Put(key, a, b, l) == key \o a \o b \o l

(***************************************************************************)
(* Two ways to look at a segment: a part that begins with the label        *)
(* follows the last arrow; the numerals follow the label.                  *)
(***************************************************************************)
LEMMA PutIs ==
    ASSUME NEW T, NEW a \in Seq(T), NEW b \in Seq(T), NEW key \in Seq(T), NEW l \in Seq(T)
    PROVE  /\ Put(key, a, b, l) = After(key, a, Glue(b, l))
           /\ Put(key, a, b, l) = After(Glue(key, a), b, l)
<1>1. Put(key, a, b, l) = After(Glue(key, a), b, l)
  BY DEF Put, After, Glue
<1>2. Put(key, a, b, l) = After(key, a, Glue(b, l))
  <2> DEFINE k == key \o a
  <2>1. k \in Seq(T)
    OBVIOUS
  <2>2. Put(key, a, b, l) = k \o b \o l
    BY DEF Put
  <2>3. After(key, a, Glue(b, l)) = k \o (b \o l)
    BY DEF After, Glue
  <2> HIDE DEF k
  <2>4. (k \o b) \o l = k \o (b \o l)
    BY <2>1
  <2> QED
    BY <2>2, <2>3, <2>4
<1> QED
  BY <1>1, <1>2

(***************************************************************************)
(* The last of a sequence that something was appended to.                  *)
(***************************************************************************)
LEMMA LastAppended ==
    ASSUME NEW V, NEW A \in Seq(V), NEW p \in V
    PROVE  Last(Append(A, p)) = p
BY DEF Last

(***************************************************************************)
(* What the marks of a segment's end make of it: the part after the arrow. *)
(***************************************************************************)
LEMMA SpotPart ==
    ASSUME NEW l, Numerals(l), NEW p, p = Glue(SpotLabel, l)
    PROVE  /\ p \in Seq(Token) /\ p # <<>> /\ Len(p) = 2 + Len(l)
           /\ p[1] = SpotWord /\ p[Len(p)] = l[Len(l)]
           /\ \A i \in 1..Len(p) : p[i] # Semi /\ p[i] # Greater
<1>1. l \in Seq(Token) /\ l # <<>> /\ \A i \in 1..Len(l) : l[i] # Semi /\ l[i] # Greater
  BY DEF Numerals
<1>2. /\ SpotLabel \in Seq(Token) /\ Len(SpotLabel) = 2
      /\ SpotLabel[1] = SpotWord /\ SpotLabel[2] = Blank
  BY Separators
<1>3. SpotWord # Semi /\ SpotWord # Greater /\ Blank # Semi /\ Blank # Greater
  BY TokensDiffer
<1>4. SpotLabel \in Seq(Token) /\ l \in Seq(Token)
  BY <1>1, <1>2
<1> HIDE DEF Token
<1>5. p \in Seq(Token) /\ Len(p) = Len(SpotLabel) + Len(l)
  BY <1>4, GlueParts
<1>6. \A i \in 1..Len(SpotLabel) : p[i] = SpotLabel[i]
  BY <1>4, GlueParts
<1>7. \A i \in 1..Len(l) : p[Len(SpotLabel) + i] = l[i]
  <2> DEFINE w == SpotLabel
  <2>1. w \in Seq(Token)
    BY <1>4
  <2> HIDE DEF w
  <2>2. \A i \in 1..Len(l) : Glue(w, l)[Len(w) + i] = l[i]
    BY <1>4, <2>1, GlueParts
  <2> QED
    BY <2>2 DEF w
<1>8. Len(l) \in 1..Len(l) /\ Len(l) \in Nat
  BY <1>1
<1>9. /\ Len(p) = 2 + Len(l) /\ p[1] = SpotWord /\ p[2] = Blank
      /\ \A i \in 1..Len(l) : p[2 + i] = l[i]
  BY <1>2, <1>5, <1>6, <1>7
<1>10. p # <<>> /\ p[Len(p)] = l[Len(l)]
  BY <1>5, <1>8, <1>9
<1>11. ASSUME NEW i \in 1..Len(p) PROVE p[i] # Semi /\ p[i] # Greater
  <2>1. CASE i <= 2
    <3>1. i = 1 \/ i = 2
      BY <2>1
    <3> QED
      BY <1>3, <1>9, <3>1
  <2>2. CASE i > 2
    <3> DEFINE k == i - 2
    <3>1. k \in 1..Len(l) /\ 2 + k = i
      BY <1>8, <1>9, <2>2
    <3> HIDE DEF k
    <3>2. p[i] = l[k]
      BY <1>9, <3>1
    <3> QED
      BY <1>1, <3>1, <3>2
  <2> QED
    BY <2>1, <2>2
<1> QED
  BY <1>5, <1>9, <1>10, <1>11

(***************************************************************************)
(* A character a string has in it is not lost by Trim, so that a string    *)
(* with the word Spot in it is not "Unassigned".                           *)
(***************************************************************************)
LEMMA NotUnassigned ==
    ASSUME NEW e \in Seq(Token), NEW i \in 1..Len(e), e[i] = SpotWord
    PROVE  e # Unassigned /\ Trim(e) # Unassigned
<1>1. SpotWord # Blank /\ SpotWord # "Unassigned"
  BY TokensDiffer DEF Marks
<1>2. \A k \in 1..Len(Unassigned) : Unassigned[k] # SpotWord
  BY <1>1 DEF Unassigned
<1>3. e[i] # Blank
  BY <1>1
<1> HIDE DEF Token
<1>4. \E k \in 1..Len(Trim(e)) : Trim(e)[k] = e[i]
  BY <1>3, TrimKeeps
<1>5. e # Unassigned
  BY <1>2
<1>6. Trim(e) # Unassigned
  BY <1>2, <1>4
<1> QED
  BY <1>5, <1>6

(***************************************************************************)
(* A segment as the readers see it, whatever its key.                      *)
(***************************************************************************)
LEMMA SegmentRead ==
    ASSUME NEW G, Group(G), NEW key \in Seq(Token),
           NEW e, e = Segment(key, SetToSeq(G)), NEW l, l = NumList(SetToSeq(G))
    PROVE  /\ e \in Seq(Token) /\ e # <<>> /\ e[Len(e)] # Blank /\ e[Len(e)] # Semi
           /\ ~Alone(key, Semi) => ~Alone(e, Semi)
           /\ key # <<>> => e[1] = key[1]
           /\ Found(e, SpotLabel) # {} /\ e # Unassigned /\ Trim(e) # Unassigned
           /\ Clean(key, Arrow) =>
                 /\ Split(e, Arrow) = Append(Split(key, Arrow), Glue(SpotLabel, l))
                 /\ Last(Split(e, Arrow)) = Glue(SpotLabel, l)
           /\ Last(Split(e, SpotLabel)) = l
<1> DEFINE a == Arrow
<1> DEFINE b == SpotLabel
<1> DEFINE p == Glue(b, l)
<1> DEFINE s == Glue(key, a)
<1>1. Numerals(l)
  BY NumListRead
<1>2. a \in Seq(Token) /\ a # <<>> /\ a = Sep(Greater)
  BY Separators
<1>3. b \in Seq(Token) /\ b # <<>> /\ Len(b) = 2 /\ b[1] = SpotWord
  BY Separators
<1>4. l \in Seq(Token) /\ l # <<>> /\ l[Len(l)] # Blank /\ l[Len(l)] # Semi
  BY <1>1 DEF Numerals
<1>5. e = Put(key, a, b, l)
  BY DEF Segment, NumList, Put
<1>6. /\ p \in Seq(Token) /\ p # <<>> /\ p[1] = SpotWord /\ p[Len(p)] = l[Len(l)]
      /\ \A i \in 1..Len(p) : p[i] # Semi /\ p[i] # Greater
  BY <1>1, SpotPart
<1>7. e = After(key, a, p) /\ e = After(s, b, l)
  <2>1. a \in Seq(Token) /\ b \in Seq(Token) /\ l \in Seq(Token)
    BY <1>2, <1>3, <1>4
  <2> HIDE DEF Token, a, b, p, s
  <2>2. Put(key, a, b, l) = After(key, a, Glue(b, l))
    BY <2>1, PutIs
  <2>3. Put(key, a, b, l) = After(Glue(key, a), b, l)
    BY <2>1, PutIs
  <2> QED
    BY <1>5, <2>2, <2>3 DEF p, s
<1>8. s \in Seq(Token)
  <2>1. a \in Seq(Token)
    BY <1>2
  <2> HIDE DEF Token, a
  <2> QED
    BY <2>1, GlueParts
<1>a. p \in Seq(Token) /\ a \in Seq(Token) /\ b \in Seq(Token)
  BY <1>2, <1>3, <1>6
<1>m. Semi \in Token /\ Greater \in Token /\ Semi # Greater /\ Semi # Blank /\ SpotWord # Greater
  BY TokenFacts, TokensDiffer
<1> HIDE DEF a, b, p, s, Token
<1> DEFINE m == Len(key)
<1> DEFINE r == Len(a)
<1> DEFINE n == Len(p)
<1>9. m \in Nat /\ r \in Nat /\ n \in Nat /\ n >= 1
  BY <1>6, <1>a
<1>10. e \in Seq(Token) /\ Len(e) = m + r + n
  <2>1. After(key, a, p) \in Seq(Token)
    BY <1>a, AfterTokens
  <2>2. Len(After(key, a, p)) = m + r + n
    BY <1>a, AfterTokens
  <2> QED
    BY <1>7, <2>1, <2>2
<1>11. \A i \in 1..m : e[i] = key[i]
  <2>1. \A i \in 1..Len(key) : After(key, a, p)[i] = key[i]
    BY <1>a, AfterTokens
  <2> QED
    BY <1>7, <2>1
<1>12. \A i \in 1..n : e[m + r + i] = p[i]
  <2>1. \A i \in 1..Len(p) : After(key, a, p)[Len(key) + Len(a) + i] = p[i]
    BY <1>a, AfterTokens
  <2> QED
    BY <1>7, <2>1
<1>13. e # <<>> /\ e[Len(e)] # Blank /\ e[Len(e)] # Semi
  <2>1. n \in 1..n
    BY <1>9
  <2>2. e[Len(e)] = p[n]
    BY <1>10, <1>12, <2>1
  <2>3. Len(e) >= 1
    BY <1>9, <1>10
  <2> QED
    BY <1>4, <1>6, <2>2, <2>3
<1>14. key # <<>> => e[1] = key[1]
  <2>1. key # <<>> => 1 \in 1..m
    OBVIOUS
  <2> QED
    BY <1>11, <2>1
<1>15. ~Alone(key, Semi) => ~Alone(e, Semi)
  <2>1. ~Alone(p, Semi)
    BY <1>6, AloneNone
  <2>2. p \in Seq(Token)
    BY <1>a
  <2>3. ~Alone(key, Semi) => ~Alone(After(key, Sep(Greater), p), Semi)
    BY <1>m, <2>1, <2>2, AloneAfter
  <2> QED
    BY <1>2, <1>7, <2>3
<1>16. e # Unassigned /\ Trim(e) # Unassigned
  <2> DEFINE i == m + r + 1
  <2>1. i \in 1..Len(e) /\ e[i] = p[1]
    <3>1. 1 \in 1..n
      BY <1>9
    <3> QED
      BY <1>9, <1>10, <1>12, <3>1
  <2> HIDE DEF i, m, r, n
  <2>2. e[i] = SpotWord
    BY <1>6, <2>1
  <2>3. e \in Seq(Token)
    BY <1>10
  <2> QED
    BY <2>1, <2>2, <2>3, NotUnassigned
<1>17. Clean(s, b) /\ Found(l, b) = {}
  <2>1. Clean(s, b)
    BY <1>8, CleanOthers DEF b
  <2>2. \A i \in 1..Len(l) : l[i] # b[1]
    BY <1>1, <1>3 DEF Numerals
  <2>3. 1 \in 1..Len(b)
    BY <1>3
  <2>4. l \in Seq(Token) /\ b \in Seq(Token)
    BY <1>4, <1>a
  <2>5. Found(l, b) = {}
    BY <2>2, <2>3, <2>4, FoundNone
  <2> QED
    BY <2>1, <2>5
<1>18. Found(e, b) # {}
  <2>1. l \in Seq(Token) /\ b \in Seq(Token) /\ b # <<>>
    BY <1>3, <1>4, <1>a
  <2>2. Len(s) + Len(b) \in Found(After(s, b, l), b)
    BY <1>8, <1>17, <2>1, FoundAfter
  <2> QED
    BY <1>7, <2>2
<1>19. Last(Split(e, b)) = l
  <2>1. l \in Seq(Token) /\ b \in Seq(Token) /\ b # <<>>
    BY <1>3, <1>4, <1>a
  <2>2. Split(After(s, b, l), b) = Append(Split(s, b), l)
    BY <1>8, <1>17, <2>1, SplitAppend
  <2>3. Split(s, b) \in Seq(Seq(Token))
    BY <1>8, <2>1, SplitType
  <2>4. Last(Append(Split(s, b), l)) = l
    <3> DEFINE A == Split(s, b)
    <3> DEFINE V == Seq(Token)
    <3>1. A \in Seq(V) /\ l \in V
      BY <2>1, <2>3
    <3> HIDE DEF A, V
    <3>2. Last(Append(A, l)) = l
      BY <3>1, LastAppended
    <3> QED
      BY <3>2 DEF A
  <2> QED
    BY <1>7, <2>2, <2>4
<1>20. ASSUME Clean(key, a)
       PROVE  Split(e, a) = Append(Split(key, a), p) /\ Last(Split(e, a)) = p
  <2>1. Found(p, a) = {}
    <3>1. a[2] = Greater /\ 2 \in 1..Len(a)
      BY <1>2, <1>m, SepTokens
    <3>2. \A i \in 1..Len(p) : p[i] # a[2]
      BY <1>6, <3>1
    <3>3. p \in Seq(Token) /\ a \in Seq(Token)
      BY <1>a
    <3> QED
      BY <3>1, <3>2, <3>3, FoundNone
  <2>2. p \in Seq(Token) /\ a \in Seq(Token) /\ a # <<>>
    BY <1>2, <1>a
  <2>3. Split(After(key, a, p), a) = Append(Split(key, a), p)
    BY <1>20, <2>1, <2>2, SplitAppend
  <2>4. Split(key, a) \in Seq(Seq(Token))
    BY <2>2, SplitType
  <2>5. Last(Append(Split(key, a), p)) = p
    <3> DEFINE A == Split(key, a)
    <3> DEFINE V == Seq(Token)
    <3>1. A \in Seq(V) /\ p \in V
      BY <2>2, <2>4
    <3> HIDE DEF A, V
    <3>2. Last(Append(A, p)) = p
      BY <3>1, LastAppended
    <3> QED
      BY <3>2 DEF A
  <2> QED
    BY <1>7, <2>3, <2>5
<1> QED
  BY <1>10, <1>13, <1>14, <1>15, <1>16, <1>18, <1>19, <1>20 DEF a, b, p

(***************************************************************************)
(* What a string begins with.                                              *)
(***************************************************************************)
LEMMA GluePrefix ==
    ASSUME NEW T, NEW w \in Seq(T), NEW l \in Seq(T)
    PROVE  SubSeq(Glue(w, l), 1, Len(w)) = w
BY GlueParts

(***************************************************************************)
(* The last part of a segment: the label leads it, nothing is trimmed      *)
(* away, and the indexes read from it are those of the group.              *)
(***************************************************************************)
LEMMA SpotPartRead ==
    ASSUME NEW G, Group(G), NEW l, l = NumList(SetToSeq(G)),
           NEW part, part = Glue(SpotLabel, l)
    PROVE  /\ Trim(part) = part /\ IsPrefix(SpotLabel, part)
           /\ Strip(part, SpotLabel) = l /\ Trim(l) = l
           /\ SpotIndexes(part) = {s[2] : s \in G}
<1>0. Numerals(l)
  BY NumListRead
<1>1. l \in Seq(Token) /\ l # <<>> /\ l[1] # Blank /\ l[Len(l)] # Blank
  BY <1>0 DEF Numerals
<1>2. SpotLabel \in Seq(Token) /\ SpotLabel # <<>> /\ Len(SpotLabel) = 2 /\ SpotWord # Blank
  BY Separators, TokensDiffer
<1>3. /\ part \in Seq(Token) /\ part # <<>> /\ part[1] = SpotWord /\ part[Len(part)] = l[Len(l)]
      /\ Len(part) = 2 + Len(l)
  BY <1>0, SpotPart
<1> HIDE DEF Token
<1>4. Trim(part) = part
  <2>1. part[1] # Blank /\ part[Len(part)] # Blank
    BY <1>1, <1>2, <1>3
  <2> QED
    BY <1>3, <2>1, TrimSame
<1> DEFINE b == SpotLabel
<1>5. b \in Seq(Token) /\ b # <<>> /\ l \in Seq(Token)
  BY <1>1, <1>2
<1>6. Strip(part, b) = l
  <2> HIDE DEF b
  <2>1. Strip(Glue(b, l), b) = l
    BY <1>5, StripHead
  <2> QED
    BY <2>1 DEF b
<1>7. IsPrefix(b, part)
  <2>1. SubSeq(part, 1, Len(b)) = b
    <3> HIDE DEF b
    <3>1. SubSeq(Glue(b, l), 1, Len(b)) = b
      BY <1>5, GluePrefix
    <3> QED
      BY <3>1 DEF b
  <2>2. Len(b) <= Len(part)
    BY <1>1, <1>2, <1>3
  <2>3. SubSeq(b, 1, Len(b)) = b
    BY <1>5, SubSeqFull
  <2> QED
    BY <2>1, <2>2, <2>3 DEF IsPrefix
<1>8. Trim(l) = l
  BY <1>1, TrimSame
<1>9. SpotIndexes(part) = {s[2] : s \in G}
  <2> DEFINE n == Cardinality(G)
  <2> DEFINE f == SetToSeq(G)
  <2> DEFINE p == Split(l, <<Comma>>)
  <2>1. /\ n \in Nat \ {0} /\ \A k \in 1..n : f[k][2] \in Index
        /\ {f[k][2] : k \in 1..n} = {s[2] : s \in G}
    BY GroupListed
  <2>2. p \in Seq(Seq(Token)) /\ Len(p) = n /\ \A k \in 1..n : Trim(p[k]) = <<f[k][2]>>
    BY NumListRead
  <2>3. SpotIndexes(part) = UNION {TryParse(Trim(s)) : s \in ToSet(p)}
    BY <1>6, <1>8 DEF SpotIndexes
  <2> HIDE DEF n, f, p
  <2>4. ToSet(p) = {p[k] : k \in 1..n}
    <3>1. DOMAIN p = 1..n
      BY <2>2
    <3> QED
      BY <3>1 DEF ToSet
  <2>5. \A k \in 1..n : TryParse(Trim(p[k])) = {f[k][2]}
    BY <2>1, <2>2 DEF TryParse
  <2>6. UNION {TryParse(Trim(s)) : s \in ToSet(p)} = {f[k][2] : k \in 1..n}
    BY <2>4, <2>5
  <2> QED
    BY <2>1, <2>3, <2>6
<1> QED
  BY <1>4, <1>6, <1>7, <1>8, <1>9

(***************************************************************************)
(* The main page finds the numerals of a segment, and the detail page as   *)
(* many unless the key ends in a mark.                                     *)
(***************************************************************************)
LEMMA SegmentSpots ==
    ASSUME NEW G, Group(G), NEW key \in Seq(Token), NEW e, e = Segment(key, SetToSeq(G))
    PROVE  /\ SpotCount(e) = Cardinality(G)
           /\ Range(SpotsIn(e)) = {<<s[2]>> : s \in G}
           /\ Clean(key, Arrow) => DetailCount(e) = Cardinality(G)
<1> DEFINE n == Cardinality(G)
<1> DEFINE f == SetToSeq(G)
<1> DEFINE l == NumList(f)
<1> DEFINE p == Split(l, <<Comma>>)
<1>1. /\ n \in Nat \ {0} /\ {f[k][2] : k \in 1..n} = {s[2] : s \in G}
  BY GroupListed
<1>2. p \in Seq(Seq(Token)) /\ Len(p) = n /\ \A k \in 1..n : Trim(p[k]) = <<f[k][2]>>
  BY NumListRead
<1>3. l = NumList(SetToSeq(G))
  OBVIOUS
<1> HIDE DEF l
<1>4. /\ Found(e, SpotLabel) # {} /\ e # Unassigned /\ Trim(e) # Unassigned
      /\ Clean(key, Arrow) => Last(Split(e, Arrow)) = Glue(SpotLabel, l)
      /\ Last(Split(e, SpotLabel)) = l
  BY <1>3, SegmentRead
<1> DEFINE part == Glue(SpotLabel, l)
<1>5. /\ Trim(part) = part /\ IsPrefix(SpotLabel, part)
      /\ Strip(part, SpotLabel) = l
  BY <1>3, SpotPartRead
<1> HIDE DEF part
<1>6. SpotsIn(e) = [k \in {k \in DOMAIN p : Trim(p[k]) # <<>>} |-> Trim(p[k])]
  BY <1>4 DEF SpotsIn
<1>7. Clean(key, Arrow) => DetailCount(e) = Len(p)
  BY <1>4, <1>5 DEF DetailCount, part
<1> HIDE DEF p, f, n
<1>8. {k \in DOMAIN p : Trim(p[k]) # <<>>} = 1..n
  <2>1. DOMAIN p = 1..n
    BY <1>2
  <2>2. \A k \in 1..n : Trim(p[k]) # <<>>
    <3>1. ASSUME NEW k \in 1..n PROVE Trim(p[k]) # <<>>
      <4>1. Trim(p[k]) = <<f[k][2]>>
        BY <1>2
      <4> QED
        BY <4>1
    <3> QED
      BY <3>1
  <2> QED
    BY <2>1, <2>2
<1> DEFINE S == SpotsIn(e)
<1>9. DOMAIN S = 1..n /\ \A k \in 1..n : S[k] = <<f[k][2]>>
  BY <1>2, <1>6, <1>8
<1> HIDE DEF S
<1>10. Range(S) = {<<s[2]>> : s \in G}
  <2>1. Range(S) = {<<f[k][2]>> : k \in 1..n}
    BY <1>9 DEF Range
  <2>2. {<<f[k][2]>> : k \in 1..n} = {<<x>> : x \in {f[k][2] : k \in 1..n}}
    OBVIOUS
  <2>3. {<<s[2]>> : s \in G} = {<<x>> : x \in {s[2] : s \in G}}
    OBVIOUS
  <2> QED
    BY <1>1, <2>1, <2>2, <2>3
<1>11. SpotCount(e) = n
  <2>1. SpotCount(e) = Cardinality(1..n)
    BY <1>9 DEF SpotCount, S
  <2>2. IsFiniteSet(1..n) /\ Cardinality(1..n) = IF 1 > n THEN 0 ELSE n - 1 + 1
    <3>1. 1 \in Int /\ n \in Int
      BY <1>1
    <3> QED
      BY <3>1, FS_Interval
  <2> QED
    BY <1>1, <2>1, <2>2
<1> QED
  BY <1>2, <1>7, <1>10, <1>11 DEF S, n

(***************************************************************************)
(* The rest of the bottles has a segment without spots.                    *)
(***************************************************************************)
LEMMA UnassignedRead ==
    /\ Unassigned \in Seq(Token) /\ Unassigned # <<>> /\ Trim(Unassigned) = Unassigned
    /\ Unassigned[Len(Unassigned)] \in Token \ {Semi} /\ ~Alone(Unassigned, Semi)
    /\ Found(Unassigned, SpotLabel) = {}
    /\ SpotCount(Unassigned) = 0 /\ Range(SpotsIn(Unassigned)) = {}
    /\ DetailCount(Unassigned) = 0
<1> DEFINE w == "Unassigned"
<1>1. \A m \in Marks : m # w
  BY TokensDiffer
<1>2. w \in Token /\ w # Semi /\ w # Blank /\ w # SpotWord
  BY <1>1 DEF Token, Marks
<1>3. Unassigned = <<w>>
  BY DEF Unassigned
<1> HIDE DEF w, Token
<1> DEFINE u == Unassigned
<1>4. u \in Seq(Token) /\ u # <<>> /\ Len(u) = 1 /\ u[1] = w
  BY <1>2, <1>3
<1> HIDE DEF u
<1>5. u[Len(u)] \in Token \ {Semi} /\ ~Alone(u, Semi)
  <2>1. \A i \in 1..Len(u) : u[i] # Semi
    BY <1>2, <1>4
  <2>2. ~Alone(u, Semi)
    BY <2>1, AloneNone
  <2> QED
    BY <1>2, <1>4, <2>2
<1>6. Found(u, SpotLabel) = {}
  <2> DEFINE b == SpotLabel
  <2>1. b \in Seq(Token) /\ 1 \in 1..Len(b) /\ b[1] = SpotWord
    BY Separators
  <2> HIDE DEF b
  <2>2. \A i \in 1..Len(u) : u[i] # b[1]
    BY <1>2, <1>4, <2>1
  <2>3. u \in Seq(Token) /\ b \in Seq(Token)
    BY <1>4, <2>1
  <2>4. Found(u, b) = {}
    BY <2>1, <2>2, <2>3, FoundNone
  <2> QED
    BY <2>4 DEF b
<1>7. SpotsIn(Unassigned) = <<>>
  BY DEF SpotsIn
<1>8. SpotCount(Unassigned) = 0 /\ Range(SpotsIn(Unassigned)) = {}
  <2>1. DOMAIN SpotsIn(Unassigned) = {}
    BY <1>7
  <2> QED
    BY <2>1, FS_EmptySet DEF SpotCount, Range
<1>9. Trim(Unassigned) = Unassigned
  BY <1>2, <1>3, TrimNumeral
<1>10. DetailCount(Unassigned) = 0
  BY <1>9 DEF DetailCount
<1> QED
  BY <1>4, <1>5, <1>6, <1>8, <1>9, <1>10 DEF u

-----------------------------------------------------------------------------
(* The states                                                              *)

LocTypeOK ==
    /\ cabinetOf \in [Shelf -> {1, 2}]
    /\ cabinet \in [{1, 2} -> Name]
    /\ shelf \in [Shelf -> Name]
    /\ held \in SUBSET Spot
    /\ quantity \in Nat \ {0}
    /\ writer \in {"repository", "dialog", "dialogUnassigned"}

(***************************************************************************)
(* The variables keep their types.                                         *)
(***************************************************************************)
THEOREM LocationTyped == LocSpec => []LocTypeOK
<1>1. LocInit => LocTypeOK
  BY DEF LocInit, LocTypeOK
<1>2. LocTypeOK /\ [LocNext]_locVars => LocTypeOK'
  <2> SUFFICES ASSUME LocTypeOK, [LocNext]_locVars PROVE LocTypeOK'
    OBVIOUS
  <2>1. ASSUME NEW s \in Spot, Place(s) PROVE LocTypeOK'
    BY <2>1 DEF Place, LocTypeOK
  <2>2. ASSUME NEW s \in Spot, NEW u \in BOOLEAN, TakeOff(s, u) PROVE LocTypeOK'
    BY <2>2 DEF TakeOff, LocTypeOK
  <2>3. ASSUME NEW n \in 1..MaxQuantity, SetQuantity(n) PROVE LocTypeOK'
    BY <2>3, LocationAssumption DEF SetQuantity, LocTypeOK
  <2>4. CASE UNCHANGED locVars
    BY <2>4 DEF locVars, LocTypeOK
  <2> QED
    BY <2>1, <2>2, <2>3, <2>4 DEF LocNext
<1> QED
  BY <1>1, <1>2, PTL DEF LocSpec

(***************************************************************************)
(* The positions of a wine are finitely many.                              *)
(***************************************************************************)
LEMMA HeldFinite ==
    ASSUME LocTypeOK
    PROVE  IsFiniteSet(held) /\ Cardinality(held) \in Nat
<1>1. IsFiniteSet(Spot)
  BY LocationAssumption, FS_Product DEF Spot
<1>2. IsFiniteSet(held)
  BY <1>1, FS_Subset DEF LocTypeOK
<1> QED
  BY <1>2, FS_CardinalityType

(***************************************************************************)
(* The keys are strings of characters.                                     *)
(***************************************************************************)
LEMMA KeyType ==
    ASSUME LocTypeOK, NEW sh \in Shelf
    PROVE  /\ cabinet[cabinetOf[sh]] \in Seq(Token) /\ cabinet[cabinetOf[sh]] # <<>>
           /\ shelf[sh] \in Seq(Token) /\ shelf[sh] # <<>>
           /\ cabinet[cabinetOf[sh]] \in Names /\ shelf[sh] \in Names
           /\ Key(sh) = After(cabinet[cabinetOf[sh]], Arrow, shelf[sh])
           /\ Key(sh) \in Seq(Token) /\ Key(sh) # <<>>
           /\ Key(sh)[1] = cabinet[cabinetOf[sh]][1]
<1> DEFINE c == cabinet[cabinetOf[sh]]
<1> DEFINE d == shelf[sh]
<1>1. c \in Name /\ d \in Name /\ c \in Names /\ d \in Names
  BY DEF LocTypeOK, Names
<1>2. Name \subseteq Seq(Token) /\ <<>> \notin Name
  <2>1. STRING \subseteq Token
    BY DEF Token
  <2>2. Seq(STRING) \subseteq Seq(Token)
    BY <2>1, SeqMonotonic
  <2> QED
    BY <2>2, LocationAssumption
<1>3. Key(sh) = After(c, Arrow, d)
  BY DEF Key, After
<1>4. c \in Seq(Token) /\ c # <<>> /\ d \in Seq(Token) /\ d # <<>> /\ Arrow \in Seq(Token)
  BY <1>1, <1>2, Separators
<1> HIDE DEF c, d, Token
<1> DEFINE a == Arrow
<1> DEFINE e == After(c, a, d)
<1>5. a \in Seq(Token) /\ 1 \in 1..Len(c)
  BY <1>4
<1> HIDE DEF a
<1>6. e \in Seq(Token)
  BY <1>4, <1>5, AfterTokens
<1>7. Len(e) = Len(c) + Len(a) + Len(d)
  BY <1>4, <1>5, AfterTokens
<1>8. \A i \in 1..Len(c) : e[i] = c[i]
  BY <1>4, <1>5, AfterTokens
<1> HIDE DEF e
<1>9. e # <<>> /\ e[1] = c[1]
  <2>1. Len(a) \in Nat /\ Len(d) \in Nat /\ Len(c) \in Nat /\ Len(c) >= 1
    BY <1>4, <1>5
  <2>2. Len(e) >= 1
    BY <1>7, <2>1
  <2> QED
    BY <1>5, <1>8, <2>2
<1> QED
  BY <1>1, <1>3, <1>4, <1>6, <1>9 DEF c, d, e, a

(***************************************************************************)
(* What the condition on names says of the mark of the separator.          *)
(***************************************************************************)
LEMMA NameFree ==
    ASSUME NEW m \in Token, NEW name \in Names, name \in Seq(Token), Without(Sep(m))
    PROVE  ~Alone(name, m)
<1> SUFFICES ASSUME NEW j \in 1..Len(name), name[j] = m, j > 1 => name[j - 1] = Blank,
                    j < Len(name) => name[j + 1] = Blank
             PROVE  FALSE
  BY DEF Alone
<1>1. Found(Padded(name), Sep(m)) = {}
  BY DEF Without
<1>2. name \in Seq(Token)
  OBVIOUS
<1> HIDE DEF Token
<1>3. j + 2 \in Found(Padded(name), Sep(m))
  BY <1>2, AlonePadded
<1> QED
  BY <1>1, <1>3

(***************************************************************************)
(* Keys of names without ; as a word do not have it either.                *)
(***************************************************************************)
LEMMA KeyFree ==
    ASSUME LocTypeOK, NEW sh \in Shelf, Without(Semicolon)
    PROVE  ~Alone(Key(sh), Semi)
<1> DEFINE c == cabinet[cabinetOf[sh]]
<1> DEFINE d == shelf[sh]
<1>1. c \in Seq(Token) /\ d \in Seq(Token) /\ c \in Names /\ d \in Names
  BY KeyType
<1>2. Key(sh) = After(c, Sep(Greater), d)
  BY KeyType, Separators
<1>3. Without(Sep(Semi))
  BY Separators
<1>4. Semi \in Token /\ Greater \in Token /\ Semi # Greater /\ Semi # Blank
  BY TokenFacts, TokensDiffer
<1> HIDE DEF c, d, Token
<1>5. ~Alone(c, Semi) /\ ~Alone(d, Semi)
  BY <1>1, <1>3, <1>4, NameFree
<1>6. c \in Seq(Token) /\ d \in Seq(Token)
  BY <1>1
<1>7. ~Alone(After(c, Sep(Greater), d), Semi)
  BY <1>4, <1>5, <1>6, AloneAfter
<1> QED
  BY <1>2, <1>7

(***************************************************************************)
(* A string of names is clean when its last name does not end in the mark. *)
(***************************************************************************)
LEMMA NameClean ==
    ASSUME NEW d \in Seq(Token), ~EndsIn(d, Arrow)
    PROVE  ~(d # <<>> /\ d[Len(d)] = Greater /\ (Len(d) > 1 => d[Len(d) - 1] = Blank))
<1> SUFFICES ASSUME d # <<>>, d[Len(d)] = Greater, Len(d) > 1 => d[Len(d) - 1] = Blank
             PROVE  FALSE
  OBVIOUS
<1>1. Greater \in Token /\ Arrow = Sep(Greater)
  BY TokenFacts, Separators
<1> HIDE DEF Token
<1> DEFINE j == Len(d)
<1>2. j \in 1..Len(d) /\ d[j] = Greater /\ (j > 1 => d[j - 1] = Blank) /\ ~(j < Len(d))
  OBVIOUS
<1> HIDE DEF j
<1>3. j + 2 \in Found(Padded(d), Sep(Greater))
  BY <1>1, <1>2, AlonePadded
<1> QED
  BY <1>1, <1>3 DEF j, EndsIn

(***************************************************************************)
(* A key is clean unless the name of the shelf ends in > as a word.        *)
(***************************************************************************)
LEMMA KeyClean ==
    ASSUME LocTypeOK, NEW sh \in Shelf, ~EndsIn(shelf[sh], Arrow)
    PROVE  Clean(Key(sh), Arrow)
<1> DEFINE c == cabinet[cabinetOf[sh]]
<1> DEFINE d == shelf[sh]
<1> DEFINE e == Key(sh)
<1> DEFINE a == Arrow
<1>1. c \in Seq(Token) /\ d \in Seq(Token) /\ d # <<>> /\ e \in Seq(Token)
  BY KeyType
<1>2. e = After(c, a, d)
  BY KeyType
<1>3. a \in Seq(Token) /\ a = Sep(Greater)
  BY Separators
<1>4. Greater \in Token /\ Greater # Blank
  BY TokenFacts, TokensDiffer
<1>5. ~(d # <<>> /\ d[Len(d)] = Greater /\ (Len(d) > 1 => d[Len(d) - 1] = Blank))
  BY <1>1, NameClean
<1> HIDE DEF c, d, e, a, Token
<1> DEFINE x == Len(c) + Len(a)
<1> DEFINE r == Len(d)
<1>6. Len(e) = x + r
  <2>1. Len(After(c, a, d)) = Len(c) + Len(a) + Len(d)
    BY <1>1, <1>3, AfterTokens
  <2> QED
    BY <1>2, <2>1
<1>7. \A i \in 1..r : e[x + i] = d[i]
  <2>1. a \in Seq(Token) /\ c \in Seq(Token) /\ d \in Seq(Token)
    BY <1>1, <1>3
  <2>2. \A i \in 1..Len(d) : After(c, a, d)[Len(c) + Len(a) + i] = d[i]
    BY <2>1, AfterTokens
  <2> QED
    BY <1>2, <2>2
<1>8. x \in Nat /\ r \in Nat /\ r >= 1
  BY <1>1, <1>3
<1> HIDE DEF x
<1>9. ASSUME Len(e) >= 2, e[Len(e)] = Greater, e[Len(e) - 1] = Blank PROVE FALSE
  <2>1. d[r] = Greater
    <3>1. r \in 1..r
      BY <1>8
    <3> QED
      BY <1>6, <1>7, <1>9, <3>1
  <2>2. ASSUME r > 1 PROVE d[r - 1] = Blank
    <3>1. r - 1 \in 1..r /\ x + (r - 1) = Len(e) - 1
      BY <1>6, <1>8, <2>2
    <3>2. e[x + (r - 1)] = d[r - 1]
      BY <1>7, <3>1
    <3> QED
      BY <1>9, <3>1, <3>2
  <2> QED
    BY <1>1, <1>5, <2>1, <2>2
<1>10. Clean(e, Sep(Greater))
  <2>1. e \in Seq(Token)
    BY <1>1
  <2> QED
    BY <1>4, <1>9, <2>1, CleanMark
<1> QED
  BY <1>3, <1>10 DEF e, a

(***************************************************************************)
(* A name without > as a word does not end in it.                          *)
(***************************************************************************)
LEMMA NameArrow ==
    ASSUME NEW name \in Names, name \in Seq(Token), Without(Arrow)
    PROVE  /\ ~EndsIn(name, Arrow) /\ Found(name, Arrow) = {} /\ Clean(name, Arrow)
<1>1. Found(Padded(name), Arrow) = {}
  BY DEF Without
<1>2. ~EndsIn(name, Arrow)
  BY <1>1 DEF EndsIn
<1>3. Greater \in Token /\ Greater # Blank /\ Arrow = Sep(Greater)
  BY TokenFacts, TokensDiffer, Separators
<1>4. name \in Seq(Token)
  OBVIOUS
<1>5. ~(name # <<>> /\ name[Len(name)] = Greater /\ (Len(name) > 1 => name[Len(name) - 1] = Blank))
  BY <1>2, <1>4, NameClean
<1> HIDE DEF Token
<1>6. ~Alone(name, Greater)
  BY <1>3, <1>4, NameFree
<1>7. Found(name, Sep(Greater)) = {}
  BY <1>3, <1>4, <1>6, AloneFree
<1>8. Clean(name, Sep(Greater))
  <2>1. ~(Len(name) >= 2 /\ name[Len(name)] = Greater /\ name[Len(name) - 1] = Blank)
    BY <1>4, <1>5
  <2> QED
    BY <1>3, <1>4, <2>1, CleanMark
<1> QED
  BY <1>2, <1>3, <1>7, <1>8

(***************************************************************************)
(* A second element appended.                                              *)
(***************************************************************************)
LEMMA AppendSecond ==
    ASSUME NEW V, NEW c \in V, NEW d \in V
    PROVE  Append(<<c>>, d) = <<c, d>>
<1> DEFINE s == Append(<<c>>, d)
<1> DEFINE t == <<c, d>>
<1>1. s \in Seq(V) /\ Len(s) = 2 /\ s[1] = c /\ s[2] = d
  OBVIOUS
<1>2. t \in Seq(V) /\ Len(t) = 2 /\ t[1] = c /\ t[2] = d
  OBVIOUS
<1> HIDE DEF s, t
<1>3. s = t
  BY <1>1, <1>2, SeqEqual
<1> QED
  BY <1>3 DEF s, t

(***************************************************************************)
(* A key of names without > as a word has two parts.                       *)
(***************************************************************************)
LEMMA KeyParts ==
    ASSUME LocTypeOK, NEW sh \in Shelf, Without(Arrow)
    PROVE  /\ Split(Key(sh), Arrow) = <<cabinet[cabinetOf[sh]], shelf[sh]>>
           /\ Clean(Key(sh), Arrow)
<1> DEFINE c == cabinet[cabinetOf[sh]]
<1> DEFINE d == shelf[sh]
<1> DEFINE a == Arrow
<1>1. c \in Seq(Token) /\ d \in Seq(Token) /\ c \in Names /\ d \in Names
  BY KeyType
<1>2. Key(sh) = After(c, a, d)
  BY KeyType
<1>3. a \in Seq(Token) /\ a # <<>>
  BY Separators
<1>4. ~EndsIn(d, Arrow) /\ Found(d, a) = {} /\ Found(c, a) = {} /\ Clean(c, a)
  BY <1>1, NameArrow
<1>5. Clean(Key(sh), Arrow)
  BY <1>4, KeyClean
<1> HIDE DEF c, d, a, Token
<1>6. Split(c, a) = <<c>>
  BY <1>1, <1>3, <1>4, SplitFree
<1>7. Split(After(c, a, d), a) = Append(Split(c, a), d)
  BY <1>1, <1>3, <1>4, SplitAppend
<1>8. Append(<<c>>, d) = <<c, d>>
  BY <1>1, AppendSecond
<1> QED
  BY <1>2, <1>5, <1>6, <1>7, <1>8 DEF c, d, a

-----------------------------------------------------------------------------
(* What the writers write                                                  *)

Share(g, k) == {s \in held : g[s] = k}

(* A segment for each group of positions under one key, and the rest.      *)
Shape(n, g, L) ==
    /\ n \in Nat /\ g \in [held -> 1..n]
    /\ L \in Seq(Seq(Token)) /\ Len(L) \in {n, n + 1} /\ Len(L) > 0
    /\ \A k \in 1..n : \E s \in held :
          /\ g[s] = k /\ L[k] = Segment(Key(s[1]), SetToSeq(Share(g, k)))
          /\ \A t \in held : g[t] = k => Key(t[1]) = Key(s[1])
    /\ Len(L) = n + 1 => L[n + 1] = Unassigned
    /\ Len(L) = n => Cardinality(held) >= quantity

(***************************************************************************)
(* Each group is one the lemmas on segments speak of.                      *)
(***************************************************************************)
LEMMA ShareGroup ==
    ASSUME LocTypeOK, NEW g, NEW s \in held
    PROVE  /\ Group(Share(g, g[s])) /\ s[1] \in Shelf /\ s[2] \in Index
<1>1. s \in Share(g, g[s]) /\ Share(g, g[s]) \subseteq held /\ held \subseteq Spot
  BY DEF Share, LocTypeOK
<1>2. IsFiniteSet(held)
  BY HeldFinite
<1>3. IsFiniteSet(Share(g, g[s]))
  BY <1>1, <1>2, FS_Subset
<1>4. s[1] \in Shelf /\ s[2] \in Index
  BY <1>1 DEF Spot
<1> QED
  BY <1>1, <1>3, <1>4 DEF Group

(* No shelf has a name that makes a separator with the text after it.      *)
ShelvesClean == \A sh \in Shelf : ~EndsIn(shelf[sh], Arrow)

(***************************************************************************)
(* What a segment of the string is, and what the readers make of it.       *)
(***************************************************************************)
LEMMA ShapeRead ==
    ASSUME LocTypeOK, NEW n, NEW g, NEW L, Shape(n, g, L), NEW k \in 1..n
    PROVE  /\ L[k] \in Seq(Token) /\ L[k] # <<>> /\ L[k][Len(L[k])] \in Token \ {Semi}
           /\ Without(Semicolon) => ~Alone(L[k], Semi)
           /\ SpotCount(L[k]) = Cardinality(Share(g, k))
           /\ ShelvesClean => DetailCount(L[k]) = Cardinality(Share(g, k))
           /\ Cardinality(Share(g, k)) \in Nat \ {0}
<1>1. PICK s \in held : g[s] = k /\ L[k] = Segment(Key(s[1]), SetToSeq(Share(g, k)))
  BY DEF Shape
<1> DEFINE G == Share(g, k)
<1> DEFINE key == Key(s[1])
<1> DEFINE e == L[k]
<1>2. Group(G) /\ s[1] \in Shelf
  BY <1>1, ShareGroup
<1>3. key \in Seq(Token)
  BY <1>2, KeyType
<1>4. Without(Semicolon) => ~Alone(key, Semi)
  BY <1>2, KeyFree
<1>5. ShelvesClean => Clean(key, Arrow)
  BY <1>2, KeyClean DEF ShelvesClean
<1>6. e = Segment(key, SetToSeq(G))
  BY <1>1
<1> HIDE DEF G, key, e
<1>7. /\ e \in Seq(Token) /\ e # <<>> /\ e[Len(e)] # Semi
      /\ ~Alone(key, Semi) => ~Alone(e, Semi)
  BY <1>2, <1>3, <1>6, SegmentRead
<1>8. SpotCount(e) = Cardinality(G) /\ (Clean(key, Arrow) => DetailCount(e) = Cardinality(G))
  BY <1>2, <1>3, <1>6, SegmentSpots
<1>9. Cardinality(G) \in Nat \ {0}
  BY <1>2, GroupListed
<1>10. e[Len(e)] \in Token \ {Semi}
  <2> HIDE DEF Token
  <2>1. Len(e) \in 1..Len(e)
    BY <1>7
  <2>2. e[Len(e)] \in Token
    BY <1>7, <2>1
  <2> QED
    BY <1>7, <2>2
<1> QED
  BY <1>4, <1>5, <1>7, <1>8, <1>9, <1>10 DEF G, e

Written(parts, rest) == parts \o rest

(***************************************************************************)
(* Positions grouped by any h, under keys that agree with their shelves,   *)
(* give a string of that shape.                                            *)
(***************************************************************************)
LEMMA Grouped ==
    ASSUME LocTypeOK, NEW K, NEW h \in [held -> K], \A x \in K : \E s \in held : h[s] = x,
           NEW key, \A s \in held : key[h[s]] = Key(s[1]),
           NEW rest \in {<<>>, <<Unassigned>>}, rest = <<>> => Cardinality(held) >= quantity,
           NEW parts, DOMAIN parts = DOMAIN SetToSeq(K),
           parts = [k \in DOMAIN parts |-> parts[k]],
           \A k \in DOMAIN parts :
              parts[k] = Segment(key[SetToSeq(K)[k]], SetToSeq({s \in held : h[s] = SetToSeq(K)[k]}))
    PROVE  \E n, g : Shape(n, g, Written(parts, rest))
<1> DEFINE n == Cardinality(K)
<1> DEFINE f == SetToSeq(K)
<1>1. IsFiniteSet(held)
  BY HeldFinite
<1>2. IsFiniteSet(K)
  <2>1. h \in Surjection(held, K)
    BY DEF Surjection
  <2> QED
    BY <1>1, <2>1, FS_Surjection
<1>3. n \in Nat
  BY <1>2, FS_CardinalityType
<1>4. /\ f \in [1..n -> K] /\ \A i, k \in 1..n : f[i] = f[k] => i = k
      /\ \A x \in K : \E i \in 1..n : f[i] = x
  BY <1>2, Listed
<1> HIDE DEF n, f
<1> DEFINE g == [s \in held |-> CHOOSE k \in 1..n : f[k] = h[s]]
<1>5. g \in [held -> 1..n] /\ \A s \in held : f[g[s]] = h[s]
  BY <1>4
<1> HIDE DEF g
<1>6. \A s \in held : \A k \in 1..n : g[s] = k <=> h[s] = f[k]
  BY <1>4, <1>5
<1>7. \A k \in 1..n : {s \in held : h[s] = f[k]} = Share(g, k)
  BY <1>6 DEF Share
<1>8. ASSUME NEW k \in 1..n
      PROVE  /\ parts[k] \in Seq(Token)
             /\ \E s \in held :
                   /\ g[s] = k /\ parts[k] = Segment(Key(s[1]), SetToSeq(Share(g, k)))
                   /\ \A t \in held : g[t] = k => Key(t[1]) = Key(s[1])
  <2>1. PICK s \in held : h[s] = f[k]
    BY <1>4
  <2>2. g[s] = k
    BY <1>6, <2>1
  <2>3. \A t \in held : g[t] = k => Key(t[1]) = Key(s[1])
    <3>1. \A t \in held : g[t] = k => h[t] = h[s]
      BY <1>6, <2>1
    <3>2. \A t \in held : h[t] = h[s] => key[h[t]] = key[h[s]]
      OBVIOUS
    <3>3. key[h[s]] = Key(s[1]) /\ \A t \in held : key[h[t]] = Key(t[1])
      OBVIOUS
    <3> QED
      BY <3>1, <3>2, <3>3
  <2>4. parts[k] = Segment(Key(s[1]), SetToSeq(Share(g, k)))
    <3>1. k \in DOMAIN parts
      BY <1>4 DEF f
    <3>2. parts[k] = Segment(key[f[k]], SetToSeq({t \in held : h[t] = f[k]}))
      BY <3>1 DEF f
    <3>3. key[f[k]] = Key(s[1])
      BY <2>1
    <3>4. {t \in held : h[t] = f[k]} = Share(g, k)
      BY <1>7
    <3> QED
      BY <3>2, <3>3, <3>4
  <2>5. Group(Share(g, k)) /\ s[1] \in Shelf
    BY <2>2, ShareGroup
  <2>6. Key(s[1]) \in Seq(Token)
    BY <2>5, KeyType
  <2> DEFINE q == Key(s[1])
  <2> DEFINE S == Share(g, k)
  <2> DEFINE p == parts[k]
  <2> DEFINE l == NumList(SetToSeq(S))
  <2>7. q \in Seq(Token) /\ Group(S) /\ p = Segment(q, SetToSeq(S)) /\ l = NumList(SetToSeq(S))
    BY <2>4, <2>5, <2>6
  <2> HIDE DEF q, S, p, l
  <2>8. p \in Seq(Token)
    BY <2>7, SegmentRead
  <2> QED
    BY <2>2, <2>3, <2>4, <2>8 DEF p
<1>9. parts \in Seq(Seq(Token)) /\ Len(parts) = n
  <2>1. DOMAIN parts = 1..n
    BY <1>4 DEF f
  <2>2. \A k \in 1..n : parts[k] \in Seq(Token)
    BY <1>8
  <2> DEFINE V == Seq(Token)
  <2> HIDE DEF V
  <2>3. parts \in [1..n -> V]
    BY <2>1, <2>2 DEF V
  <2>4. parts \in Seq(V) /\ Len(parts) = n
    BY <1>3, <2>3
  <2> QED
    BY <2>4 DEF V
<1> DEFINE L == parts \o rest
<1>10. /\ L \in Seq(Seq(Token)) /\ Len(L) \in {n, n + 1}
       /\ \A k \in 1..n : L[k] = parts[k]
       /\ Len(L) = n + 1 => L[n + 1] = Unassigned
       /\ Len(L) = n => rest = <<>>
  <2> DEFINE V == Seq(Token)
  <2>1. parts \in Seq(V) /\ Unassigned \in V
    BY <1>9, UnassignedRead
  <2> HIDE DEF V
  <2>2. CASE rest = <<>>
    <3>1. L = parts
      BY <2>1, <2>2
    <3> QED
      BY <1>3, <1>9, <2>1, <2>2, <3>1 DEF V
  <2>3. CASE rest = <<Unassigned>>
    <3> DEFINE u == Unassigned
    <3>1. u \in V
      BY <2>1
    <3> HIDE DEF u
    <3> DEFINE M == parts \o <<u>>
    <3>2. /\ M \in Seq(V) /\ Len(M) = n + 1 /\ M[n + 1] = u
          /\ \A k \in 1..n : M[k] = parts[k]
      BY <1>3, <1>9, <2>1, <3>1
    <3>3. L = M
      BY <2>3 DEF u
    <3> HIDE DEF L, M
    <3> QED
      BY <1>3, <3>2, <3>3 DEF V, u
  <2> QED
    BY <2>2, <2>3
<1>11. Len(L) > 0
  <2>1. CASE rest = <<>>
    <3>1. Cardinality(held) > 0
      BY <2>1, HeldFinite DEF LocTypeOK
    <3>2. held # {}
      BY <3>1, FS_EmptySet
    <3>3. n > 0
      BY <1>3, <1>5, <3>2
    <3> HIDE DEF L
    <3> QED
      BY <1>3, <1>10, <3>3
  <2>2. CASE rest = <<Unassigned>>
    <3>1. rest # <<>>
      BY <2>2
    <3> HIDE DEF L
    <3> QED
      BY <1>3, <1>10, <3>1
  <2> QED
    BY <2>1, <2>2
<1> HIDE DEF L
<1>12. ASSUME NEW k \in 1..n
       PROVE  \E s \in held :
                 /\ g[s] = k /\ L[k] = Segment(Key(s[1]), SetToSeq(Share(g, k)))
                 /\ \A t \in held : g[t] = k => Key(t[1]) = Key(s[1])
  <2>1. L[k] = parts[k]
    BY <1>10
  <2> QED
    BY <1>8, <2>1
<1>13. Shape(n, g, L)
  BY <1>3, <1>5, <1>10, <1>11, <1>12 DEF Shape
<1> QED
  BY <1>13 DEF L, Written

(***************************************************************************)
(* Whoever writes the string, it is a string of that shape joined, or      *)
(* empty when the wine has no position.                                    *)
(***************************************************************************)
LEMMA LocationJoined ==
    ASSUME LocTypeOK
    PROVE  \/ held = {} /\ Location = <<>>
           \/ \E n, g, L : Shape(n, g, L) /\ Location = Join(L, Semicolon)
<1>1. CASE writer = "repository"
  <2> DEFINE h == [s \in held |-> Key(s[1])]
  <2> DEFINE K == {Key(s[1]) : s \in held}
  <2> DEFINE key == [x \in K |-> x]
  <2> DEFINE keys == SetToSeq(K)
  <2> DEFINE parts == [k \in DOMAIN keys |->
                         Segment(keys[k], SetToSeq({s \in held : Key(s[1]) = keys[k]}))]
  <2> DEFINE rest == IF Cardinality(held) < quantity THEN <<Unassigned>> ELSE <<>>
  <2>1. Location = IF held = {} THEN <<>> ELSE Join(parts \o rest, Semicolon)
    BY <1>1 DEF Location, LocalLocation
  <2>2. /\ h \in [held -> K] /\ (\A x \in K : \E s \in held : h[s] = x)
        /\ \A s \in held : key[h[s]] = Key(s[1])
    OBVIOUS
  <2>3. rest \in {<<>>, <<Unassigned>>} /\ (rest = <<>> => Cardinality(held) >= quantity)
    BY HeldFinite DEF LocTypeOK
  <2>4. ASSUME NEW k \in DOMAIN keys
        PROVE  parts[k] = Segment(key[keys[k]], SetToSeq({s \in held : h[s] = keys[k]}))
    <3>1. keys \in [DOMAIN keys -> K]
      <4>1. h \in Surjection(held, K)
        BY <2>2 DEF Surjection
      <4>2. IsFiniteSet(K)
        BY <4>1, HeldFinite, FS_Surjection
      <4> QED
        BY <4>2, Listed
    <3>2. key[keys[k]] = keys[k]
      BY <3>1
    <3>3. {s \in held : h[s] = keys[k]} = {s \in held : Key(s[1]) = keys[k]}
      OBVIOUS
    <3>4. parts[k] = Segment(keys[k], SetToSeq({s \in held : Key(s[1]) = keys[k]}))
      OBVIOUS
    <3> QED
      BY <3>2, <3>3, <3>4
  <2>5. DOMAIN parts = DOMAIN keys /\ parts = [k \in DOMAIN parts |-> parts[k]]
    OBVIOUS
  <2> HIDE DEF h, key, parts, rest, K
  <2>6. \A k \in DOMAIN parts :
           parts[k] = Segment(key[SetToSeq(K)[k]], SetToSeq({s \in held : h[s] = SetToSeq(K)[k]}))
    BY <2>4, <2>5
  <2> HIDE DEF keys
  <2>7. \E n, g : Shape(n, g, Written(parts, rest))
    BY <2>2, <2>3, <2>5, <2>6, Grouped DEF keys
  <2> QED
    BY <2>1, <2>7 DEF Written
<1>2. ASSUME NEW u \in BOOLEAN, Location = DialogLocation(u)
      PROVE  \E n, g, L : Shape(n, g, L) /\ Location = Join(L, Semicolon)
  <2> DEFINE h == [s \in held |-> s[1]]
  <2> DEFINE K == {s[1] : s \in held}
  <2> DEFINE key == [x \in K |-> Key(x)]
  <2> DEFINE keys == SetToSeq(K)
  <2> DEFINE parts == [k \in DOMAIN keys |->
                         Segment(Key(keys[k]), SetToSeq({s \in held : s[1] = keys[k]}))]
  <2> DEFINE rest == IF u \/ Cardinality(held) < quantity THEN <<Unassigned>> ELSE <<>>
  <2>1. Location = Join(parts \o rest, Semicolon)
    BY <1>2 DEF DialogLocation
  <2>2. /\ h \in [held -> K] /\ (\A x \in K : \E s \in held : h[s] = x)
        /\ \A s \in held : key[h[s]] = Key(s[1])
    OBVIOUS
  <2>3. rest \in {<<>>, <<Unassigned>>} /\ (rest = <<>> => Cardinality(held) >= quantity)
    BY HeldFinite DEF LocTypeOK
  <2>4. ASSUME NEW k \in DOMAIN keys
        PROVE  parts[k] = Segment(key[keys[k]], SetToSeq({s \in held : h[s] = keys[k]}))
    <3>1. keys \in [DOMAIN keys -> K]
      <4>1. h \in Surjection(held, K)
        BY <2>2 DEF Surjection
      <4>2. IsFiniteSet(K)
        BY <4>1, HeldFinite, FS_Surjection
      <4> QED
        BY <4>2, Listed
    <3>2. key[keys[k]] = Key(keys[k])
      BY <3>1
    <3>3. {s \in held : h[s] = keys[k]} = {s \in held : s[1] = keys[k]}
      OBVIOUS
    <3>4. parts[k] = Segment(Key(keys[k]), SetToSeq({s \in held : s[1] = keys[k]}))
      OBVIOUS
    <3> QED
      BY <3>2, <3>3, <3>4
  <2>5. DOMAIN parts = DOMAIN keys /\ parts = [k \in DOMAIN parts |-> parts[k]]
    OBVIOUS
  <2> HIDE DEF h, key, parts, rest, K
  <2>6. \A k \in DOMAIN parts :
           parts[k] = Segment(key[SetToSeq(K)[k]], SetToSeq({s \in held : h[s] = SetToSeq(K)[k]}))
    BY <2>4, <2>5
  <2> HIDE DEF keys
  <2>7. \E n, g : Shape(n, g, Written(parts, rest))
    BY <2>2, <2>3, <2>5, <2>6, Grouped DEF keys
  <2> QED
    BY <2>1, <2>7 DEF Written
<1>3. CASE writer = "dialog"
  BY <1>2, <1>3 DEF Location
<1>4. CASE writer = "dialogUnassigned"
  BY <1>2, <1>4 DEF Location
<1> QED
  BY <1>1, <1>3, <1>4 DEF LocTypeOK

(***************************************************************************)
(* When no name has ; as a word the readers see the segments as written.   *)
(***************************************************************************)
LEMMA LocationsShape ==
    ASSUME LocTypeOK, Without(Semicolon)
    PROVE  /\ \E n, g : Shape(n, g, Locations)
           /\ Location = <<>> => held = {}
           /\ Location # <<>> => Split(Location, Semicolon) = Locations
<1>1. CASE held = {} /\ Location = <<>>
  <2> DEFINE g == [s \in {} |-> 1]
  <2> DEFINE L == <<Unassigned>>
  <2>1. Locations = L
    BY <1>1 DEF Locations
  <2>2. L \in Seq(Seq(Token)) /\ Len(L) = 1 /\ L[1] = Unassigned
    <3> DEFINE u == Unassigned
    <3> DEFINE V == Seq(Token)
    <3>1. u \in V
      BY UnassignedRead
    <3> HIDE DEF u, V
    <3>2. <<u>> \in Seq(V) /\ Len(<<u>>) = 1 /\ <<u>>[1] = u
      BY <3>1
    <3> QED
      BY <3>2 DEF u, V
  <2> HIDE DEF L
  <2>3. g \in [held -> 1..0]
    BY <1>1
  <2>4. Shape(0, g, L)
    <3> HIDE DEF g
    <3>1. \A k \in 1..0 : FALSE
      OBVIOUS
    <3> QED
      BY <2>2, <2>3, <3>1 DEF Shape
  <2> QED
    BY <1>1, <2>1, <2>4
<1>2. ASSUME NEW n, NEW g, NEW L, Shape(n, g, L), Location = Join(L, Semicolon)
      PROVE  Location # <<>> /\ Split(Location, Semicolon) = L
  <2> DEFINE c == Semicolon
  <2> DEFINE o == <<>>
  <2> DEFINE Z == Token \ {Semi}
  <2>1. n \in Nat /\ L \in Seq(Seq(Token)) /\ Len(L) \in {n, n + 1} /\ Len(L) > 0
    BY <1>2 DEF Shape
  <2>2. ASSUME NEW k \in 1..Len(L)
        PROVE  /\ L[k] \in Seq(Token) /\ L[k] # <<>> /\ L[k][Len(L[k])] \in Z
               /\ ~Alone(L[k], Semi)
    <3>1. CASE k \in 1..n
      BY <1>2, <3>1, ShapeRead
    <3>2. CASE k \notin 1..n
      <4>1. k = n + 1 /\ Len(L) = n + 1
        BY <2>1, <3>2
      <4>2. L[k] = Unassigned
        BY <1>2, <4>1 DEF Shape
      <4> QED
        BY <4>2, UnassignedRead
    <3> QED
      BY <3>1, <3>2
  <2>3. c \in Seq(Token) /\ c # <<>> /\ c = Sep(Semi) /\ Semi \in Token /\ Semi # Blank
    BY Separators, TokenFacts, TokensDiffer
  <2>4. L # <<>>
    BY <2>1
  <2>5. Location = Join(L, c)
    BY <1>2
  <2> HIDE DEF Token
  <2>6. \A z \in Z : z # Semi
    OBVIOUS
  <2> HIDE DEF c, Z
  <2>7. Glue(c, o) = c /\ o \in Seq(Token) /\ \A s \in Seq(Token) : Glue(o, s) = s
    <3>1. Glue(c, o) = c
      BY <2>3, Glued
    <3>2. o \in Seq(Token)
      OBVIOUS
    <3>3. \A s \in Seq(Token) : Glue(o, s) = s
      BY <2>3, Glued
    <3> QED
      BY <3>1, <3>2, <3>3
  <2> HIDE DEF o
  <2>8. \A k \in 1..Len(L) : L[k] # <<>> /\ L[k][Len(L[k])] \in Z
    BY <2>2
  <2>9. Location # <<>>
    <3>1. \A k \in 1..Len(L) : L[k] # <<>>
      BY <2>2
    <3>2. c \in Seq(Token)
      BY <2>3
    <3>3. Join(L, c) # <<>>
      BY <2>1, <2>4, <3>1, <3>2, JoinEnds
    <3> QED
      BY <2>5, <3>3
  <2>10. \A k \in 1..Len(L) : Found(L[k], c) = {}
    <3>1. ASSUME NEW k \in 1..Len(L) PROVE Found(L[k], Sep(Semi)) = {}
      <4>1. L[k] \in Seq(Token) /\ ~Alone(L[k], Semi)
        BY <2>2
      <4> QED
        BY <2>3, <4>1, AloneFree
    <3> QED
      BY <2>3, <3>1
  <2>11. \A k \in 1..Len(L) : Glue(o, L[k]) = L[k]
    BY <2>2, <2>7
  <2>12. \A k \in 1..Len(L) : Found(Glue(o, L[k]), c) = {}
    BY <2>10, <2>11
  <2>13. ASSUME NEW s \in Seq(Token), s # <<>>, s[Len(s)] \in Z PROVE Clean(s, c)
    <3>1. ~(Len(s) >= 2 /\ s[Len(s)] = Semi /\ s[Len(s) - 1] = Blank)
      BY <2>6, <2>13
    <3>2. Clean(s, Sep(Semi))
      BY <2>3, <3>1, CleanMark
    <3> QED
      BY <2>3, <3>2
  <2>14. Split(Join(L, Glue(c, o)), c) = Led(o, L)
    <3>1. c \in Seq(Token) /\ c # <<>> /\ o \in Seq(Token) /\ L \in Seq(Seq(Token))
      BY <2>1, <2>3, <2>7
    <3>2. \A s \in Seq(Token) : s # <<>> /\ s[Len(s)] \in Z => Clean(s, c)
      BY <2>13
    <3> QED
      BY <2>4, <2>8, <2>10, <2>12, <3>1, <3>2, SplitJoin
  <2>15. Led(o, L) = L
    <3>1. L = [k \in 1..Len(L) |-> L[k]]
      BY <2>1
    <3>2. Led(o, L) = [k \in 1..Len(L) |-> L[k]]
      BY <2>11 DEF Led
    <3> QED
      BY <3>1, <3>2
  <2> QED
    BY <2>5, <2>7, <2>9, <2>14, <2>15 DEF c
<1>3. ASSUME NEW n, NEW g, NEW L, Shape(n, g, L), Location = Join(L, Semicolon)
      PROVE  /\ \E m, f : Shape(m, f, Locations) /\ Location # <<>>
             /\ Split(Location, Semicolon) = Locations
  <2>1. Location # <<>> /\ Split(Location, Semicolon) = L
    BY <1>2, <1>3
  <2>2. Locations = L
    BY <2>1 DEF Locations
  <2> QED
    BY <1>3, <2>1, <2>2
<1> QED
  BY <1>1, <1>3, LocationJoined

-----------------------------------------------------------------------------
(* Counting                                                                *)

(***************************************************************************)
(* The groups together are the positions of the wine.                      *)
(***************************************************************************)
LEMMA SharesSum ==
    ASSUME LocTypeOK, NEW n, NEW g, NEW L, Shape(n, g, L), NEW f \in [1..Len(L) -> Nat],
           \A k \in 1..n : f[k] = Cardinality(Share(g, k)),
           Len(L) = n + 1 => f[n + 1] = 0
    PROVE  SumFunction(f) = Cardinality(held)
<1>1. n \in Nat /\ g \in [held -> 1..n] /\ Len(L) \in {n, n + 1}
  BY DEF Shape
<1> DEFINE S == 1..Len(L)
<1>2. IsFiniteSet(held)
  BY HeldFinite
<1>3. IsFiniteSet(S) /\ g \in [held -> S]
  <2>1. 1 \in Int /\ Len(L) \in Int
    BY <1>1
  <2>2. IsFiniteSet(S)
    BY <2>1, FS_Interval
  <2> QED
    BY <1>1, <2>2
<1>4. SumFunction([x \in S |-> Cardinality({t \in held : g[t] = x})]) = Cardinality(held)
  <2> HIDE DEF S
  <2> QED
    BY <1>2, <1>3, SumOfParts
<1>5. ASSUME NEW x \in S PROVE f[x] = Cardinality({t \in held : g[t] = x})
  <2>1. CASE x \in 1..n
    BY <2>1 DEF Share
  <2>2. CASE x \notin 1..n
    <3>1. x = n + 1 /\ Len(L) = n + 1
      BY <1>1, <2>2
    <3>2. {t \in held : g[t] = x} = {}
      BY <1>1, <2>2
    <3>3. Cardinality({t \in held : g[t] = x}) = 0
      BY <3>2, FS_EmptySet
    <3>4. f[x] = 0
      BY <3>1
    <3> QED
      BY <3>3, <3>4
  <2> QED
    BY <2>1, <2>2
<1>6. f = [x \in S |-> Cardinality({t \in held : g[t] = x})]
  <2> HIDE DEF S
  <2>1. f \in [S -> Nat]
    BY DEF S
  <2> QED
    BY <1>5, <2>1
<1> QED
  BY <1>4, <1>6

(***************************************************************************)
(* What each segment adds to the counts of the two pages.                  *)
(***************************************************************************)
LEMMA ShapeCounts ==
    ASSUME LocTypeOK, NEW n, NEW g, NEW L, Shape(n, g, L)
    PROVE  /\ SumFunction([k \in DOMAIN L |-> SpotCount(L[k])]) = Cardinality(held)
           /\ ShelvesClean =>
                 SumFunction([k \in DOMAIN L |-> DetailCount(L[k])]) = Cardinality(held)
           /\ [k \in DOMAIN L |-> SpotCount(L[k])] \in [1..Len(L) -> Nat]
<1>1. /\ n \in Nat /\ L \in Seq(Seq(Token)) /\ Len(L) \in {n, n + 1}
      /\ Len(L) = n + 1 => L[n + 1] = Unassigned
  BY DEF Shape
<1>2. DOMAIN L = 1..Len(L)
  BY <1>1
<1>3. \A k \in 1..n : /\ SpotCount(L[k]) = Cardinality(Share(g, k))
                      /\ ShelvesClean => DetailCount(L[k]) = Cardinality(Share(g, k))
                      /\ Cardinality(Share(g, k)) \in Nat
  BY ShapeRead
<1>4. Len(L) = n + 1 => SpotCount(L[n + 1]) = 0 /\ DetailCount(L[n + 1]) = 0
  BY <1>1, UnassignedRead
<1> DEFINE f == [k \in DOMAIN L |-> SpotCount(L[k])]
<1> DEFINE d == [k \in DOMAIN L |-> DetailCount(L[k])]
<1>5. \A k \in 1..Len(L) : k \in 1..n \/ (k = n + 1 /\ Len(L) = n + 1)
  BY <1>1
<1>6. f \in [1..Len(L) -> Nat] /\ (ShelvesClean => d \in [1..Len(L) -> Nat])
  <2>1. \A k \in 1..Len(L) : SpotCount(L[k]) \in Nat /\ (ShelvesClean => DetailCount(L[k]) \in Nat)
    BY <1>3, <1>4, <1>5
  <2> QED
    BY <1>2, <2>1
<1>7. /\ \A k \in 1..n : /\ f[k] = Cardinality(Share(g, k))
                         /\ ShelvesClean => d[k] = Cardinality(Share(g, k))
      /\ Len(L) = n + 1 => f[n + 1] = 0 /\ d[n + 1] = 0
  <2>1. \A k \in 1..n : k \in DOMAIN L
    <3> DEFINE m == Len(L)
    <3>1. n \in Nat /\ m \in {n, n + 1} /\ DOMAIN L = 1..m
      BY <1>1, <1>2
    <3> HIDE DEF m
    <3> QED
      BY <3>1
  <2>2. Len(L) = n + 1 => n + 1 \in DOMAIN L
    BY <1>1, <1>2
  <2> QED
    BY <1>3, <1>4, <2>1, <2>2
<1> HIDE DEF f, d
<1>8. SumFunction(f) = Cardinality(held)
  BY <1>6, <1>7, SharesSum
<1>9. ASSUME ShelvesClean PROVE SumFunction(d) = Cardinality(held)
  BY <1>6, <1>7, <1>9, SharesSum
<1> QED
  BY <1>6, <1>8, <1>9 DEF f, d

(***************************************************************************)
(* _groupWines and _buildLocationPicker count exactly the bottles that lie *)
(* in a spot, for any names without ; as a word and, on the detail page,   *)
(* shelves that do not end in > as a word, for any number of shelves,      *)
(* indexes and bottles, and whichever writer wrote the string.             *)
(***************************************************************************)
THEOREM SpotsCounted == LocSpec => []CountsSpots
<1>1. LocTypeOK => CountsSpots
  <2> SUFFICES ASSUME LocTypeOK, Without(Semicolon)
               PROVE  /\ AssignedSpotCount = Cardinality(held)
                      /\ ShelvesClean => DetailAssigned = Cardinality(held)
    BY DEF CountsSpots, ShelvesClean
  <2>1. PICK n, g : Shape(n, g, Locations)
    BY LocationsShape
  <2>2. /\ SumFunction([k \in DOMAIN Locations |-> SpotCount(Locations[k])]) = Cardinality(held)
        /\ ShelvesClean =>
              SumFunction([k \in DOMAIN Locations |-> DetailCount(Locations[k])]) = Cardinality(held)
    <3> DEFINE L == Locations
    <3>1. Shape(n, g, L)
      BY <2>1
    <3> HIDE DEF L
    <3>2. /\ SumFunction([k \in DOMAIN L |-> SpotCount(L[k])]) = Cardinality(held)
          /\ ShelvesClean =>
                SumFunction([k \in DOMAIN L |-> DetailCount(L[k])]) = Cardinality(held)
      BY <3>1, ShapeCounts
    <3> QED
      BY <3>2 DEF L
  <2>3. AssignedSpotCount = Cardinality(held)
    BY <2>2 DEF AssignedSpotCount
  <2>4. CASE Location = <<>>
    <3>1. held = {}
      BY <2>4, LocationsShape
    <3>2. Cardinality(held) = 0
      BY <3>1, FS_EmptySet
    <3> QED
      BY <2>3, <2>4, <3>2 DEF DetailAssigned
  <2>5. CASE Location # <<>>
    BY <2>2, <2>3, <2>5 DEF DetailAssigned
  <2> QED
    BY <2>4, <2>5
<1> QED
  BY <1>1, LocationTyped, PTL

(***************************************************************************)
(* The segment of the rest shows the bottles that lie in no spot.          *)
(***************************************************************************)
LEMMA RestShown ==
    ASSUME LocTypeOK, NEW n, NEW g, Shape(n, g, Locations), Len(Locations) = n + 1,
           Cardinality(held) <= quantity
    PROVE  BottlesShown(Unassigned) = quantity - Cardinality(held)
<1>1. n \in Nat /\ g \in [held -> 1..n] /\ Cardinality(held) \in Nat /\ quantity \in Nat
  BY HeldFinite DEF Shape, LocTypeOK
<1>2. AssignedSpotCount = Cardinality(held)
  <2> DEFINE L == Locations
  <2>1. Shape(n, g, L)
    OBVIOUS
  <2> HIDE DEF L
  <2>2. SumFunction([k \in DOMAIN L |-> SpotCount(L[k])]) = Cardinality(held)
    BY <2>1, ShapeCounts
  <2> QED
    BY <2>2 DEF L, AssignedSpotCount
<1>3. BottlesShown(Unassigned) = Unspotted(Unassigned)
  <2>1. ~(SpotCount(Unassigned) > 0)
    BY UnassignedRead
  <2> QED
    BY <2>1 DEF BottlesShown
<1>4. CASE n > 0
  <2>1. Len(Locations) > 1
    BY <1>1, <1>4
  <2>2. Unspotted(Unassigned) = UnassignedRemainder
    BY <2>1 DEF Unspotted
  <2>3. UnassignedRemainder = quantity - Cardinality(held)
    BY <1>1, <1>2 DEF UnassignedRemainder
  <2> QED
    BY <1>3, <2>2, <2>3
<1>5. CASE n = 0
  <2>1. ~(Len(Locations) > 1)
    BY <1>5
  <2>2. Unspotted(Unassigned) = quantity
    BY <2>1 DEF Unspotted
  <2>3. held = {}
    BY <1>1, <1>5
  <2>4. Cardinality(held) = 0
    BY <2>3, FS_EmptySet
  <2> QED
    BY <1>1, <1>3, <2>2, <2>4
<1> QED
  BY <1>1, <1>4, <1>5

(***************************************************************************)
(* The segments show as many bottles as there are.                         *)
(***************************************************************************)
LEMMA BottlesAddUp ==
    ASSUME LocTypeOK, Without(Semicolon), Cardinality(held) <= quantity
    PROVE  SumFunction([k \in DOMAIN Locations |-> BottlesShown(Locations[k])]) = quantity
<1>1. PICK n, g : Shape(n, g, Locations)
  BY LocationsShape
<1> DEFINE L == Locations
<1> DEFINE b == [k \in DOMAIN L |-> BottlesShown(L[k])]
<1> DEFINE f == [k \in DOMAIN L |-> SpotCount(L[k])]
<1> DEFINE m == Len(L)
<1>2. /\ n \in Nat /\ L \in Seq(Seq(Token)) /\ m \in {n, n + 1}
      /\ m = n + 1 => L[n + 1] = Unassigned
      /\ m = n => Cardinality(held) >= quantity
  BY <1>1 DEF Shape
<1>3. DOMAIN L = 1..m
  BY <1>2
<1>4. Cardinality(held) \in Nat /\ quantity \in Nat
  BY HeldFinite DEF LocTypeOK
<1>5. m = n + 1 => BottlesShown(L[n + 1]) = quantity - Cardinality(held)
  BY <1>1, <1>2, RestShown
<1>6. Shape(n, g, L)
  BY <1>1
<1> HIDE DEF L
<1>7. \A k \in 1..n : BottlesShown(L[k]) = SpotCount(L[k])
  <2>1. ASSUME NEW k \in 1..n PROVE BottlesShown(L[k]) = SpotCount(L[k])
    <3>1. SpotCount(L[k]) = Cardinality(Share(g, k)) /\ Cardinality(Share(g, k)) \in Nat \ {0}
      BY <1>6, ShapeRead
    <3>2. SpotCount(L[k]) > 0
      BY <3>1
    <3> QED
      BY <3>2 DEF BottlesShown
  <2> QED
    BY <2>1
<1>8. SumFunction(f) = Cardinality(held) /\ f \in [1..m -> Nat]
  BY <1>6, ShapeCounts
<1>9. m = n + 1 => f[n + 1] = 0
  <2>1. ASSUME m = n + 1 PROVE f[n + 1] = 0
    <3>1. n + 1 \in DOMAIN L
      BY <1>2, <1>3, <2>1
    <3>2. L[n + 1] = Unassigned
      BY <1>2, <2>1
    <3> QED
      BY <3>1, <3>2, UnassignedRead
  <2> QED
    BY <2>1
<1>10. /\ DOMAIN b = 1..m /\ b = [k \in 1..m |-> b[k]]
       /\ \A k \in 1..m : b[k] = BottlesShown(L[k]) /\ f[k] = SpotCount(L[k])
  BY <1>3
<1> HIDE DEF b, f, m
<1>11. CASE m = n
  <2>1. b = f
    <3>1. \A k \in 1..m : b[k] = f[k]
      BY <1>7, <1>10, <1>11
    <3> QED
      BY <1>8, <1>10, <3>1
  <2> QED
    BY <1>2, <1>4, <1>8, <1>11, <2>1 DEF b, L
<1>12. CASE m = n + 1
  <2> DEFINE v == quantity - Cardinality(held)
  <2>1. v \in Nat /\ n + 1 \in 1..m
    BY <1>2, <1>4, <1>12
  <2>2. \A k \in 1..m : b[k] = IF k = n + 1 THEN v ELSE f[k]
    <3>1. \A k \in 1..m : k = n + 1 \/ k \in 1..n
      BY <1>2, <1>12
    <3> QED
      BY <1>5, <1>7, <1>10, <1>12, <3>1
  <2> HIDE DEF v
  <2>3. b = [f EXCEPT ![n + 1] = v]
    BY <1>8, <1>10, <2>2
  <2>4. IsFiniteSet(1..m)
    <3>1. 1 \in Int /\ m \in Int
      BY <1>2
    <3> QED
      BY <3>1, FS_Interval
  <2> DEFINE S == 1..m
  <2> DEFINE y == n + 1
  <2>5. IsFiniteSet(S) /\ f \in [S -> Nat] /\ y \in S /\ b = [f EXCEPT ![y] = v] /\ f[y] = 0
    BY <1>8, <1>9, <1>12, <2>1, <2>3, <2>4
  <2> HIDE DEF S, y
  <2>6. SumFunction([f EXCEPT ![y] = v]) = (SumFunction(f) - f[y]) + v
    BY <2>1, <2>5, SumExcept
  <2>7. SumFunction(b) = (Cardinality(held) - 0) + v
    BY <1>8, <2>5, <2>6
  <2>8. SumFunction(b) = quantity
    BY <1>4, <2>7 DEF v
  <2> QED
    BY <2>8 DEF b, L
<1> QED
  BY <1>2, <1>11, <1>12

-----------------------------------------------------------------------------
(* Finding again                                                           *)

Place3(s) == <<cabinet[cabinetOf[s[1]]], shelf[s[1]], <<s[2]>>>>

(***************************************************************************)
(* The first parts of a segment made of three.                             *)
(***************************************************************************)
LEMMA ThreeParts ==
    ASSUME NEW V, NEW a \in V, NEW b \in V, NEW c \in V, NEW A, A = <<a, b>>,
           NEW B, B = Append(A, c)
    PROVE  Len(B) = 3 /\ B[1] = a /\ B[2] = b /\ B[3] = c
<1>1. A \in Seq(V) /\ Len(A) = 2 /\ A[1] = a /\ A[2] = b
  OBVIOUS
<1> QED
  BY <1>1

(***************************************************************************)
(* With plain names a segment is read as written: cabinet, shelf, spots.   *)
(***************************************************************************)
LEMMA PlainSegment ==
    ASSUME LocTypeOK, Plain, NEW n, NEW g, NEW L, Shape(n, g, L), NEW k \in 1..n,
           NEW s \in Share(g, k)
    PROVE  /\ Group(Share(g, k)) /\ s[1] \in Shelf
           /\ Len(Split(L[k], Arrow)) = 3
           /\ Trim(Split(L[k], Arrow)[1]) = cabinet[cabinetOf[s[1]]]
           /\ Trim(Split(L[k], Arrow)[2]) = shelf[s[1]]
           /\ SpotIndexes(Split(L[k], Arrow)[3]) = {t[2] : t \in Share(g, k)}
           /\ Range(SpotsIn(L[k])) = {<<t[2]>> : t \in Share(g, k)}
           /\ Trim(L[k]) = L[k] /\ Found(L[k], SpotLabel) # {}
<1>1. s \in held /\ g[s] = k
  BY DEF Share
<1> DEFINE G == Share(g, k)
<1> DEFINE key == Key(s[1])
<1> DEFINE e == L[k]
<1> DEFINE c == cabinet[cabinetOf[s[1]]]
<1> DEFINE d == shelf[s[1]]
<1> DEFINE l == NumList(SetToSeq(G))
<1> DEFINE p == Glue(SpotLabel, l)
<1>2. Group(G) /\ s[1] \in Shelf
  BY <1>1, ShareGroup
<1>3. e = Segment(key, SetToSeq(G))
  <2>1. PICK t \in held :
            /\ e = Segment(Key(t[1]), SetToSeq(G))
            /\ \A x \in held : g[x] = k => Key(x[1]) = Key(t[1])
    BY DEF Shape
  <2>2. Key(s[1]) = Key(t[1])
    BY <1>1, <2>1
  <2> QED
    BY <2>1, <2>2
<1>4. /\ c \in Seq(Token) /\ c # <<>> /\ d \in Seq(Token) /\ key \in Seq(Token)
      /\ key # <<>> /\ key[1] = c[1]
  BY <1>2, KeyType
<1>5. Split(key, Arrow) = <<c, d>> /\ Clean(key, Arrow)
  BY <1>2, KeyParts DEF Plain
<1>6. Trim(c) = c /\ Trim(d) = d
  <2>1. c \in Names /\ d \in Names
    BY <1>2, KeyType
  <2> QED
    BY <2>1 DEF Plain
<1>7. l = NumList(SetToSeq(G)) /\ p = Glue(SpotLabel, l)
  OBVIOUS
<1> HIDE DEF G, key, e, c, d, l, p
<1>8. /\ e \in Seq(Token) /\ e # <<>> /\ Found(e, SpotLabel) # {}
      /\ e[Len(e)] # Blank /\ (key # <<>> => e[1] = key[1])
      /\ Clean(key, Arrow) => Split(e, Arrow) = Append(Split(key, Arrow), Glue(SpotLabel, l))
  BY <1>2, <1>3, <1>4, <1>7, SegmentRead
<1>9. SpotIndexes(p) = {t[2] : t \in G}
  BY <1>2, <1>7, SpotPartRead
<1>10. p \in Seq(Token)
  <2>1. Numerals(l)
    BY <1>2, <1>7, NumListRead
  <2> QED
    BY <1>7, <2>1, SpotPart
<1> DEFINE A == Split(key, Arrow)
<1> DEFINE B == Split(e, Arrow)
<1>11. A = <<c, d>> /\ B = Append(A, p)
  BY <1>5, <1>7, <1>8
<1> HIDE DEF A, B
<1>12. Len(B) = 3 /\ B[1] = c /\ B[2] = d /\ B[3] = p
  <2> DEFINE V == Seq(Token)
  <2>1. c \in V /\ d \in V /\ p \in V
    BY <1>4, <1>10
  <2> HIDE DEF V
  <2> QED
    BY <1>11, <2>1, ThreeParts
<1>13. Range(SpotsIn(e)) = {<<t[2]>> : t \in G}
  BY <1>2, <1>3, <1>4, SegmentSpots
<1>14. Trim(e) = e
  <2>1. c[1] # Blank
    BY <1>4, <1>6, TrimmedBegins
  <2>2. e[1] # Blank
    BY <1>4, <1>8, <2>1
  <2> QED
    BY <1>8, <2>2, TrimSame
<1> QED
  BY <1>2, <1>6, <1>8, <1>9, <1>12, <1>13, <1>14 DEF G, e, c, d, B

(***************************************************************************)
(* The main page shows the bottles of a segment under their own places.    *)
(***************************************************************************)
LEMMA SegmentPlaces ==
    ASSUME LocTypeOK, Plain, NEW n, NEW g, NEW L, Shape(n, g, L), NEW k \in 1..n
    PROVE  PlacesShown(L[k]) = {Place3(t) : t \in Share(g, k)}
<1> DEFINE e == L[k]
<1> DEFINE B == Split(e, Arrow)
<1>1. PICK s \in held : g[s] = k
  BY DEF Shape
<1>2. s \in Share(g, k)
  BY <1>1 DEF Share
<1>3. Len(B) = 3 /\ Range(SpotsIn(e)) = {<<t[2]>> : t \in Share(g, k)}
  BY <1>2, PlainSegment
<1>4. \A t \in Share(g, k) : /\ Trim(B[1]) = cabinet[cabinetOf[t[1]]]
                             /\ Trim(B[2]) = shelf[t[1]]
  BY PlainSegment
<1>5. PlacesShown(e) = {<<Trim(B[1]), Trim(B[2]), spot>> : spot \in Range(SpotsIn(e))}
  <2> HIDE DEF e
  <2>1. Len(B) > 1
    BY <1>3
  <2> QED
    BY <2>1 DEF PlacesShown
<1> HIDE DEF B, e
<1>6. PlacesShown(e) = {<<Trim(B[1]), Trim(B[2]), <<t[2]>>>> : t \in Share(g, k)}
  BY <1>3, <1>5
<1>7. \A t \in Share(g, k) : <<Trim(B[1]), Trim(B[2]), <<t[2]>>>> = Place3(t)
  BY <1>4 DEF Place3
<1>8. PlacesShown(e) = {Place3(t) : t \in Share(g, k)}
  BY <1>6, <1>7
<1> QED
  BY <1>8 DEF e

(***************************************************************************)
(* Every position lies in the group of one segment.                        *)
(***************************************************************************)
LEMMA SharesCover ==
    ASSUME NEW n, NEW g, NEW L, Shape(n, g, L)
    PROVE  /\ \A k \in 1..n : Share(g, k) \subseteq held
           /\ \A s \in held : \E k \in 1..n : s \in Share(g, k)
BY DEF Shape, Share

(***************************************************************************)
(* The segments of a string, by number.                                    *)
(***************************************************************************)
LEMMA ShapeSegments ==
    ASSUME NEW n, NEW g, NEW L, Shape(n, g, L)
    PROVE  /\ n \in Nat /\ ToSet(L) \subseteq {L[k] : k \in 1..n} \cup {Unassigned}
           /\ \A k \in 1..n : L[k] \in ToSet(L)
<1> DEFINE m == Len(L)
<1>1. /\ n \in Nat /\ L \in Seq(Seq(Token)) /\ m \in {n, n + 1}
      /\ m = n + 1 => L[n + 1] = Unassigned
  BY DEF Shape
<1>2. DOMAIN L = 1..m
  BY <1>1
<1> HIDE DEF m
<1>3. ToSet(L) = {L[k] : k \in 1..m}
  BY <1>2 DEF ToSet
<1>4. \A k \in 1..m : k \in 1..n \/ L[k] = Unassigned
  BY <1>1
<1>5. \A k \in 1..n : k \in 1..m
  BY <1>1
<1> QED
  BY <1>1, <1>3, <1>4, <1>5

(***************************************************************************)
(* _groupWines shows every bottle of the wine: the segments add up to the  *)
(* quantity as long as no more spots than bottles are taken, and with      *)
(* plain names each bottle in a spot appears under its cabinet, shelf and  *)
(* index and nowhere else, for any number of them.                         *)
(***************************************************************************)
THEOREM AllShown == LocSpec => []ShelvesShowAll
<1>1. LocTypeOK => ShelvesShowAll
  <2> SUFFICES ASSUME LocTypeOK PROVE ShelvesShowAll
    OBVIOUS
  <2>1. Without(Semicolon) /\ Cardinality(held) <= quantity =>
           SumFunction([k \in DOMAIN Locations |-> BottlesShown(Locations[k])]) = quantity
    BY BottlesAddUp
  <2>2. ASSUME Plain
        PROVE  UNION {PlacesShown(loc) : loc \in ToSet(Locations)} = {Place3(s) : s \in held}
    <3>1. PICK n, g : Shape(n, g, Locations)
      BY <2>2, LocationsShape DEF Plain
    <3> DEFINE L == Locations
    <3>2. Shape(n, g, L)
      BY <3>1
    <3> HIDE DEF L
    <3>3. /\ ToSet(L) \subseteq {L[k] : k \in 1..n} \cup {Unassigned}
          /\ \A k \in 1..n : L[k] \in ToSet(L)
      BY <3>2, ShapeSegments
    <3>4. \A k \in 1..n : PlacesShown(L[k]) = {Place3(t) : t \in Share(g, k)}
      BY <2>2, <3>2, SegmentPlaces
    <3>5. PlacesShown(Unassigned) = {}
      BY UnassignedRead DEF PlacesShown
    <3>6. /\ \A k \in 1..n : Share(g, k) \subseteq held
          /\ \A s \in held : \E k \in 1..n : s \in Share(g, k)
      BY <3>2, SharesCover
    <3>7. UNION {PlacesShown(loc) : loc \in ToSet(L)} \subseteq {Place3(s) : s \in held}
      BY <3>3, <3>4, <3>5, <3>6
    <3>8. {Place3(s) : s \in held} \subseteq UNION {PlacesShown(loc) : loc \in ToSet(L)}
      BY <3>3, <3>4, <3>6
    <3> QED
      BY <3>7, <3>8 DEF L
  <2>3. {Place3(s) : s \in held}
            = {<<cabinet[cabinetOf[s[1]]], shelf[s[1]], <<s[2]>>>> : s \in held}
    BY DEF Place3
  <2> QED
    BY <2>1, <2>2, <2>3 DEF ShelvesShowAll
<1> QED
  BY <1>1, LocationTyped, PTL

(***************************************************************************)
(* By name the dialog finds the cabinet and the shelf that were meant.     *)
(***************************************************************************)
LEMMA FoundByName ==
    ASSUME LocTypeOK, Distinct, NEW sh \in Shelf
    PROVE  /\ FirstCabinet(cabinet[cabinetOf[sh]]) = {cabinetOf[sh]}
           /\ FirstShelf(cabinetOf[sh], shelf[sh]) = {sh}
<1>1. \A x \in Nat : Min({x}) = x
  BY DEF Min
<1> DEFINE c == cabinetOf[sh]
<1>2. c \in {1, 2}
  BY DEF LocTypeOK
<1>3. {x \in DOMAIN cabinet : cabinet[x] = cabinet[c]} = {c}
  <2>1. DOMAIN cabinet = {1, 2} /\ cabinet[1] # cabinet[2]
    BY DEF LocTypeOK, Distinct
  <2> HIDE DEF c
  <2> QED
    BY <1>2, <2>1
<1>4. FirstCabinet(cabinet[c]) = {c}
  <2> HIDE DEF c
  <2>1. Min({c}) = c /\ {c} # {}
    BY <1>1, <1>2
  <2> QED
    BY <1>3, <2>1 DEF FirstCabinet
<1>5. {x \in Shelf : cabinetOf[x] = c /\ shelf[x] = shelf[sh]} = {sh}
  <2>1. ASSUME NEW x \in Shelf, cabinetOf[x] = c, shelf[x] = shelf[sh] PROVE x = sh
    <3>1. Key(x) = Key(sh)
      BY <2>1 DEF Key
    <3> QED
      BY <3>1 DEF Distinct
  <2> QED
    BY <2>1
<1>6. FirstShelf(c, shelf[sh]) = {sh}
  <2>1. sh \in Nat
    BY LocationAssumption
  <2>2. Min({sh}) = sh /\ {sh} # {}
    BY <1>1, <2>1
  <2> HIDE DEF c
  <2> QED
    BY <1>5, <2>2 DEF FirstShelf
<1> QED
  BY <1>4, <1>6

(***************************************************************************)
(* A segment gives back the positions it was written from.                 *)
(***************************************************************************)
LEMMA SegmentRestored ==
    ASSUME LocTypeOK, Plain, Distinct, NEW n, NEW g, NEW L, Shape(n, g, L), NEW k \in 1..n
    PROVE  RestoredFrom(L[k]) = Share(g, k)
<1> DEFINE G == Share(g, k)
<1> DEFINE e == L[k]
<1> DEFINE B == Split(e, Arrow)
<1>1. PICK s \in held : /\ g[s] = k
                        /\ \A t \in held : g[t] = k => Key(t[1]) = Key(s[1])
  BY DEF Shape
<1>2. s \in G /\ G \subseteq held /\ \A t \in G : Key(t[1]) = Key(s[1])
  BY <1>1 DEF Share
<1>3. held \subseteq Spot
  BY DEF LocTypeOK
<1> DEFINE sh == s[1]
<1>4. /\ sh \in Shelf /\ Len(B) = 3
      /\ Trim(B[1]) = cabinet[cabinetOf[sh]] /\ Trim(B[2]) = shelf[sh]
      /\ SpotIndexes(B[3]) = {t[2] : t \in G}
  BY <1>2, PlainSegment
<1>5. \A t \in G : t[1] = sh /\ t = <<t[1], t[2]>>
  <2>1. \A t \in G : t \in Spot /\ t[1] \in Shelf /\ t = <<t[1], t[2]>>
    BY <1>2, <1>3 DEF Spot
  <2> QED
    BY <1>2, <1>4, <2>1 DEF Distinct
<1> HIDE DEF G, e, B, sh
<1>6. /\ FirstCabinet(cabinet[cabinetOf[sh]]) = {cabinetOf[sh]}
      /\ FirstShelf(cabinetOf[sh], shelf[sh]) = {sh}
  BY <1>4, FoundByName
<1>7. UNION {FirstShelf(c, Trim(B[2])) : c \in FirstCabinet(Trim(B[1]))} = {sh}
  <2>1. {FirstShelf(c, shelf[sh]) : c \in {cabinetOf[sh]}} = {{sh}}
    BY <1>6
  <2>2. UNION {{sh}} = {sh}
    OBVIOUS
  <2> QED
    BY <1>4, <1>6, <2>1, <2>2
<1>8. RestoredFrom(e) = {sh} \X {t[2] : t \in G}
  <2>1. ~(Len(B) < 3)
    BY <1>4
  <2>2. RestoredFrom(e) = (UNION {FirstShelf(c, Trim(B[2])) : c \in FirstCabinet(Trim(B[1]))})
                              \X SpotIndexes(B[3])
    BY <2>1 DEF RestoredFrom, B
  <2> QED
    BY <1>4, <1>7, <2>2
<1>9. {sh} \X {t[2] : t \in G} = G
  BY <1>5
<1> QED
  BY <1>8, <1>9 DEF e, G

(***************************************************************************)
(* _restoreSelectedSpotsFromWineLocation finds exactly the positions the   *)
(* string was written from, by the repository or by the dialog, for any    *)
(* number of shelves, indexes and bottles, when the names are plain and    *)
(* tell the shelves apart.                                                 *)
(***************************************************************************)
THEOREM RestoredAsWritten == LocSpec => []ReadsBack
<1>1. LocTypeOK => ReadsBack
  <2> SUFFICES ASSUME LocTypeOK, Plain, Distinct PROVE Restored = held
    BY DEF ReadsBack
  <2> DEFINE P == ToSet(Split(Location, Semicolon))
  <2>0. Without(Semicolon)
    BY DEF Plain
  <2> DEFINE Q == {t \in {Trim(s) : s \in P} : Found(t, SpotLabel) # {}}
  <2>1. Restored = UNION {RestoredFrom(e) : e \in Q}
    BY DEF Restored
  <2>2. CASE Location = <<>>
    <3> DEFINE o == <<>>
    <3> DEFINE c == Semicolon
    <3> DEFINE b == SpotLabel
    <3>1. /\ c \in Seq(Token) /\ c # <<>> /\ b \in Seq(Token) /\ b # <<>>
          /\ o \in Seq(Token) /\ Len(o) = 0
      BY Separators
    <3>2. Trim(o) = o
      BY DEF Trim
    <3> HIDE DEF o, c, b, Token
    <3>3. Found(o, c) = {} /\ Found(o, b) = {}
      <4>1. 1 \in 1..Len(c) /\ 1 \in 1..Len(b) /\ \A i \in 1..Len(o) : FALSE
        BY <3>1
      <4>2. Found(o, c) = {}
        BY <3>1, <4>1, FoundNone
      <4>3. Found(o, b) = {}
        BY <3>1, <4>1, FoundNone
      <4> QED
        BY <4>2, <4>3
    <3>4. Split(o, c) = <<o>>
      BY <3>1, <3>3, SplitFree
    <3>5. P = {o}
      BY <2>2, <3>4 DEF ToSet, o, c
    <3> HIDE DEF P
    <3>6. Q = {}
      BY <3>2, <3>3, <3>5 DEF b
    <3> HIDE DEF Q
    <3>7. Restored = {}
      BY <2>1, <3>6
    <3>8. held = {}
      BY <2>0, <2>2, LocationsShape
    <3> QED
      BY <3>7, <3>8
  <2>3. CASE Location # <<>>
    <3>1. PICK n, g : Shape(n, g, Locations)
      BY <2>0, LocationsShape
    <3> DEFINE L == Locations
    <3>2. Shape(n, g, L) /\ P = ToSet(L)
      BY <2>0, <2>3, <3>1, LocationsShape
    <3> HIDE DEF L, P
    <3>3. /\ P \subseteq {L[k] : k \in 1..n} \cup {Unassigned}
          /\ \A k \in 1..n : L[k] \in P
      BY <3>2, ShapeSegments
    <3>4. ASSUME NEW k \in 1..n
          PROVE  /\ Found(L[k], SpotLabel) # {} /\ Trim(L[k]) = L[k]
                 /\ RestoredFrom(L[k]) = Share(g, k)
      <4>1. PICK s \in held : g[s] = k
        BY <3>2 DEF Shape
      <4>2. s \in Share(g, k)
        BY <4>1 DEF Share
      <4>3. Found(L[k], SpotLabel) # {} /\ Trim(L[k]) = L[k]
        BY <3>2, <4>2, PlainSegment
      <4>4. RestoredFrom(L[k]) = Share(g, k)
        BY <3>2, SegmentRestored
      <4> QED
        BY <4>3, <4>4
    <3>5. Found(Unassigned, SpotLabel) = {} /\ Trim(Unassigned) = Unassigned
      BY UnassignedRead
    <3>6. {Trim(s) : s \in P} = P
      BY <3>3, <3>4, <3>5
    <3>7. Q = {L[k] : k \in 1..n}
      <4>1. Q = {t \in P : Found(t, SpotLabel) # {}}
        BY <3>6
      <4> HIDE DEF Q
      <4> QED
        BY <3>3, <3>4, <3>5, <4>1
    <3> HIDE DEF Q
    <3>8. Restored = UNION {RestoredFrom(e) : e \in {L[k] : k \in 1..n}}
      BY <2>1, <3>7
    <3>9. UNION {RestoredFrom(e) : e \in {L[k] : k \in 1..n}} = UNION {Share(g, k) : k \in 1..n}
      BY <3>4
    <3>10. UNION {Share(g, k) : k \in 1..n} = held
      BY <3>2, SharesCover
    <3> QED
      BY <3>8, <3>9, <3>10
  <2> QED
    BY <2>2, <2>3
<1> QED
  BY <1>1, LocationTyped, PTL

=============================================================================
