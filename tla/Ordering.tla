------------------------------ MODULE Ordering ------------------------------
(***************************************************************************)
(* A finite set as a sequence, in the order of a relation: the n-th        *)
(* element is the one with n - 1 elements before it.  (SetToSortSeq of the *)
(* community modules rests on TLC's SortSeq, of which the prover knows     *)
(* nothing.)                                                               *)
(***************************************************************************)
EXTENDS Integers, Sequences, FiniteSetTheorems, SequenceTheorems, TLAPS

Below(S, R, x) == {y \in S : <<y, x>> \in R}

InOrder(S, R) == [n \in 1 .. Cardinality(S) |-> CHOOSE x \in S : Cardinality(Below(S, R, x)) = n - 1]

\* A set of numbers.
Ascending(S) == InOrder(S, {p \in S \X S : p[1] < p[2]})

\* The positions of a sequence of keys in the order of a stable sort.
StableOrder(key) ==
    InOrder(DOMAIN key, {p \in (DOMAIN key) \X (DOMAIN key) :
                            \/ key[p[1]] < key[p[2]]
                            \/ key[p[1]] = key[p[2]] /\ p[1] < p[2]})

IsStrictOrder(S, R) ==
    /\ \A x \in S : <<x, x>> \notin R
    /\ \A x, y, z \in S : <<x, y>> \in R /\ <<y, z>> \in R => <<x, z>> \in R
    /\ \A x, y \in S : x # y => <<x, y>> \in R \/ <<y, x>> \in R

\* An element has more elements before it than one that is before it.
LEMMA BelowGrows ==
    ASSUME NEW S, IsFiniteSet(S), NEW R, IsStrictOrder(S, R),
           NEW x \in S, NEW y \in S, <<x, y>> \in R
    PROVE  Cardinality(Below(S, R, x)) < Cardinality(Below(S, R, y))
<1> DEFINE X == Below(S, R, x)
           Y == Below(S, R, y)
<1>1. X \subseteq Y /\ x \in Y /\ x \notin X /\ Y \subseteq S
  BY DEF Below, IsStrictOrder
<1>2. IsFiniteSet(Y)
  BY <1>1, FS_Subset
<1>3. /\ Cardinality(X) <= Cardinality(Y) /\ Cardinality(X) # Cardinality(Y)
      /\ IsFiniteSet(X)
  BY <1>1, <1>2, FS_Subset
<1>4. Cardinality(X) \in Nat /\ Cardinality(Y) \in Nat
  BY <1>2, <1>3, FS_CardinalityType
<1> QED BY <1>3, <1>4

LEMMA BelowBound ==
    ASSUME NEW S, IsFiniteSet(S), NEW R, IsStrictOrder(S, R), NEW x \in S
    PROVE  Cardinality(Below(S, R, x)) + 1 \in 1 .. Cardinality(S)
<1> DEFINE X == Below(S, R, x)
<1>1. X \subseteq S /\ x \notin X
  BY DEF Below, IsStrictOrder
<1>2. IsFiniteSet(X) /\ Cardinality(X) <= Cardinality(S) /\ Cardinality(X) # Cardinality(S)
  BY <1>1, FS_Subset
<1>3. Cardinality(X) \in Nat /\ Cardinality(S) \in Nat
  BY <1>2, FS_CardinalityType
<1> QED BY <1>2, <1>3

\* InOrder gives each element of the set once, and the earlier before the later.
THEOREM InOrderIsOrdered ==
    ASSUME NEW S, IsFiniteSet(S), NEW R, IsStrictOrder(S, R)
    PROVE  LET s == InOrder(S, R) IN
           /\ Cardinality(S) \in Nat
           /\ s \in Seq(S) /\ Len(s) = Cardinality(S)
           /\ \A x \in S : \E n \in 1 .. Cardinality(S) : s[n] = x
           /\ \A m, n \in 1 .. Cardinality(S) : m < n => <<s[m], s[n]>> \in R
<1> DEFINE N == Cardinality(S)
           rank == [x \in S |-> Cardinality(Below(S, R, x)) + 1]
           s == InOrder(S, R)
<1>1. N \in Nat
  BY FS_CardinalityType
<1>2. rank \in [S -> 1 .. N]
  BY BelowBound
<1>3. \A x, y \in S : <<x, y>> \in R => rank[x] < rank[y]
  <2> SUFFICES ASSUME NEW x \in S, NEW y \in S, <<x, y>> \in R
               PROVE  rank[x] < rank[y]
    OBVIOUS
  <2> DEFINE a == Cardinality(Below(S, R, x))
             b == Cardinality(Below(S, R, y))
  <2>1. a < b
    BY BelowGrows
  <2>2. a + 1 \in 1 .. N /\ b + 1 \in 1 .. N
    BY BelowBound
  <2>3. IsFiniteSet(Below(S, R, x)) /\ IsFiniteSet(Below(S, R, y))
    BY FS_Subset DEF Below
  <2>4. a \in Nat /\ b \in Nat
    BY <2>3, FS_CardinalityType
  <2>5. rank[x] = a + 1 /\ rank[y] = b + 1
    OBVIOUS
  <2> HIDE DEF a, b, rank
  <2> QED BY <2>1, <2>4, <2>5
<1>4. \A x, y \in S : rank[x] < rank[y] => <<x, y>> \in R
  <2> SUFFICES ASSUME NEW x \in S, NEW y \in S, rank[x] < rank[y], <<x, y>> \notin R
               PROVE  FALSE
    OBVIOUS
  <2>1. rank[x] \in Int /\ rank[y] \in Int
    <3> HIDE DEF rank
    <3> QED BY <1>1, <1>2
  <2> HIDE DEF rank
  <2>2. x = y \/ <<y, x>> \in R
    BY DEF IsStrictOrder
  <2>3. x = y \/ rank[y] < rank[x]
    BY <1>3, <2>2
  <2> QED BY <2>1, <2>3
<1>5. rank \in Injection(S, 1 .. N)
  <2>1. ASSUME NEW x \in S, NEW y \in S, rank[x] = rank[y], x # y PROVE FALSE
    <3>1. rank[x] \in Int /\ rank[y] \in Int
      <4> HIDE DEF rank
      <4> QED BY <1>1, <1>2
    <3> HIDE DEF rank
    <3>2. rank[x] < rank[y] \/ rank[y] < rank[x]
      BY <1>3, <2>1 DEF IsStrictOrder
    <3> QED BY <2>1, <3>1, <3>2
  <2> HIDE DEF rank
  <2> QED BY <1>2, <2>1 DEF Injection, IsInjective
<1>6. rank \in Surjection(S, 1 .. N)
  <2>1. IsFiniteSet(1 .. N) /\ Cardinality(1 .. N) = N
    BY <1>1, FS_Interval
  <2> HIDE DEF rank
  <2> QED BY <1>5, <2>1, FS_Injection
<1>7. \A n \in 1 .. N : s[n] \in S /\ rank[s[n]] = n
  <2> SUFFICES ASSUME NEW n \in 1 .. N PROVE s[n] \in S /\ rank[s[n]] = n
    OBVIOUS
  <2>1. s[n] = CHOOSE x \in S : Cardinality(Below(S, R, x)) = n - 1
    BY DEF InOrder
  <2>2. PICK x \in S : rank[x] = n
    <3> HIDE DEF rank
    <3> QED BY <1>6 DEF Surjection
  <2>3. Cardinality(Below(S, R, x)) = n - 1
    <3>1. Cardinality(Below(S, R, x)) + 1 = n
      BY <2>2
    <3>2. IsFiniteSet(Below(S, R, x))
      BY FS_Subset DEF Below
    <3>3. Cardinality(Below(S, R, x)) \in Nat
      BY <3>2, FS_CardinalityType
    <3> QED BY <1>1, <3>1, <3>3
  <2>4. s[n] \in S /\ Cardinality(Below(S, R, s[n])) = n - 1
    BY <2>1, <2>3
  <2> QED BY <1>1, <2>4
<1>8. s \in Seq(S) /\ Len(s) = N
  <2>1. s = [n \in 1 .. N |-> s[n]]
    BY DEF InOrder
  <2>2. s \in [1 .. N -> S]
    <3> HIDE DEF s, N, rank
    <3> QED BY <1>7, <2>1
  <2> HIDE DEF s, N
  <2> QED BY <1>1, <2>2, SeqDef
<1>9. \A x \in S : \E n \in 1 .. N : s[n] = x
  <2> SUFFICES ASSUME NEW x \in S PROVE s[rank[x]] = x /\ rank[x] \in 1 .. N
    OBVIOUS
  <2>1. rank[x] \in 1 .. N
    BY <1>2
  <2>2. s[rank[x]] \in S /\ rank[s[rank[x]]] = rank[x]
    BY <1>7, <2>1
  <2> HIDE DEF rank
  <2> QED BY <1>5, <2>1, <2>2 DEF Injection, IsInjective
<1>10. \A m, n \in 1 .. N : m < n => <<s[m], s[n]>> \in R
  <2> HIDE DEF s, rank, N
  <2> QED BY <1>4, <1>7
<1> QED BY <1>1, <1>8, <1>9, <1>10

\* Ascending counts through a finite set of numbers.
THEOREM AscendingIsOrdered ==
    ASSUME NEW S \in SUBSET Int, IsFiniteSet(S)
    PROVE  LET s == Ascending(S) IN
           /\ Cardinality(S) \in Nat
           /\ s \in Seq(S) /\ Len(s) = Cardinality(S)
           /\ \A x \in S : \E n \in 1 .. Cardinality(S) : s[n] = x
           /\ \A m, n \in 1 .. Cardinality(S) : m < n => s[m] < s[n]
<1> DEFINE R == {p \in S \X S : p[1] < p[2]}
<1>1. \A x, y \in S : <<x, y>> \in R <=> x < y
  OBVIOUS
<1>2. IsStrictOrder(S, R)
  <2> HIDE DEF R
  <2> QED BY <1>1 DEF IsStrictOrder
<1>3. Ascending(S) = InOrder(S, R)
  BY DEF Ascending
<1> HIDE DEF R
<1>4. InOrder(S, R) \in Seq(S) /\ Len(InOrder(S, R)) = Cardinality(S) /\ Cardinality(S) \in Nat
  BY <1>2, InOrderIsOrdered
<1>5. \A m, n \in 1 .. Cardinality(S) : m < n => <<InOrder(S, R)[m], InOrder(S, R)[n]>> \in R
  BY <1>2, InOrderIsOrdered
<1>6. \A x \in S : \E n \in 1 .. Cardinality(S) : InOrder(S, R)[n] = x
  BY <1>2, InOrderIsOrdered
<1>7. \A n \in 1 .. Cardinality(S) : InOrder(S, R)[n] \in S
  BY <1>4
<1> QED BY <1>1, <1>3, <1>4, <1>5, <1>6, <1>7

\* A set that begins with 1, 2, ... begins with them in its order.
LEMMA AscendingBegins ==
    ASSUME NEW len \in Nat, NEW S \in SUBSET (1 .. len), NEW y \in Nat, 1 .. y \subseteq S
    PROVE  /\ y <= Cardinality(S) /\ Cardinality(S) <= len
           /\ \A x \in 1 .. y : Ascending(S)[x] = x
<1> DEFINE R == {p \in S \X S : p[1] < p[2]}
<1>1. IsFiniteSet(1 .. len) /\ Cardinality(1 .. len) = len
  BY FS_Interval
<1>2. IsFiniteSet(S) /\ Cardinality(S) <= len
  BY <1>1, FS_Subset
<1>3. Cardinality(1 .. y) = y /\ Cardinality(1 .. y) <= Cardinality(S)
  BY <1>2, FS_Interval, FS_Subset
<1>4. \A u, v \in S : <<u, v>> \in R <=> u < v
  OBVIOUS
<1>5. IsStrictOrder(S, R)
  <2> HIDE DEF R
  <2>1. \A u \in S : u \in Int
    OBVIOUS
  <2> QED BY <1>4, <2>1 DEF IsStrictOrder
<1>6. ASSUME NEW x \in 1 .. y
      PROVE  Ascending(S)[x] = x
  <2>1. x \in S /\ x - 1 \in Nat
    OBVIOUS
  <2>2. Below(S, R, x) = 1 .. x - 1
    <3> HIDE DEF R
    <3>1. \A z \in S : <<z, x>> \in R <=> z < x
      BY <1>4, <2>1
    <3>2. \A z \in 1 .. x - 1 : z \in S /\ z < x
      OBVIOUS
    <3>3. \A z \in S : z < x => z \in 1 .. x - 1
      OBVIOUS
    <3> QED BY <3>1, <3>2, <3>3 DEF Below
  <2>3. Cardinality(Below(S, R, x)) = x - 1
    BY <2>1, <2>2, FS_Interval
  <2>4. ASSUME NEW z \in S, Cardinality(Below(S, R, z)) = x - 1 PROVE z = x
    <3> HIDE DEF R
    <3>1. CASE <<z, x>> \in R
      <4>1. Cardinality(Below(S, R, z)) < Cardinality(Below(S, R, x))
        BY <1>2, <1>5, <2>1, <3>1, BelowGrows
      <4> QED BY <2>3, <2>4, <4>1
    <3>2. CASE <<x, z>> \in R
      <4>1. Cardinality(Below(S, R, x)) < Cardinality(Below(S, R, z))
        BY <1>2, <1>5, <2>1, <3>2, BelowGrows
      <4> QED BY <2>3, <2>4, <4>1
    <3> QED BY <1>5, <2>1, <3>1, <3>2 DEF IsStrictOrder
  <2>5. Ascending(S)[x] = CHOOSE z \in S : Cardinality(Below(S, R, z)) = x - 1
    <3>1. Cardinality(S) \in Nat
      BY <1>2, FS_CardinalityType
    <3>2. x \in 1 .. Cardinality(S)
      BY <1>3, <3>1
    <3> QED BY <3>2 DEF Ascending, InOrder
  <2> HIDE DEF R
  <2> QED BY <2>1, <2>3, <2>4, <2>5
<1> QED BY <1>2, <1>3, <1>6

\* StableOrder permutes the positions so that the keys ascend, and positions with
\* one key as well.
THEOREM StableOrderIsOrdered ==
    ASSUME NEW key \in Seq(Int)
    PROVE  LET o == StableOrder(key)
               N == Len(key) IN
           /\ o \in Seq(1 .. N) /\ Len(o) = N
           /\ \A x \in 1 .. N : \E n \in 1 .. N : o[n] = x
           /\ \A m, n \in 1 .. N : m < n =>
                  \/ key[o[m]] < key[o[n]]
                  \/ key[o[m]] = key[o[n]] /\ o[m] < o[n]
<1> DEFINE N == Len(key)
           S == 1 .. N
           Before(j, k) == key[j] < key[k] \/ (key[j] = key[k] /\ j < k)
           R == {p \in S \X S : Before(p[1], p[2])}
<1>1. N \in Nat /\ DOMAIN key = S /\ \A k \in S : key[k] \in Int
  OBVIOUS
<1>2. \A x, y \in S : <<x, y>> \in R <=> Before(x, y)
  OBVIOUS
<1>3. StableOrder(key) = InOrder(S, R)
  BY <1>1 DEF StableOrder
<1>4. IsFiniteSet(S) /\ Cardinality(S) = N
  <2>1. N \in Int
    BY <1>1
  <2>2. IsFiniteSet(1 .. N) /\ Cardinality(1 .. N) = IF 1 > N THEN 0 ELSE N - 1 + 1
    <3> HIDE DEF N
    <3> QED BY <2>1, FS_Interval
  <2> HIDE DEF N
  <2> QED BY <1>1, <2>2
<1>5. IsStrictOrder(S, R)
  <2>1. \A x \in S : ~ Before(x, x)
    BY <1>1
  <2>2. \A x, y, z \in S : Before(x, y) /\ Before(y, z) => Before(x, z)
    <3> SUFFICES ASSUME NEW x \in S, NEW y \in S, NEW z \in S, Before(x, y), Before(y, z)
                 PROVE  Before(x, z)
      OBVIOUS
    <3>1. /\ key[x] \in Int /\ key[y] \in Int /\ key[z] \in Int
          /\ x \in Int /\ y \in Int /\ z \in Int
      BY <1>1
    <3> QED BY <3>1
  <2>3. \A x, y \in S : x # y => Before(x, y) \/ Before(y, x)
    <3> SUFFICES ASSUME NEW x \in S, NEW y \in S, x # y PROVE Before(x, y) \/ Before(y, x)
      OBVIOUS
    <3>1. key[x] \in Int /\ key[y] \in Int /\ x \in Int /\ y \in Int
      BY <1>1
    <3> QED BY <3>1
  <2> HIDE DEF R, Before
  <2> QED BY <1>2, <2>1, <2>2, <2>3 DEF IsStrictOrder
<1> HIDE DEF R, S
<1>6. /\ InOrder(S, R) \in Seq(S) /\ Len(InOrder(S, R)) = Cardinality(S)
      /\ \A x \in S : \E n \in 1 .. Cardinality(S) : InOrder(S, R)[n] = x
      /\ \A m, n \in 1 .. Cardinality(S) : m < n => <<InOrder(S, R)[m], InOrder(S, R)[n]>> \in R
  BY <1>4, <1>5, InOrderIsOrdered
<1>7. \A m \in 1 .. N : InOrder(S, R)[m] \in S
  BY <1>4, <1>6
<1>8. \A m, n \in 1 .. N : m < n => Before(InOrder(S, R)[m], InOrder(S, R)[n])
  <2> HIDE DEF Before, N
  <2> QED BY <1>2, <1>4, <1>6, <1>7
<1> QED BY <1>3, <1>4, <1>6, <1>8 DEF S

LEMMA FiniteLeast ==
    ASSUME NEW S \in SUBSET Nat, IsFiniteSet(S), S # {}
    PROVE  \E x \in S : \A y \in S : x <= y
<1>1. PICK s, C : s = Ascending(S) /\ C = Cardinality(S)
  OBVIOUS
<1>2. C \in Nat /\ s \in Seq(S) /\ Len(s) = C
  BY <1>1, AscendingIsOrdered
<1>3. \A x \in S : \E n \in 1 .. C : s[n] = x
  BY <1>1, AscendingIsOrdered
<1>4. \A m, n \in 1 .. C : m < n => s[m] < s[n]
  BY <1>1, AscendingIsOrdered
<1>5. 1 \in 1 .. C
  <2>1. PICK e \in S : TRUE
    OBVIOUS
  <2>2. PICK n \in 1 .. C : s[n] = e
    BY <1>3
  <2> QED BY <1>2, <2>2
<1>6. s[1] \in S
  BY <1>2, <1>5
<1>7. ASSUME NEW y \in S PROVE s[1] <= y
  <2>1. PICK n \in 1 .. C : s[n] = y
    BY <1>3
  <2>2. n = 1 \/ 1 < n
    BY <1>2
  <2>3. n = 1 \/ s[1] < s[n]
    BY <1>4, <1>5, <2>2
  <2>4. s[1] \in Nat /\ s[n] \in Nat
    BY <1>6, <2>1
  <2> QED BY <2>1, <2>3, <2>4
<1> QED BY <1>6, <1>7

\* A set of numbers has a least one: the induction of the proofs about recursive
\* functions.
LEMMA Least ==
    ASSUME NEW S \in SUBSET Nat, S # {}
    PROVE  \E x \in S : \A y \in S : x <= y
<1>1. PICK b \in S : TRUE
  OBVIOUS
<1>2. PICK T : T = S \cap (0 .. b)
  OBVIOUS
<1>3. b \in T /\ T \in SUBSET Nat
  BY <1>2
<1>4. IsFiniteSet(T)
  <2>1. 0 \in Int /\ b \in Int
    OBVIOUS
  <2>2. IsFiniteSet(0 .. b)
    BY <2>1, FS_Interval
  <2> QED BY <1>2, <2>2, FS_Subset
<1>5. PICK x \in T : \A y \in T : x <= y
  BY <1>3, <1>4, FiniteLeast
<1>6. x \in S /\ x \in Nat /\ x <= b
  BY <1>2, <1>5
<1>7. ASSUME NEW y \in S PROVE x <= y
  BY <1>2, <1>5, <1>6
<1> QED BY <1>6, <1>7
=============================================================================
