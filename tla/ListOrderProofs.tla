-------------------------- MODULE ListOrderProofs --------------------------
EXTENDS ListOrder, FiniteSetTheorems, TLAPS

\* A key orders a set when it gives different elements different integers.
IsKey(S, key) ==
  /\ \A x \in S : key[x] \in Int
  /\ \A x, y \in S : key[x] = key[y] => x = y

\* The place of an element is a number between 1 and the size of the set.
LEMMA RankType ==
  ASSUME NEW S, IsFiniteSet(S), NEW key, IsKey(S, key), NEW x \in S
  PROVE  Rank(S, key, x) \in 1 .. Cardinality(S)
<1> DEFINE R == {y \in S : key[y] <= key[x]}
<1>1. IsFiniteSet(R) /\ Cardinality(R) <= Cardinality(S)
  <2>1. R \in SUBSET S
    OBVIOUS
  <2> HIDE DEF R
  <2>2. QED
    BY <2>1, FS_Subset
<1>2. R # {}
  BY DEF IsKey
<1> HIDE DEF R
<1>3. Cardinality(R) # 0 /\ Cardinality(R) \in Nat /\ Cardinality(S) \in Nat
  BY <1>1, <1>2, FS_EmptySet, FS_CardinalityType
<1>4. Cardinality(R) \in 1 .. Cardinality(S)
  BY <1>1, <1>3
<1>5. QED
  BY <1>4 DEF Rank, R

\* A smaller key means an earlier place.
LEMMA RankMonotone ==
  ASSUME NEW S, IsFiniteSet(S), NEW key, IsKey(S, key),
         NEW x \in S, NEW y \in S, key[x] < key[y]
  PROVE  Rank(S, key, x) < Rank(S, key, y)
<1> DEFINE A == {z \in S : key[z] <= key[x]}
           B == {z \in S : key[z] <= key[y]}
<1>1. A \in SUBSET B
  BY DEF IsKey
<1>2. y \in B /\ y \notin A
  BY DEF IsKey
<1>3. IsFiniteSet(B)
  <2>1. B \in SUBSET S
    OBVIOUS
  <2> HIDE DEF B
  <2>2. QED
    BY <2>1, FS_Subset
<1> HIDE DEF A, B
<1>4. Cardinality(A) \in Nat /\ Cardinality(B) \in Nat /\ Cardinality(A) <= Cardinality(B)
  BY <1>1, <1>3, FS_Subset, FS_CardinalityType
<1>5. Cardinality(A) # Cardinality(B)
  BY <1>1, <1>2, <1>3, FS_Subset
<1>6. Cardinality(A) < Cardinality(B)
  BY <1>4, <1>5
<1>7. QED
  BY <1>6 DEF Rank, A, B

\* Every place between 1 and the size of the set is taken by one element.
LEMMA RankBijective ==
  ASSUME NEW S, IsFiniteSet(S), NEW key, IsKey(S, key)
  PROVE  /\ \A k \in 1 .. Cardinality(S) : \E x \in S : Rank(S, key, x) = k
         /\ \A x, y \in S : Rank(S, key, x) = Rank(S, key, y) => x = y
<1> DEFINE n == Cardinality(S)
           r == [x \in S |-> Rank(S, key, x)]
<1>1. \A x, y \in S : Rank(S, key, x) = Rank(S, key, y) => x = y
  <2> SUFFICES ASSUME NEW x \in S, NEW y \in S, x # y
               PROVE  Rank(S, key, x) # Rank(S, key, y)
    OBVIOUS
  <2>1. key[x] < key[y] \/ key[y] < key[x]
    BY DEF IsKey
  <2>2. Rank(S, key, x) \in Int /\ Rank(S, key, y) \in Int
    BY RankType
  <2>3. QED
    BY <2>1, <2>2, RankMonotone
<1>2. n \in Nat
  BY FS_CardinalityType
<1>3. r \in Injection(S, 1 .. n)
  BY <1>1, RankType DEF Injection, IsInjective
<1>4. IsFiniteSet(1 .. n) /\ Cardinality(1 .. n) = n
  BY <1>2, FS_Interval
<1>5. r \in Surjection(S, 1 .. n)
  BY <1>3, <1>4, FS_Injection
<1>6. QED
  BY <1>1, <1>5 DEF Surjection

\* InOrder lists every element of the set once, by increasing key.
LEMMA InOrderLists ==
  ASSUME NEW S, IsFiniteSet(S), NEW key, IsKey(S, key)
  PROVE  /\ InOrder(S, key) \in Seq(S)
         /\ Len(InOrder(S, key)) = Cardinality(S)
         /\ Range(InOrder(S, key)) = S
         /\ \A i, j \in DOMAIN InOrder(S, key) :
              InOrder(S, key)[i] = InOrder(S, key)[j] => i = j
         /\ \A i \in DOMAIN InOrder(S, key) : Rank(S, key, InOrder(S, key)[i]) = i
<1> DEFINE n == Cardinality(S)
           q == InOrder(S, key)
<1>1. n \in Nat
  BY FS_CardinalityType
<1>2. \A k \in 1 .. n : q[k] \in S /\ Rank(S, key, q[k]) = k
  BY RankBijective DEF InOrder
<1>3. q \in [1 .. n -> S]
  BY <1>2 DEF InOrder
<1> HIDE DEF q
<1>4. q \in Seq(S) /\ Len(q) = n /\ DOMAIN q = 1 .. n
  BY <1>1, <1>3
<1>5. \A i, j \in 1 .. n : q[i] = q[j] => i = j
  BY <1>2
<1>6. \A x \in S : \E k \in 1 .. n : q[k] = x
  BY <1>2, RankBijective, RankType
<1>7. Range(q) = S
  BY <1>2, <1>4, <1>6 DEF Range
<1>8. QED
  BY <1>2, <1>4, <1>5, <1>7 DEF q

\* The first n elements are as many as there are, and n at most.
LEMMA FirstNSize ==
  ASSUME NEW S, IsFiniteSet(S), NEW key, IsKey(S, key), NEW n \in Int
  PROVE  /\ FirstN(S, key, n) \subseteq S
         /\ IsFiniteSet(FirstN(S, key, n))
         /\ n >= Cardinality(S) => FirstN(S, key, n) = S
         /\ n <= 0 => FirstN(S, key, n) = {}
         /\ n \in 0 .. Cardinality(S) => Cardinality(FirstN(S, key, n)) = n
<1> DEFINE F == FirstN(S, key, n)
           r == [x \in F |-> Rank(S, key, x)]
<1>1. F \in SUBSET S
  BY DEF FirstN
<1>2. Cardinality(S) \in Nat /\ \A x \in S : Rank(S, key, x) \in 1 .. Cardinality(S)
  BY RankType, FS_CardinalityType
<1>3. \A x \in S : x \in F <=> Rank(S, key, x) <= n
  BY DEF FirstN
<1> HIDE DEF F
<1>4. IsFiniteSet(F)
  BY <1>1, FS_Subset
<1>5. n >= Cardinality(S) => F = S
  BY <1>1, <1>2, <1>3
<1>6. n <= 0 => F = {}
  BY <1>1, <1>2, <1>3
<1>7. ASSUME n \in 0 .. Cardinality(S) PROVE Cardinality(F) = n
  <2>1. \A x \in F : r[x] \in 1 .. n
    BY <1>1, <1>2, <1>3, <1>7
  <2>2. \A x, y \in F : r[x] = r[y] => x = y
    BY <1>1, RankBijective
  <2>3. \A k \in 1 .. n : \E x \in F : r[x] = k
    <3> SUFFICES ASSUME NEW k \in 1 .. n PROVE \E x \in F : r[x] = k
      OBVIOUS
    <3>1. k \in 1 .. Cardinality(S)
      BY <1>2, <1>7
    <3>2. PICK x \in S : Rank(S, key, x) = k
      BY <3>1, RankBijective
    <3>3. x \in F
      BY <1>3, <1>7, <3>2
    <3>4. QED
      BY <3>2, <3>3
  <2>4. r \in Injection(F, 1 .. n) /\ r \in Surjection(F, 1 .. n)
    BY <2>1, <2>2, <2>3 DEF Injection, Surjection, IsInjective
  <2>5. IsFiniteSet(1 .. n) /\ Cardinality(1 .. n) = n
    BY <1>2, <1>7, FS_Interval
  <2> HIDE DEF r
  <2>6. QED
    BY <2>4, <2>5, FS_Injection
<1>8. QED
  BY <1>1, <1>4, <1>5, <1>6, <1>7 DEF F

\* A finite set that is not empty has an element of the smallest key.
LEMMA SmallestKey ==
  ASSUME NEW S, IsFiniteSet(S), S # {}, NEW key, IsKey(S, key)
  PROVE  \E x \in S : \A y \in S : key[x] <= key[y]
<1>1. Cardinality(S) \in Nat /\ Cardinality(S) # 0
  BY FS_CardinalityType, FS_EmptySet
<1>2. PICK x \in S : Rank(S, key, x) = 1
  <2>1. 1 \in 1 .. Cardinality(S)
    BY <1>1
  <2>2. QED
    BY <2>1, RankBijective
<1>3. ASSUME NEW y \in S PROVE key[x] <= key[y]
  <2>1. ~ (key[y] < key[x])
    BY <1>1, <1>2, RankMonotone, RankType
  <2>2. QED
    BY <2>1 DEF IsKey
<1>4. QED
  BY <1>3

\* A list of distinct entries gives each entry the place it stands at.
LEMMA PlacesIsKey ==
  ASSUME NEW list, NEW T, list \in Seq(T), IsInjective(list), NEW S,
         S \subseteq Range(list)
  PROVE  /\ IsKey(S, Places(list))
         /\ \A x \in S : Places(list)[x] \in DOMAIN list /\ list[Places(list)[x]] = x
<1>1. \A x \in Range(list) : \E i \in DOMAIN list : list[i] = x
  BY DEF Range
<1>2. \A x \in S : Places(list)[x] \in DOMAIN list /\ list[Places(list)[x]] = x
  BY <1>1 DEF Places
<1>3. DOMAIN list \subseteq Int
  OBVIOUS
<1>4. QED
  BY <1>2, <1>3 DEF IsKey

\* The entries of a list are finitely many.
LEMMA RangeFinite ==
  ASSUME NEW T, NEW list \in Seq(T)
  PROVE  IsFiniteSet(Range(list)) /\ Range(list) \subseteq T
<1>1. DOMAIN list = 1 .. Len(list) /\ Len(list) \in Nat
  OBVIOUS
<1>2. IsFiniteSet(DOMAIN list)
  BY <1>1, FS_Interval
<1>3. list \in Surjection(DOMAIN list, Range(list))
  BY DEF Surjection, Range
<1>4. IsFiniteSet(Range(list))
  BY <1>2, <1>3, FS_Surjection
<1>5. Range(list) \subseteq T
  BY <1>1 DEF Range
<1>6. QED
  BY <1>4, <1>5

\* Keep leaves a list of distinct entries: those of the list that are in S.
LEMMA KeepLists ==
  ASSUME NEW T, NEW list \in Seq(T), IsInjective(list), NEW S
  PROVE  /\ Keep(list, S) \in Seq(T)
         /\ IsInjective(Keep(list, S))
         /\ Range(Keep(list, S)) = Range(list) \cap S
<1> DEFINE K == Range(list) \cap S
           key == Places(list)
<1>1. IsFiniteSet(K) /\ K \subseteq T /\ K \subseteq Range(list)
  <2>1. IsFiniteSet(Range(list)) /\ Range(list) \subseteq T
    BY RangeFinite
  <2>2. K \in SUBSET Range(list)
    OBVIOUS
  <2> HIDE DEF K
  <2>3. QED
    BY <2>1, <2>2, FS_Subset
<1>2. IsKey(K, key)
  BY <1>1, PlacesIsKey
<1> HIDE DEF K, key
<1>3. /\ InOrder(K, key) \in Seq(K)
      /\ Range(InOrder(K, key)) = K
      /\ \A i, j \in DOMAIN InOrder(K, key) :
           InOrder(K, key)[i] = InOrder(K, key)[j] => i = j
  BY <1>1, <1>2, InOrderLists
<1>4. InOrder(K, key) \in Seq(T)
  BY <1>1, <1>3
<1>5. IsInjective(InOrder(K, key))
  BY <1>3 DEF IsInjective
<1>6. Keep(list, S) = InOrder(K, key)
  BY DEF Keep, K, key
<1>7. QED
  BY <1>3, <1>4, <1>5, <1>6 DEF K
\* Two lists of distinct entries with nothing in common make one list of distinct entries.
LEMMA ConcatLists ==
  ASSUME NEW T, NEW a \in Seq(T), NEW b \in Seq(T), IsInjective(a), IsInjective(b),
         Range(a) \cap Range(b) = {}
  PROVE  /\ a \o b \in Seq(T)
         /\ IsInjective(a \o b)
         /\ Range(a \o b) = Range(a) \cup Range(b)
<1>1. /\ a \o b \in Seq(T)
      /\ Len(a) \in Nat /\ Len(b) \in Nat
      /\ DOMAIN a = 1 .. Len(a) /\ DOMAIN b = 1 .. Len(b)
      /\ DOMAIN (a \o b) = 1 .. Len(a) + Len(b)
  OBVIOUS
<1>2. /\ \A i \in 1 .. Len(a) : (a \o b)[i] = a[i]
      /\ \A i \in 1 .. Len(b) : (a \o b)[Len(a) + i] = b[i]
  OBVIOUS
<1>3. ASSUME NEW i \in 1 .. Len(a) + Len(b)
      PROVE  i \in 1 .. Len(a) \/ \E j \in 1 .. Len(b) : i = Len(a) + j
  <2>1. CASE i <= Len(a)
    BY <1>1, <2>1
  <2>2. CASE i > Len(a)
    <3>1. i - Len(a) \in 1 .. Len(b) /\ i = Len(a) + (i - Len(a))
      BY <1>1, <2>2
    <3>2. QED
      BY <3>1
  <2>3. QED
    BY <1>1, <2>1, <2>2
<1>4. ASSUME NEW i \in 1 .. Len(a) + Len(b), NEW j \in 1 .. Len(a) + Len(b),
             (a \o b)[i] = (a \o b)[j]
      PROVE  i = j
  <2>1. \A k \in 1 .. Len(a), l \in 1 .. Len(b) : a[k] # b[l]
    BY <1>1 DEF Range
  <2>2. CASE i \in 1 .. Len(a) /\ j \in 1 .. Len(a)
    BY <1>1, <1>2, <1>4, <2>2 DEF IsInjective
  <2>3. CASE \E k, l \in 1 .. Len(b) : i = Len(a) + k /\ j = Len(a) + l
    <3>1. PICK k \in 1 .. Len(b), l \in 1 .. Len(b) : i = Len(a) + k /\ j = Len(a) + l
      BY <2>3
    <3>2. b[k] = b[l]
      BY <1>2, <1>4, <3>1
    <3>3. QED
      BY <1>1, <3>1, <3>2 DEF IsInjective
  <2>4. ASSUME i \in 1 .. Len(a), NEW l \in 1 .. Len(b), j = Len(a) + l PROVE FALSE
    BY <1>2, <1>4, <2>1, <2>4
  <2>5. ASSUME j \in 1 .. Len(a), NEW k \in 1 .. Len(b), i = Len(a) + k PROVE FALSE
    BY <1>2, <1>4, <2>1, <2>5
  <2>6. QED
    BY <1>3, <2>2, <2>3, <2>4, <2>5
<1>5. Range(a \o b) = Range(a) \cup Range(b)
  <2>1. ASSUME NEW x \in Range(a \o b) PROVE x \in Range(a) \cup Range(b)
    <3>1. PICK i \in 1 .. Len(a) + Len(b) : (a \o b)[i] = x
      BY <1>1 DEF Range
    <3>2. CASE i \in 1 .. Len(a)
      BY <1>1, <1>2, <3>1, <3>2 DEF Range
    <3>3. ASSUME NEW k \in 1 .. Len(b), i = Len(a) + k PROVE x \in Range(b)
      BY <1>1, <1>2, <3>1, <3>3 DEF Range
    <3>4. QED
      BY <1>3, <3>2, <3>3
  <2>2. ASSUME NEW x \in Range(a) PROVE x \in Range(a \o b)
    <3>1. PICK i \in 1 .. Len(a) : a[i] = x
      BY <1>1 DEF Range
    <3>2. i \in 1 .. Len(a) + Len(b) /\ (a \o b)[i] = x
      BY <1>1, <1>2, <3>1
    <3>3. QED
      BY <1>1, <3>2 DEF Range
  <2>3. ASSUME NEW x \in Range(b) PROVE x \in Range(a \o b)
    <3>1. PICK i \in 1 .. Len(b) : b[i] = x
      BY <1>1 DEF Range
    <3>2. Len(a) + i \in 1 .. Len(a) + Len(b) /\ (a \o b)[Len(a) + i] = x
      BY <1>1, <1>2, <3>1
    <3>3. QED
      BY <1>1, <3>2 DEF Range
  <2>4. QED
    BY <2>1, <2>2, <2>3
<1>6. QED
  BY <1>1, <1>4, <1>5 DEF IsInjective

\* A list of distinct entries is appended one that it does not have.
LEMMA AppendLists ==
  ASSUME NEW T, NEW a \in Seq(T), IsInjective(a), NEW x \in T, x \notin Range(a)
  PROVE  /\ Append(a, x) \in Seq(T) /\ IsInjective(Append(a, x))
         /\ Range(Append(a, x)) = Range(a) \cup {x}
<1>1. /\ Append(a, x) \in Seq(T) /\ DOMAIN a = 1 .. Len(a) /\ Len(a) \in Nat
      /\ DOMAIN Append(a, x) = 1 .. (Len(a) + 1)
      /\ Append(a, x)[Len(a) + 1] = x /\ \A i \in 1 .. Len(a) : Append(a, x)[i] = a[i]
  OBVIOUS
<1>2. \A i \in 1 .. (Len(a) + 1) : i = Len(a) + 1 \/ i \in 1 .. Len(a)
  BY <1>1
<1>3. \A i \in 1 .. Len(a) : a[i] # x
  BY <1>1 DEF Range
<1>4. IsInjective(Append(a, x))
  BY <1>1, <1>2, <1>3 DEF IsInjective
<1>5. Range(Append(a, x)) = Range(a) \cup {x}
  BY <1>1, <1>2 DEF Range
<1> QED BY <1>1, <1>4, <1>5

\* A list over a set is a list over a larger one.
LEMMA SeqWidens ==
  ASSUME NEW S, NEW T, S \subseteq T, NEW s \in Seq(S)
  PROVE  s \in Seq(T)
OBVIOUS
=============================================================================
