--------------------------- MODULE Figures_proofs ---------------------------
(***************************************************************************)
(* What an analysis and the artifacts made of it are like, for any         *)
(* finitely many rows of a project: the figures of the metrics, the charts *)
(* and their evidence, the hotspots and the ranked units and entities.     *)
(***************************************************************************)
EXTENDS DecisionPack, Sequences, FiniteSetTheorems, TLAPS

-----------------------------------------------------------------------------
(* Counting *)

(* What a function makes of a finite set is finite, and as large as the    *)
(* set when it tells its elements apart.                                   *)
LEMMA Imaged ==
  ASSUME NEW S, IsFiniteSet(S), NEW f, DOMAIN f = S
  PROVE  /\ IsFiniteSet({f[x] : x \in S})
         /\ Cardinality({f[x] : x \in S}) <= Cardinality(S)
         /\ (\A x, y \in S : f[x] = f[y] => x = y) => Cardinality({f[x] : x \in S}) = Cardinality(S)
  <1>. DEFINE T == {f[x] : x \in S}
              g == [x \in S |-> f[x]]
  <1>1. g \in Surjection(S, T)
    BY DEF Surjection
  <1>2. (\A x, y \in S : f[x] = f[y] => x = y) => g \in Injection(S, T)
    BY <1>1 DEF Injection, Surjection, IsInjective
  <1>. HIDE DEF T, g
  <1>. QED
    BY <1>1, <1>2, FS_Surjection DEF T

LEMMA ImagedOnce ==
  ASSUME NEW S, IsFiniteSet(S), NEW f, DOMAIN f = S, \A x, y \in S : f[x] = f[y] => x = y,
         NEW T, T = {f[x] : x \in S}
  PROVE  Cardinality(T) = Cardinality(S)
  <1>1. PICK g : g = [x \in S |-> f[x]]
    OBVIOUS
  <1>2. g \in Bijection(S, T)
    BY <1>1 DEF Bijection, Injection, IsInjective, Surjection
  <1>. QED
    BY <1>2, FS_Bijection DEF ExistsBijection

(* The elements of a set that come before one of them. *)
Ahead(S, R, x) == {y \in S : <<y, x>> \in R}

StrictOrder(S, R) ==
    /\ \A x \in S : <<x, x>> \notin R
    /\ \A x, y \in S : x # y => <<x, y>> \in R \/ <<y, x>> \in R
    /\ \A x, y, z \in S : <<x, y>> \in R /\ <<y, z>> \in R => <<x, z>> \in R

LEMMA FewerAhead ==
  ASSUME NEW S, IsFiniteSet(S), NEW R, StrictOrder(S, R), NEW x \in S, NEW y \in S, <<x, y>> \in R
  PROVE  Cardinality(Ahead(S, R, x)) < Cardinality(Ahead(S, R, y))
  <1>1. Ahead(S, R, x) \in SUBSET Ahead(S, R, y)
    BY DEF Ahead, StrictOrder
  <1>2. x \in Ahead(S, R, y) /\ x \notin Ahead(S, R, x)
    BY DEF Ahead, StrictOrder
  <1>3. IsFiniteSet(Ahead(S, R, y))
    BY FS_Subset DEF Ahead
  <1>4. IsFiniteSet(Ahead(S, R, x))
    BY FS_Subset DEF Ahead
  <1>5. /\ Cardinality(Ahead(S, R, x)) <= Cardinality(Ahead(S, R, y))
        /\ Cardinality(Ahead(S, R, x)) # Cardinality(Ahead(S, R, y))
    BY <1>1, <1>2, <1>3, FS_Subset
  <1>6. Cardinality(Ahead(S, R, x)) \in Nat /\ Cardinality(Ahead(S, R, y)) \in Nat
    BY <1>3, <1>4, FS_CardinalityType
  <1>. QED
    BY <1>5, <1>6

(* Every rank of a finite ordered set is the rank of one element.          *)
LEMMA Ranked ==
  ASSUME NEW S, IsFiniteSet(S), NEW R, StrictOrder(S, R)
  PROVE  /\ \A x, y \in S : Cardinality(Ahead(S, R, x)) = Cardinality(Ahead(S, R, y)) => x = y
         /\ \A x \in S : Cardinality(Ahead(S, R, x)) \in 0..(Cardinality(S) - 1)
         /\ \A n \in 0..(Cardinality(S) - 1) : \E x \in S : Cardinality(Ahead(S, R, x)) = n
  <1>1. \A x, y \in S : Cardinality(Ahead(S, R, x)) = Cardinality(Ahead(S, R, y)) => x = y
    <2>1. SUFFICES ASSUME NEW x \in S, NEW y \in S, x # y
                   PROVE  Cardinality(Ahead(S, R, x)) # Cardinality(Ahead(S, R, y))
      OBVIOUS
    <2>2. Cardinality(Ahead(S, R, x)) \in Nat /\ Cardinality(Ahead(S, R, y)) \in Nat
      <3>1. Ahead(S, R, x) \in SUBSET S /\ Ahead(S, R, y) \in SUBSET S
        BY DEF Ahead
      <3>. QED
        BY <3>1, FS_Subset, FS_CardinalityType
    <2>3. CASE <<x, y>> \in R
      BY <2>2, <2>3, FewerAhead
    <2>4. CASE <<y, x>> \in R
      BY <2>2, <2>4, FewerAhead
    <2>. QED
      BY <2>1, <2>3, <2>4 DEF StrictOrder
  <1>2. \A x \in S : Cardinality(Ahead(S, R, x)) \in 0..(Cardinality(S) - 1)
    <2>1. SUFFICES ASSUME NEW x \in S
                   PROVE  Cardinality(Ahead(S, R, x)) \in 0..(Cardinality(S) - 1)
      OBVIOUS
    <2>2. Ahead(S, R, x) \in SUBSET S /\ x \notin Ahead(S, R, x)
      BY DEF Ahead, StrictOrder
    <2>3. /\ IsFiniteSet(Ahead(S, R, x)) /\ Cardinality(Ahead(S, R, x)) <= Cardinality(S)
          /\ Cardinality(Ahead(S, R, x)) # Cardinality(S)
      BY <2>2, FS_Subset
    <2>4. Cardinality(Ahead(S, R, x)) \in Nat /\ Cardinality(S) \in Nat
      BY <2>3, FS_CardinalityType
    <2>. QED
      BY <2>3, <2>4
  <1>3. \A n \in 0..(Cardinality(S) - 1) : \E x \in S : Cardinality(Ahead(S, R, x)) = n
    <2>. DEFINE rank == [x \in S |-> Cardinality(Ahead(S, R, x))]
    <2>1. PICK n : n = Cardinality(S)
      OBVIOUS
    <2>2. rank \in Injection(S, 0..(n - 1))
      BY <1>1, <1>2, <2>1 DEF Injection, IsInjective
    <2>3. IsFiniteSet(0..(n - 1)) /\ Cardinality(0..(n - 1)) = n
      <3>1. PICK last : last = n - 1
        OBVIOUS
      <3>2. n \in Nat
        BY <2>1, FS_CardinalityType
      <3>3. IsFiniteSet(0..last) /\ Cardinality(0..last) = IF 0 > last THEN 0 ELSE last - 0 + 1
        BY <3>1, <3>2, FS_Interval
      <3>. QED
        BY <3>1, <3>2, <3>3
    <2>4. rank \in Surjection(S, 0..(n - 1))
      <3>1. PICK places : places = 0..(n - 1)
        OBVIOUS
      <3>. HIDE DEF rank
      <3>2. rank \in Injection(S, places) /\ IsFiniteSet(places) /\ Cardinality(S) = Cardinality(places)
        BY <2>1, <2>2, <2>3, <3>1
      <3>3. rank \in Surjection(S, places)
        BY <3>2, FS_Injection
      <3>. QED
        BY <3>1, <3>3
    <2>. QED
      BY <2>1, <2>4 DEF Surjection
  <1>. QED
    BY <1>1, <1>2, <1>3

LEMMA RankApart ==
  ASSUME NEW S, IsFiniteSet(S), NEW R, StrictOrder(S, R), NEW x \in S, NEW y \in S,
         Cardinality(Ahead(S, R, x)) = Cardinality(Ahead(S, R, y))
  PROVE  x = y
  BY Ranked

LEMMA RankBounded ==
  ASSUME NEW S, IsFiniteSet(S), NEW R, StrictOrder(S, R), NEW x \in S
  PROVE  Cardinality(Ahead(S, R, x)) \in 0..(Cardinality(S) - 1)
  BY Ranked

LEMMA RankTaken ==
  ASSUME NEW S, IsFiniteSet(S), NEW R, StrictOrder(S, R), NEW r \in 0..(Cardinality(S) - 1)
  PROVE  \E x \in S : Cardinality(Ahead(S, R, x)) = r
  BY Ranked

(* The place of an element in its set of numbers leads back to it.         *)
LEMMA Placed ==
  ASSUME NEW S, IsFiniteSet(S), S \subseteq Int, NEW x \in S
  PROVE  AtPlace(S, PlaceOf(S, x)) = x /\ PlaceOf(S, x) \in 1..Cardinality(S)
  <1>. DEFINE R == {p \in S \X S : p[1] < p[2]}
  <1>1. StrictOrder(S, R)
    BY DEF StrictOrder
  <1>2. \A y \in S : Ahead(S, R, y) = {z \in S : z < y}
    BY DEF Ahead
  <1>. HIDE DEF R
  <1>3. /\ \A y, z \in S : Cardinality(Ahead(S, R, y)) = Cardinality(Ahead(S, R, z)) => y = z
        /\ \A y \in S : Cardinality(Ahead(S, R, y)) \in 0..(Cardinality(S) - 1)
    BY <1>1, Ranked
  <1>4. \A y \in S : PlaceOf(S, y) = Cardinality(Ahead(S, R, y)) + 1
    BY <1>2 DEF PlaceOf
  <1>5. \A y \in S : PlaceOf(S, y) = PlaceOf(S, x) => y = x
    BY <1>3, <1>4
  <1>6. Cardinality(S) \in Nat
    BY FS_CardinalityType
  <1>. QED
    BY <1>3, <1>4, <1>5, <1>6 DEF AtPlace

(* One of them comes first.                                                *)
LEMMA First ==
  ASSUME NEW S, IsFiniteSet(S), S # {}, NEW R, StrictOrder(S, R)
  PROVE  \E x \in S : Ahead(S, R, x) = {}
  <1>1. PICK n : n = Cardinality(S) - 1
    OBVIOUS
  <1>2. 0 \in 0..n
    BY <1>1, FS_CardinalityType, FS_EmptySet
  <1>3. \A m \in 0..n : \E x \in S : Cardinality(Ahead(S, R, x)) = m
    BY <1>1, RankTaken
  <1>4. PICK x \in S : Cardinality(Ahead(S, R, x)) = 0
    BY <1>2, <1>3
  <1>5. IsFiniteSet(Ahead(S, R, x))
    BY FS_Subset DEF Ahead
  <1>. QED
    BY <1>4, <1>5, FS_EmptySet

(* Of finitely many numbers one is least and one is greatest.              *)
LEMMA Extremes ==
  ASSUME NEW S, IsFiniteSet(S), S # {}, S \subseteq Int
  PROVE  /\ \E least \in S : \A n \in S : least <= n
         /\ \E most \in S : \A n \in S : n <= most
  <1>1. PICK less, more : less = {p \in S \X S : p[1] < p[2]} /\ more = {p \in S \X S : p[1] > p[2]}
    OBVIOUS
  <1>2. StrictOrder(S, less) /\ StrictOrder(S, more)
    BY <1>1 DEF StrictOrder
  <1>3. PICK x \in S, y \in S : Ahead(S, less, x) = {} /\ Ahead(S, more, y) = {}
    BY <1>2, First
  <1>4. \A n \in S : <<n, x>> \notin less /\ <<n, y>> \notin more
    BY <1>3 DEF Ahead
  <1>5. \A n \in S : ~(n < x) /\ ~(n > y)
    BY <1>1, <1>4
  <1>. QED
    BY <1>5

-----------------------------------------------------------------------------
(* Quartiles *)

Numbers(values) ==
    IsFiniteSet(DOMAIN values) /\ \A row \in DOMAIN values : values[row] \in Int

Below(values, v) == {row \in DOMAIN values : values[row] < v}
UpTo(values, v) == {row \in DOMAIN values : values[row] <= v}

LEMMA Counts ==
  ASSUME NEW values, Numbers(values), NEW v
  PROVE  /\ Cardinality(Below(values, v)) \in Nat /\ Cardinality(UpTo(values, v)) \in Nat
         /\ IsFiniteSet(Below(values, v)) /\ IsFiniteSet(UpTo(values, v))
  <1>1. Below(values, v) \in SUBSET DOMAIN values /\ UpTo(values, v) \in SUBSET DOMAIN values
    BY DEF Below, UpTo
  <1>. QED
    BY <1>1, FS_Subset, FS_CardinalityType DEF Numbers

(* There is a k-th smallest value: fewer than k lie below it, k up to it.  *)
LEMMA KthExists ==
  ASSUME NEW values, Numbers(values), NEW k \in 1..Cardinality(DOMAIN values)
  PROVE  /\ \E row \in DOMAIN values : Kth(values, k) = values[row]
         /\ Kth(values, k) \in Int
         /\ Cardinality(Below(values, Kth(values, k))) < k
         /\ k <= Cardinality(UpTo(values, Kth(values, k)))
  <1>. DEFINE V == {values[row] : row \in DOMAIN values}
              Enough == {v \in V : k <= Cardinality(UpTo(values, v))}
  <1>1. IsFiniteSet(V) /\ V \subseteq Int
    BY Imaged DEF Numbers
  <1>2. Cardinality(DOMAIN values) \in Nat /\ DOMAIN values # {} /\ IsFiniteSet(DOMAIN values)
    BY FS_CardinalityType, FS_EmptySet DEF Numbers
  <1>3. V # {}
    BY <1>2
  <1>4. Enough # {}
    <2>. HIDE DEF V
    <2>1. PICK most \in V : \A n \in V : n <= most
      BY <1>1, <1>3, Extremes
    <2>2. UpTo(values, most) = DOMAIN values
      BY <2>1 DEF V, UpTo
    <2>. QED
      BY <2>1, <2>2
  <1>5. PICK v \in Enough : \A u \in Enough : v <= u
    <2>1. IsFiniteSet(Enough) /\ Enough \subseteq Int
      <3>. HIDE DEF V
      <3>. QED
        BY <1>1, FS_Subset
    <2>. HIDE DEF Enough
    <2>. QED
      BY <1>4, <2>1, Extremes
  <1>6. Cardinality(Below(values, v)) < k
    <2>1. SUFFICES ASSUME k <= Cardinality(Below(values, v))
                   PROVE  FALSE
      BY Counts
    <2>. DEFINE U == {u \in V : u < v}
    <2>2. Below(values, v) # {}
      BY <2>1, FS_EmptySet
    <2>3. IsFiniteSet(U) /\ U \subseteq Int /\ U # {}
      <3>1. U # {}
        BY <2>2 DEF Below
      <3>. HIDE DEF V
      <3>. QED
        BY <1>1, <3>1, FS_Subset
    <2>4. PICK u \in U : \A n \in U : n <= u
      <3>. HIDE DEF U
      <3>. QED
        BY <2>3, Extremes
    <2>5. UpTo(values, u) = Below(values, v)
      <3>1. v \in Int /\ u \in Int /\ u < v
        BY <1>1, <2>4
      <3>. QED
        BY <2>4, <3>1 DEF UpTo, Below, Numbers
    <2>6. u \in Enough
      BY <2>1, <2>4, <2>5
    <2>7. v <= u /\ u < v /\ u \in Int /\ v \in Int
      BY <1>1, <1>5, <2>4, <2>6
    <2>. QED
      BY <2>7
  <1>. HIDE DEF V, Enough
  <1>7. v \in V /\ k <= Cardinality(UpTo(values, v))
    BY DEF Enough
  <1>8. Kth(values, k) = CHOOSE w \in V : Cardinality(Below(values, w)) < k /\ Cardinality(UpTo(values, w)) >= k
    BY DEF Kth, Below, UpTo, V
  <1>9. /\ Kth(values, k) \in V /\ Cardinality(Below(values, Kth(values, k))) < k
        /\ Cardinality(UpTo(values, Kth(values, k))) >= k
    BY <1>6, <1>7, <1>8
  <1>. QED
    BY <1>1, <1>9, Counts DEF V

LEMMA KthGrows ==
  ASSUME NEW values, Numbers(values), NEW j \in 1..Cardinality(DOMAIN values),
         NEW k \in 1..Cardinality(DOMAIN values), j <= k
  PROVE  Kth(values, j) <= Kth(values, k)
  <1>1. PICK v, w : v = Kth(values, j) /\ w = Kth(values, k)
    OBVIOUS
  <1>2. /\ v \in Int /\ w \in Int
        /\ Cardinality(Below(values, v)) < j /\ k <= Cardinality(UpTo(values, w))
    BY <1>1, KthExists
  <1>3. ASSUME w < v
        PROVE  FALSE
    <2>1. UpTo(values, w) \in SUBSET Below(values, v)
      BY <1>2, <1>3 DEF UpTo, Below, Numbers
    <2>2. Cardinality(UpTo(values, w)) <= Cardinality(Below(values, v))
      BY <2>1, Counts, FS_Subset
    <2>3. Cardinality(UpTo(values, w)) \in Nat /\ Cardinality(Below(values, v)) \in Nat
      BY Counts
    <2>. QED
      BY <1>2, <2>2, <2>3
  <1>. QED
    BY <1>1, <1>2, <1>3

(* A quartile is a number, unless there is no value.                       *)
LEMMA QuartileType ==
  ASSUME NEW values, Numbers(values), NEW q \in 1..3
  PROVE  /\ DOMAIN values # {} => Quartile(values, q) \in Int
         /\ DOMAIN values = {} => Quartile(values, q) = Null
  <1>. DEFINE n == Cardinality(DOMAIN values)
              low == ((n - 1) * q) \div 4
              part == ((n - 1) * q) % 4
  <1>1. CASE DOMAIN values = {}
    BY <1>1, FS_EmptySet DEF Quartile
  <1>2. CASE DOMAIN values # {}
    <2>1. n \in Nat /\ n > 0
      BY <1>2, FS_CardinalityType, FS_EmptySet DEF Numbers
    <2>2. low + 1 \in 1..n /\ part \in 0..3 /\ (part # 0 => low + 2 \in 1..n)
      <3>. HIDE DEF n
      <3>1. CASE q = 1
        BY <2>1, <3>1
      <3>2. CASE q = 2
        BY <2>1, <3>2
      <3>3. CASE q = 3
        BY <2>1, <3>3
      <3>. QED
        BY <3>1, <3>2, <3>3
    <2>3. \A k \in 1..n : Kth(values, k) \in Int
      BY KthExists
    <2>4. PICK a, b : a = Kth(values, low + 1) /\ b = Kth(values, low + 2)
      OBVIOUS
    <2>5. Quartile(values, q) = IF part = 0 THEN a ELSE a + ((b - a) * part) \div 4
      BY <2>1, <2>4 DEF Quartile
    <2>6. a \in Int /\ (part # 0 => b \in Int)
      BY <2>2, <2>3, <2>4
    <2>. HIDE DEF n, low, part
    <2>7. part # 0 => (b - a) * part \in Int
      BY <2>2, <2>6
    <2>. QED
      BY <1>2, <2>5, <2>6, <2>7
  <1>. QED
    BY <1>1, <1>2

(* The quartiles of the same values grow.                                  *)
LEMMA QuartileGrows ==
  ASSUME NEW values, Numbers(values), NEW p \in 1..3, NEW q \in 1..3, p <= q, DOMAIN values # {}
  PROVE  Quartile(values, p) <= Quartile(values, q)
  <1>. DEFINE n == Cardinality(DOMAIN values)
              low(r) == ((n - 1) * r) \div 4
              part(r) == ((n - 1) * r) % 4
  <1>1. n \in Nat /\ n > 0
    BY FS_CardinalityType, FS_EmptySet DEF Numbers
  <1>2. \A r \in 1..3 : /\ low(r) \in Nat /\ low(r) + 1 \in 1..n /\ part(r) \in 0..3
                        /\ part(r) # 0 => low(r) + 2 \in 1..n
    <2>. SUFFICES ASSUME NEW r \in 1..3
                  PROVE  /\ low(r) \in Nat /\ low(r) + 1 \in 1..n /\ part(r) \in 0..3
                         /\ part(r) # 0 => low(r) + 2 \in 1..n
      OBVIOUS
    <2>. HIDE DEF n
    <2>1. CASE r = 1
      BY <1>1, <2>1
    <2>2. CASE r = 2
      BY <1>1, <2>2
    <2>3. CASE r = 3
      BY <1>1, <2>3
    <2>. QED
      BY <2>1, <2>2, <2>3
  <1>3. low(p) < low(q) \/ (low(p) = low(q) /\ part(p) <= part(q))
    <2>. HIDE DEF n
    <2>1. CASE p = 1
      <3>1. q = 1 \/ q = 2 \/ q = 3
        BY SMT
      <3>. QED
        BY <1>1, <2>1, <3>1
    <2>2. CASE p = 2
      <3>1. q = 2 \/ q = 3
        BY <2>2
      <3>. QED
        BY <1>1, <2>2, <3>1
    <2>3. CASE p = 3
      <3>1. q = 3
        BY <2>3
      <3>. QED
        BY <1>1, <2>3, <3>1
    <2>. QED
      BY <2>1, <2>2, <2>3
  <1>4. \A k \in 1..n : Kth(values, k) \in Int
    BY KthExists
  <1>5. \A j, k \in 1..n : j <= k => Kth(values, j) <= Kth(values, k)
    BY KthGrows
  <1>. DEFINE a(r) == Kth(values, low(r) + 1)
              b(r) == Kth(values, low(r) + 2)
  <1>6. \A r \in 1..3 : Quartile(values, r)
                          = IF part(r) = 0 THEN a(r) ELSE a(r) + ((b(r) - a(r)) * part(r)) \div 4
    BY <1>1 DEF Quartile
  <1>. HIDE DEF n, low, part
  <1>7. \A r \in 1..3 : a(r) \in Int /\ (part(r) # 0 => b(r) \in Int /\ a(r) <= b(r))
    BY <1>2, <1>4, <1>5
  <1>. HIDE DEF a, b
  <1>8. \A r \in 1..3 : /\ part(r) = 0 => Quartile(values, r) = a(r)
                        /\ part(r) # 0 => /\ Quartile(values, r) = a(r) + ((b(r) - a(r)) * part(r)) \div 4
                                          /\ a(r) <= Quartile(values, r) /\ Quartile(values, r) <= b(r)
    <2>. SUFFICES ASSUME NEW r \in 1..3, part(r) # 0
                  PROVE  /\ Quartile(values, r) = a(r) + ((b(r) - a(r)) * part(r)) \div 4
                         /\ a(r) <= Quartile(values, r) /\ Quartile(values, r) <= b(r)
      BY <1>6
    <2>1. part(r) = 1 \/ part(r) = 2 \/ part(r) = 3
      BY <1>2
    <2>. QED
      BY <1>6, <1>7, <2>1
  <1>9. CASE low(p) < low(q)
    <2>1. a(p) <= a(q) /\ (part(p) # 0 => b(p) <= a(q))
      BY <1>2, <1>5, <1>9 DEF a, b
    <2>2. /\ a(p) \in Int /\ a(q) \in Int /\ (part(p) # 0 => b(p) \in Int) /\ (part(q) # 0 => b(q) \in Int)
      BY <1>7
    <2>. QED
      BY <1>8, <2>1, <2>2, QuartileType, SMTT(30)
  <1>10. CASE low(p) = low(q) /\ part(p) <= part(q)
    <2>1. a(p) = a(q) /\ b(p) = b(q)
      BY <1>10 DEF a, b
    <2>2. part(p) \in 0..3 /\ part(q) \in 0..3
      BY <1>2
    <2>3. CASE part(p) = 0
      BY <1>7, <1>8, <2>1, <2>3
    <2>4. CASE part(p) # 0
      BY <1>7, <1>8, <1>10, <2>1, <2>2, <2>4
    <2>. QED
      BY <2>3, <2>4
  <1>. QED
    BY <1>3, <1>9, <1>10

-----------------------------------------------------------------------------
(* The metrics of a set of rows *)

(* Rows as imported: finitely many, one of a unit and a day.               *)
Stock(R) ==
    /\ IsFiniteSet(R) /\ \A row \in R : SnapshotRow(row)
    /\ \A a, b \in R : a.unit = b.unit /\ a.date = b.date => a = b

(* Rows of which each is of another unit. *)
OneEach(S) ==
    /\ IsFiniteSet(S) /\ \A row \in S : SnapshotRow(row)
    /\ \A a, b \in S : a.unit = b.unit => a = b

LEMMA LatestOfEach ==
  ASSUME NEW R, Stock(R), NEW day \in Int, NEW scope
  PROVE  OneEach(SelectLatest(R, day, scope))
  <1>. DEFINE S == SelectLatest(R, day, scope)
  <1>1. S \in SUBSET R
    BY DEF SelectLatest
  <1>2. IsFiniteSet(S)
    BY <1>1, FS_Subset DEF Stock
  <1>3. ASSUME NEW a \in S, NEW b \in S, a.unit = b.unit
        PROVE  a = b
    <2>1. a \in R /\ b \in R /\ a.date \in Int /\ b.date \in Int
      BY <1>1 DEF Stock, SnapshotRow
    <2>2. a.date <= b.date /\ b.date <= a.date
      BY <1>3 DEF SelectLatest
    <2>. QED
      BY <1>3, <2>1, <2>2 DEF Stock
  <1>. QED
    BY <1>1, <1>2, <1>3 DEF Stock, OneEach

LEMMA PercentBounded ==
  ASSUME NEW n \in Nat, NEW d \in Nat, n <= d
  PROVE  Percent(n, d) \in {Null} \cup 0..100 * Scale /\ (d # 0 => Percent(n, d) \in Int)
  <1>1. CASE d = 0
    BY <1>1 DEF Percent
  <1>2. CASE d # 0
    <2>1. (100 * Scale * n) \div d \in 0..1200
      BY <1>2 DEF Scale
    <2>. QED
      BY <1>2, <2>1 DEF Percent, Scale
  <1>. QED
    BY <1>1, <1>2

(* Some of finitely many are counted by a number not above that of all.    *)
LEMMA CountOfSome ==
  ASSUME NEW S, IsFiniteSet(S), NEW T, T \subseteq S
  PROVE  Cardinality(T) \in Nat /\ Cardinality(S) \in Nat /\ Cardinality(T) <= Cardinality(S)
         /\ IsFiniteSet(T)
  BY FS_Subset, FS_CardinalityType

SomeRows(S) == IsFiniteSet(S) /\ \A row \in S : SnapshotRow(row)

(* A number, or nothing. *)
Figure == Int \cup {Null}

(* The rates are percentages. *)
LEMMA RatesBounded ==
  ASSUME NEW S, SomeRows(S), NEW day \in Int, NEW threshold, NEW key \in Rates
  PROVE  Summarize(S, day, threshold)[key] \in {Null} \cup 0..100 * Scale
  <1>1. PICK avail, aged, slow : /\ avail = Available(S) /\ aged = {row \in avail : row.since # Null}
                                 /\ slow = {row \in avail : Slow(row, day, threshold)}
    OBVIOUS
  <1>2. avail \subseteq S /\ aged \subseteq avail /\ avail \ aged \subseteq avail
    BY <1>1 DEF Available
  <1>3. slow \subseteq aged
    BY <1>1 DEF Slow, Age
  <1>4. IsFiniteSet(avail) /\ IsFiniteSet(aged)
    BY <1>2, FS_Subset DEF SomeRows
  <1>5. /\ Percent(Cardinality(avail), Cardinality(S)) \in {Null} \cup 0..100 * Scale
        /\ Percent(Cardinality(slow), Cardinality(aged)) \in {Null} \cup 0..100 * Scale
        /\ Percent(Cardinality(avail \ aged), Cardinality(avail)) \in {Null} \cup 0..100 * Scale
    BY <1>2, <1>3, <1>4, CountOfSome, PercentBounded DEF SomeRows
  <1>6. CASE key = "available_inventory_rate"
    <2>1. Summarize(S, day, threshold).available_inventory_rate
            = IF S = {} THEN Null ELSE Percent(Cardinality(avail), Cardinality(S))
      BY <1>1 DEF Summarize
    <2>. QED
      BY <1>5, <1>6, <2>1
  <1>7. CASE key = "slow_moving_rate"
    <2>1. Summarize(S, day, threshold).slow_moving_rate
            = IF S = {} THEN Null ELSE Percent(Cardinality(slow), Cardinality(aged))
      BY <1>1 DEF Summarize
    <2>. QED
      BY <1>5, <1>7, <2>1
  <1>8. CASE key = "missing_inventory_age_rate"
    <2>1. Summarize(S, day, threshold).missing_inventory_age_rate
            = IF S = {} THEN Null ELSE Percent(Cardinality(avail \ aged), Cardinality(avail))
      BY <1>1 DEF Summarize
    <2>. QED
      BY <1>5, <1>8, <2>1
  <1>. QED
    BY <1>6, <1>7, <1>8 DEF Rates

(* The counts are counts, and nothing only where there are no rows.        *)
LEMMA CountsCounted ==
  ASSUME NEW S, SomeRows(S), NEW day \in Int, NEW threshold
  PROVE  LET m == Summarize(S, day, threshold)
         IN  /\ m.total_inventory = IF S = {} THEN Null ELSE Scale * Cardinality(S)
             /\ m.available_inventory = IF S = {} THEN Null ELSE Scale * Cardinality(Available(S))
             /\ m.total_inventory \in Nat \cup {Null} /\ m.available_inventory \in Nat \cup {Null}
             /\ DOMAIN m.age_buckets = 1..6
             /\ \A b \in 1..6 : /\ m.age_buckets[b] = Scale * Cardinality(Bucket(S, day, b))
                                /\ m.age_buckets[b] \in Nat
             /\ \A p \in Periods : m.sold[p] = IF S = {} THEN Null
                                               ELSE Scale * Cardinality(SoldWithin(S, day, p))
  <1>1. PICK m : m = Summarize(S, day, threshold)
    OBVIOUS
  <1>2. /\ m.total_inventory = IF S = {} THEN Null ELSE Scale * Cardinality(S)
        /\ m.available_inventory = IF S = {} THEN Null ELSE Scale * Cardinality(Available(S))
        /\ m.sold = [p \in Periods |-> IF S = {} THEN Null ELSE Scale * Cardinality(SoldWithin(S, day, p))]
        /\ m.age_buckets = [b \in 1..6 |-> Scale * Cardinality(Bucket(S, day, b))]
    BY <1>1 DEF Summarize
  <1>3. Cardinality(S) \in Nat /\ Cardinality(Available(S)) \in Nat
    BY CountOfSome DEF SomeRows, Available
  <1>4. \A b \in 1..6 : Cardinality(Bucket(S, day, b)) \in Nat
    <2>1. \A b \in 1..6 : Bucket(S, day, b) \subseteq S
      BY DEF Bucket, Available
    <2>. QED
      BY <2>1, CountOfSome DEF SomeRows
  <1>. QED
    BY <1>1, <1>2, <1>3, <1>4 DEF Scale

LEMMA PriceType ==
  ASSUME NEW row, SnapshotRow(row)
  PROVE  PricePerArea(row) \in Figure
  <1>1. CASE Positive(row.price) = Null \/ Positive(row.area) = Null
    BY <1>1 DEF PricePerArea, Figure
  <1>2. CASE ~(Positive(row.price) = Null \/ Positive(row.area) = Null)
    <2>1. row.price \in Nat /\ row.area \in Nat /\ row.area # 0
      BY <1>2 DEF SnapshotRow, Positive
    <2>2. (Scale * row.price) \div row.area \in Int
      BY <2>1 DEF Scale
    <2>. QED
      BY <1>2, <2>2 DEF PricePerArea, Figure
  <1>. QED
    BY <1>1, <1>2

(* The values the quartiles of a summary are taken of.                     *)
LEMMA Measured ==
  ASSUME NEW S, SomeRows(S), NEW day \in Int, NEW aged, aged = {row \in Available(S) : row.since # Null},
         NEW priced, priced = {row \in Available(S) : PricePerArea(row) # Null}
  PROVE  /\ Numbers([row \in aged |-> Scale * Age(row, day)])
         /\ Numbers([row \in priced |-> PricePerArea(row)])
  <1>1. aged \subseteq S /\ priced \subseteq S
    BY DEF Available
  <1>2. IsFiniteSet(aged) /\ IsFiniteSet(priced)
    BY <1>1, FS_Subset DEF SomeRows
  <1>3. \A row \in aged : Age(row, day) \in Int
    BY <1>1 DEF Age, SomeRows, SnapshotRow, Available
  <1>4. \A row \in aged : Scale * Age(row, day) \in Int
    BY <1>3 DEF Scale
  <1>5. \A row \in priced : PricePerArea(row) \in Int
    BY <1>1, PriceType DEF SomeRows, Figure
  <1>. QED
    BY <1>2, <1>4, <1>5 DEF Numbers

(* The quartiles a summary holds are figures, and each is not below a      *)
(* lower one.                                                              *)
LEMMA QuartilesOrdered ==
  ASSUME NEW S, SomeRows(S), NEW day \in Int, NEW threshold
  PROVE  LET m == Summarize(S, day, threshold)
         IN  /\ m.median_inventory_age_days \in Figure /\ m.p75_inventory_age_days \in Figure
             /\ m.p25_price_per_area \in Figure /\ m.median_price_per_area \in Figure
             /\ m.p75_price_per_area \in Figure
             /\ m.median_inventory_age_days # Null /\ m.p75_inventory_age_days # Null
                  => m.median_inventory_age_days <= m.p75_inventory_age_days
             /\ m.p25_price_per_area # Null /\ m.median_price_per_area # Null
                  => m.p25_price_per_area <= m.median_price_per_area
             /\ m.median_price_per_area # Null /\ m.p75_price_per_area # Null
                  => m.median_price_per_area <= m.p75_price_per_area
  <1>1. PICK m, aged, priced, one :
          /\ m = Summarize(S, day, threshold)
          /\ aged = {row \in Available(S) : row.since # Null}
          /\ priced = {row \in Available(S) : PricePerArea(row) # Null}
          /\ one = (Cardinality({row.currency : row \in Available(S)}) <= 1)
    OBVIOUS
  <1>2. PICK ages, rates : /\ ages = [row \in aged |-> Scale * Age(row, day)]
                           /\ rates = [row \in priced |-> PricePerArea(row)]
    OBVIOUS
  <1>3. Numbers(ages) /\ Numbers(rates)
    BY <1>1, <1>2, Measured
  <1>4. /\ m.median_inventory_age_days = Quartile(ages, 2)
        /\ m.p75_inventory_age_days = Quartile(ages, 3)
        /\ m.p25_price_per_area = IF one THEN Quartile(rates, 1) ELSE Null
        /\ m.median_price_per_area = IF one THEN Quartile(rates, 2) ELSE Null
        /\ m.p75_price_per_area = IF one THEN Quartile(rates, 3) ELSE Null
    BY <1>1, <1>2 DEF Summarize
  <1>5. \A q \in 1..3 : Quartile(ages, q) \in Figure /\ Quartile(rates, q) \in Figure
    BY <1>3, QuartileType DEF Figure
  <1>6. /\ DOMAIN ages # {} => Quartile(ages, 2) <= Quartile(ages, 3)
        /\ DOMAIN ages = {} => Quartile(ages, 2) = Null
    BY <1>3, QuartileGrows, QuartileType
  <1>7. /\ DOMAIN rates # {} => /\ Quartile(rates, 1) <= Quartile(rates, 2)
                                /\ Quartile(rates, 2) <= Quartile(rates, 3)
        /\ DOMAIN rates = {} => Quartile(rates, 1) = Null /\ Quartile(rates, 2) = Null
    BY <1>3, QuartileGrows, QuartileType
  <1>8. Null \in Figure
    BY DEF Figure
  <1>9. /\ m.median_inventory_age_days \in Figure /\ m.p75_inventory_age_days \in Figure
        /\ m.p25_price_per_area \in Figure /\ m.median_price_per_area \in Figure
        /\ m.p75_price_per_area \in Figure
    BY <1>4, <1>5, <1>8
  <1>. QED
    BY <1>1, <1>4, <1>6, <1>7, <1>9

(* Every metric a comparison or a breakdown holds is a figure.             *)
LEMMA MetricFigures ==
  ASSUME NEW S, SomeRows(S), NEW day \in Int, NEW threshold, NEW key \in BrokenDown \cup Compared
  PROVE  Summarize(S, day, threshold)[key] \in Figure
  <1>1. CASE key \in Rates
    BY <1>1, RatesBounded, SMTT(30) DEF Figure, Scale
  <1>2. CASE key \in {"total_inventory", "available_inventory"}
    BY <1>2, CountsCounted DEF Figure
  <1>3. CASE key \in {"median_inventory_age_days", "median_price_per_area"}
    BY <1>3, QuartilesOrdered
  <1>. QED
    BY <1>1, <1>2, <1>3 DEF BrokenDown, Compared, Rates

-----------------------------------------------------------------------------
(* What every analysis of such rows is like *)

Share == {Null} \cup 0..100 * Scale

ComparisonsFit(calc) ==
    \A p \in Periods, key \in Compared :
        LET comparison == calc.periods[p][key]
        IN  /\ comparison.current = calc.metrics[key]
            /\ comparison.delta # Null => comparison.prior # Null /\ comparison.current # Null

BreakdownsFit(calc) ==
    \A d \in Dimensions :
        LET parts == calc.breakdowns[d]
        IN  /\ IsFiniteSet(DOMAIN parts) /\ DOMAIN parts \subseteq Int
            /\ \A k \in DOMAIN parts : /\ \A key \in BrokenDown : parts[k][key] \in Figure
                                       /\ parts[k].slow_moving_rate \in Share
                                       /\ parts[k].available_inventory \in Nat

UnitsFit(calc) ==
    /\ IsFiniteSet(DOMAIN calc.units) /\ DOMAIN calc.units \subseteq Int
    /\ DOMAIN calc.peers = DOMAIN calc.units
    /\ \A u \in DOMAIN calc.units : /\ calc.units[u].age \in Figure /\ calc.units[u].slow \in BOOLEAN
                                    /\ calc.units[u].currency # Null
                                    /\ calc.peers[u].currency = calc.units[u].currency

MetricsFit(metrics) ==
    /\ \A key \in Rates : metrics[key] \in Share
    /\ metrics.available_inventory \in Nat \cup {Null}
    /\ DOMAIN metrics.age_buckets = 1..6 /\ \A b \in 1..6 : metrics.age_buckets[b] \in Nat

Analysed(calc) ==
    /\ calc.day \in Int /\ MetricsFit(calc.metrics)
    /\ ComparisonsFit(calc) /\ BreakdownsFit(calc) /\ UnitsFit(calc)
    /\ calc.changes = DetectChanges(calc.periods)
    /\ calc.candidates = Candidates(calc.changes, calc.metrics)

LEMMA BreakdownOf ==
  ASSUME NEW S, SomeRows(S), NEW day \in Int, NEW threshold, NEW d \in Dimensions
  PROVE  LET parts == Breakdown(S, day, threshold, d)
         IN  /\ IsFiniteSet(DOMAIN parts) /\ DOMAIN parts \subseteq Int
             /\ \A k \in DOMAIN parts :
                   parts[k] = Summarize({row \in S : DimensionValue(row, d) = k}, day, threshold)
  <1>1. PICK f : f = [row \in S |-> DimensionValue(row, d)]
    OBVIOUS
  <1>2. PICK keys : keys = {DimensionValue(row, d) : row \in S}
    OBVIOUS
  <1>3. keys = {f[row] : row \in S} /\ DOMAIN f = S
    BY <1>1, <1>2
  <1>4. IsFiniteSet(keys)
    BY <1>3, Imaged DEF SomeRows
  <1>5. keys \subseteq Int
    <2>1. SUFFICES ASSUME NEW row \in S
                   PROVE  DimensionValue(row, d) \in Int
      BY <1>2
    <2>2. /\ row.zone \in Int /\ row.type \in Int /\ row.bedrooms \in Nat \cup {Null}
          /\ row.status \in DOMAIN StatusOrder
      BY DEF SomeRows, SnapshotRow
    <2>3. StatusOrder[row.status] \in Int
      BY <2>2 DEF StatusOrder
    <2>. QED
      BY <2>2, <2>3 DEF DimensionValue, Dimensions, Unknown
  <1>6. Breakdown(S, day, threshold, d)
          = [k \in keys |-> Summarize({row \in S : DimensionValue(row, d) = k}, day, threshold)]
    BY <1>2 DEF Breakdown
  <1>. QED
    BY <1>4, <1>5, <1>6

LEMMA BreakdownFits ==
  ASSUME NEW S, SomeRows(S), NEW day \in Int, NEW threshold, NEW d \in Dimensions,
         NEW k \in DOMAIN Breakdown(S, day, threshold, d)
  PROVE  LET part == Breakdown(S, day, threshold, d)[k]
         IN  /\ \A key \in BrokenDown : part[key] \in Figure
             /\ part.slow_moving_rate \in Share /\ part.available_inventory \in Nat
  <1>1. PICK rows : rows = {row \in S : DimensionValue(row, d) = k}
    OBVIOUS
  <1>2. PICK part : part = Summarize(rows, day, threshold)
    OBVIOUS
  <1>3. SomeRows(rows)
    BY <1>1, FS_Subset DEF SomeRows
  <1>4. Breakdown(S, day, threshold, d)[k] = part
    BY <1>1, <1>2, BreakdownOf
  <1>5. "slow_moving_rate" \in Rates
    BY DEF Rates
  <1>6. part["slow_moving_rate"] \in Share
    BY <1>2, <1>3, <1>5, RatesBounded DEF Share
  <1>7. part.available_inventory \in Nat
    <2>1. rows # {}
      <3>1. DOMAIN Breakdown(S, day, threshold, d) = {DimensionValue(row, d) : row \in S}
        BY DEF Breakdown
      <3>2. PICK row \in S : k = DimensionValue(row, d)
        BY <3>1
      <3>. QED
        BY <1>1, <3>2
    <2>2. /\ part.available_inventory = IF rows = {} THEN Null ELSE Scale * Cardinality(Available(rows))
          /\ part.available_inventory \in Nat \cup {Null}
      BY <1>2, <1>3, CountsCounted
    <2>3. Cardinality(Available(rows)) \in Nat
      BY <1>3, CountOfSome DEF SomeRows, Available
    <2>. QED
      BY <2>1, <2>2, <2>3 DEF Scale
  <1>8. \A key \in BrokenDown : part[key] \in Figure
    BY <1>2, <1>3, MetricFigures
  <1>. QED
    BY <1>4, <1>6, <1>7, <1>8

LEMMA AgeType ==
  ASSUME NEW row, SnapshotRow(row), NEW day \in Int, NEW threshold
  PROVE  Age(row, day) \in Figure /\ Slow(row, day, threshold) \in BOOLEAN
  BY DEF SnapshotRow, Age, Slow, Figure

LEMMA Analysing ==
  ASSUME NEW rows, Stock(rows), NEW day \in Int, NEW scope, NEW threshold
  PROVE  Analysed(Analyze(rows, day, scope, threshold))
  <1>1. PICK current : current = SelectLatest(rows, day, scope)
    OBVIOUS
  <1>2. PICK metrics : metrics = Summarize(current, day, threshold)
    OBVIOUS
  <1>3. PICK periods : periods = PeriodComparisons(rows, metrics, day, scope, threshold)
    OBVIOUS
  <1>4. PICK calc : calc = Analyze(rows, day, scope, threshold)
    OBVIOUS
  <1>5. OneEach(current) /\ SomeRows(current)
    BY <1>1, LatestOfEach DEF OneEach, SomeRows
  <1>6. calc = AnalysisOf(current, periods, SnapshotCoverage(rows, current, day, scope), day, threshold)
    BY <1>1, <1>2, <1>3, <1>4 DEF Analyze
  <1>7. /\ calc.day = day /\ calc.metrics = metrics /\ calc.periods = periods
        /\ calc.breakdowns = Breakdowns(current, day, threshold)
        /\ calc.changes = DetectChanges(periods)
        /\ calc.candidates = Candidates(DetectChanges(periods), metrics)
        /\ calc.peers = Compare(current)
        /\ calc.units = [unit \in {row.unit : row \in current} |->
                           [status |-> (CHOOSE r \in current : r.unit = unit).status,
                            age |-> Age(CHOOSE r \in current : r.unit = unit, day),
                            slow |-> Slow(CHOOSE r \in current : r.unit = unit, day, threshold),
                            price |-> PricePerArea(CHOOSE r \in current : r.unit = unit),
                            currency |-> (CHOOSE r \in current : r.unit = unit).currency]]
    BY <1>2, <1>6 DEF AnalysisOf
  <1>8. MetricsFit(metrics)
    BY <1>2, <1>5, RatesBounded, CountsCounted DEF MetricsFit, Share
  <1>9. ComparisonsFit(calc)
    <2>1. SUFFICES ASSUME NEW p \in Periods, NEW key \in Compared
                   PROVE  /\ periods[p][key].current = metrics[key]
                          /\ periods[p][key].delta # Null
                               => periods[p][key].prior # Null /\ periods[p][key].current # Null
      BY <1>7 DEF ComparisonsFit
    <2>2. PICK before : before = SelectLatest(rows, day - p, scope)
      OBVIOUS
    <2>3. periods[p] = ComparedWith(before, day - p, metrics, threshold)
      BY <1>3, <2>2 DEF PeriodComparisons
    <2>. QED
      BY <2>3 DEF ComparedWith
  <1>10. BreakdownsFit(calc)
    <2>1. SUFFICES ASSUME NEW d \in Dimensions
                   PROVE  LET parts == calc.breakdowns[d]
                          IN  /\ IsFiniteSet(DOMAIN parts) /\ DOMAIN parts \subseteq Int
                              /\ \A k \in DOMAIN parts :
                                    /\ \A key \in BrokenDown : parts[k][key] \in Figure
                                    /\ parts[k].slow_moving_rate \in Share
                                    /\ parts[k].available_inventory \in Nat
      BY DEF BreakdownsFit
    <2>2. PICK parts : parts = Breakdown(current, day, threshold, d)
      OBVIOUS
    <2>3. calc.breakdowns[d] = parts
      BY <1>7, <2>2 DEF Breakdowns
    <2>4. IsFiniteSet(DOMAIN parts) /\ DOMAIN parts \subseteq Int
      BY <1>5, <2>2, BreakdownOf
    <2>5. \A k \in DOMAIN parts : /\ \A key \in BrokenDown : parts[k][key] \in Figure
                                  /\ parts[k].slow_moving_rate \in Share
                                  /\ parts[k].available_inventory \in Nat
      BY <1>5, <2>2, BreakdownFits
    <2>. QED
      BY <2>3, <2>4, <2>5
  <1>11. UnitsFit(calc)
    <2>1. DOMAIN calc.units = {row.unit : row \in current} /\ DOMAIN calc.peers = DOMAIN calc.units
      BY <1>7 DEF Compare
    <2>2. IsFiniteSet(DOMAIN calc.units) /\ DOMAIN calc.units \subseteq Int
      <3>1. PICK f : f = [row \in current |-> row.unit]
        OBVIOUS
      <3>2. DOMAIN calc.units = {f[row] : row \in current} /\ DOMAIN f = current
        BY <2>1, <3>1
      <3>3. IsFiniteSet(DOMAIN calc.units)
        BY <1>5, <3>2, Imaged DEF SomeRows
      <3>. QED
        BY <1>5, <2>1, <3>3 DEF SomeRows, SnapshotRow
    <2>3. ASSUME NEW u \in DOMAIN calc.units
          PROVE  /\ calc.units[u].age \in Figure /\ calc.units[u].slow \in BOOLEAN
                 /\ calc.units[u].currency # Null
                 /\ calc.peers[u].currency = calc.units[u].currency
      <3>1. PICK row : row = CHOOSE r \in current : r.unit = u
        OBVIOUS
      <3>2. row \in current
        BY <2>1, <3>1
      <3>3. /\ calc.units[u].age = Age(row, day) /\ calc.units[u].slow = Slow(row, day, threshold)
            /\ calc.units[u].currency = row.currency
        BY <1>7, <3>1
      <3>4. calc.peers[u].currency = row.currency
        BY <1>7, <2>1, <3>1 DEF Compare
      <3>. QED
        BY <1>5, <3>2, <3>3, <3>4, AgeType DEF SomeRows, SnapshotRow
    <2>. QED
      BY <2>1, <2>2, <2>3 DEF UnitsFit
  <1>. QED
    BY <1>4, <1>7, <1>8, <1>9, <1>10, <1>11 DEF Analysed

-----------------------------------------------------------------------------
(* Evidence paths *)

LEMMA PathValues ==
  ASSUME NEW calc
  PROVE  /\ \A key : ValueAt(calc, <<"metrics", key>>) = calc.metrics[key]
         /\ \A p : ValueAt(calc, <<"sold", p>>) = calc.metrics.sold[p]
         /\ \A b : ValueAt(calc, <<"buckets", b>>) = calc.metrics.age_buckets[b]
         /\ \A p, key, side : ValueAt(calc, <<"periods", p, key, side>>) = calc.periods[p][key][side]
         /\ \A d, key, i : ValueAt(calc, <<"breakdowns", d, key, i>>)
                             = calc.breakdowns[d][AtPlace(DOMAIN calc.breakdowns[d], i)][key]
         /\ \A i, key : ValueAt(calc, <<"units", i, key>>)
                          = calc.units[AtPlace(DOMAIN calc.units, i)][key]
         /\ \A i : ValueAt(calc, <<"peers", i>>) = calc.peers[AtPlace(DOMAIN calc.peers, i)].median
  BY DEF ValueAt

(* The item a path names by its place is the one it was written for.       *)
LEMMA PathOfPart ==
  ASSUME NEW calc, Analysed(calc), NEW d \in Dimensions, NEW k \in DOMAIN calc.breakdowns[d], NEW key
  PROVE  ValueAt(calc, <<"breakdowns", d, key, PlaceOf(DOMAIN calc.breakdowns[d], k)>>)
           = calc.breakdowns[d][k][key]
  <1>1. AtPlace(DOMAIN calc.breakdowns[d], PlaceOf(DOMAIN calc.breakdowns[d], k)) = k
    BY Placed DEF Analysed, BreakdownsFit
  <1>. QED
    BY <1>1, PathValues

LEMMA PathOfUnit ==
  ASSUME NEW calc, Analysed(calc), NEW u \in DOMAIN calc.units
  PROVE  /\ \A key : /\ ValueAt(calc, <<"units", PlaceOf(DOMAIN calc.units, u), key>>) = calc.units[u][key]
                     /\ CurrencyAt(calc, <<"units", PlaceOf(DOMAIN calc.units, u), key>>)
                          = calc.units[u].currency
         /\ ValueAt(calc, <<"peers", PlaceOf(DOMAIN calc.peers, u)>>) = calc.peers[u].median
         /\ CurrencyAt(calc, <<"peers", PlaceOf(DOMAIN calc.peers, u)>>) = calc.peers[u].currency
  <1>1. AtPlace(DOMAIN calc.units, PlaceOf(DOMAIN calc.units, u)) = u
    BY Placed DEF Analysed, UnitsFit
  <1>2. AtPlace(DOMAIN calc.peers, PlaceOf(DOMAIN calc.peers, u)) = u
    BY <1>1 DEF Analysed, UnitsFit
  <1>. QED
    BY <1>1, <1>2, PathValues DEF CurrencyAt

-----------------------------------------------------------------------------
(* Charts *)

LEMMA KpisValid ==
  ASSUME NEW calc, Analysed(calc), NEW chart \in Kpis(calc)
  PROVE  ValidChart(calc, chart)
  <1>1. PICK value, path, x : /\ chart.points = {Point(x, value, path)} /\ chart.type = "kpi"
                              /\ chart.intent = "inventory_kpi"
                              /\ value # Null /\ value = ValueAt(calc, path)
                              /\ IsRate(path) => value \in 0..100 * Scale
    <2>1. CASE \E key \in KpiMetrics : /\ calc.metrics[key] # Null
                                       /\ chart = Chart(<<"kpi", key>>, "inventory_kpi", "kpi",
                                                   {Point(key, calc.metrics[key], <<"metrics", key>>)})
      <3>1. PICK key \in KpiMetrics : /\ calc.metrics[key] # Null
                                      /\ chart = Chart(<<"kpi", key>>, "inventory_kpi", "kpi",
                                                  {Point(key, calc.metrics[key], <<"metrics", key>>)})
        BY <2>1
      <3>2. key \in Rates => calc.metrics[key] \in 0..100 * Scale
        BY <3>1 DEF Analysed, MetricsFit, Share
      <3>3. IsRate(<<"metrics", key>>) => key \in Rates
        BY DEF IsRate
      <3>4. ValueAt(calc, <<"metrics", key>>) = calc.metrics[key]
        BY PathValues
      <3>. QED
        BY <3>1, <3>2, <3>3, <3>4 DEF Chart
    <2>2. CASE \E sold \in {calc.metrics.sold[30]} \ {Null} :
                  chart = Chart(<<"kpi", "sold_units_30d">>, "inventory_kpi", "kpi",
                                {Point("sold_units_30d", sold, <<"sold", 30>>)})
      <3>1. ValueAt(calc, <<"sold", 30>>) = calc.metrics.sold[30] /\ ~IsRate(<<"sold", 30>>)
        BY PathValues DEF IsRate
      <3>. QED
        BY <2>2, <3>1 DEF Chart
    <2>. QED
      BY <2>1, <2>2 DEF Kpis
  <1>2. Cardinality(chart.points) = 1
    BY <1>1, FS_Singleton
  <1>. QED
    BY <1>1, <1>2 DEF ValidChart, Point

LEMMA TrendValid ==
  ASSUME NEW calc, Analysed(calc), NEW chart \in Trend(calc)
  PROVE  ValidChart(calc, chart)
  <1>. DEFINE key == "available_inventory"
  <1>1. PICK earlier, points :
          /\ earlier = {p \in Periods : calc.periods[p][key].delta # Null}
          /\ points = {Point(calc.day - p, calc.periods[p][key].prior, <<"periods", p, key, "prior">>) :
                         p \in earlier}
                      \cup {Point(calc.day, now, <<"metrics", key>>) : now \in {calc.metrics[key]} \ {Null}}
    OBVIOUS
  <1>2. /\ chart = Chart("inventory_trend", "inventory_trend", "line", points)
        /\ ~(Cardinality(points) < 2)
    BY <1>1 DEF Trend
  <1>3. IsFiniteSet(points) /\ Cardinality(points) \in Nat
    <2>. DEFINE past(p) == Point(calc.day - p, calc.periods[p][key].prior, <<"periods", p, key, "prior">>)
                today == Point(calc.day, calc.metrics[key], <<"metrics", key>>)
    <2>1. PICK most : most = (({past(7)} \cup {past(30)}) \cup {past(90)}) \cup {today}
      OBVIOUS
    <2>2. IsFiniteSet(most)
      BY <2>1, FS_Singleton, FS_Union, ZenonT(60)
    <2>3. points \subseteq most
      BY <1>1, <2>1, ZenonT(60) DEF Periods
    <2>. QED
      BY <2>2, <2>3, FS_Subset, FS_CardinalityType
  <1>4. Cardinality(points) >= 2
    BY <1>2, <1>3
  <1>5. /\ chart.points = points /\ chart.type = "line" /\ chart.intent = "inventory_trend"
    BY <1>2 DEF Chart
  <1>6. points # {}
    BY <1>3, <1>4, FS_EmptySet
  <1>7. ASSUME NEW point \in points
        PROVE  \/ /\ point.x = calc.day /\ point.value = calc.metrics[key] /\ calc.metrics[key] # Null
                  /\ point.path = <<"metrics", key>>
               \/ \E p \in Periods : /\ point.x = calc.day - p /\ point.path = <<"periods", p, key, "prior">>
                                     /\ point.value = calc.periods[p][key].prior
                                     /\ calc.periods[p][key].prior # Null
    <2>1. \A p \in Periods : calc.periods[p][key].delta # Null => calc.periods[p][key].prior # Null
      BY DEF Analysed, ComparisonsFit, Compared
    <2>. QED
      BY <1>1, <2>1 DEF Point
  <1>8. \A point \in points : /\ point.value # Null /\ point.value = ValueAt(calc, point.path)
                              /\ ~IsRate(point.path) /\ point.x <= calc.day
    <2>1. SUFFICES ASSUME NEW point \in points
                   PROVE  /\ point.value # Null /\ point.value = ValueAt(calc, point.path)
                          /\ ~IsRate(point.path) /\ point.x <= calc.day
      OBVIOUS
    <2>2. calc.day \in Int
      BY DEF Analysed
    <2>3. CASE /\ point.x = calc.day /\ point.value = calc.metrics[key] /\ calc.metrics[key] # Null
               /\ point.path = <<"metrics", key>>
      BY <2>2, <2>3, PathValues DEF IsRate, Rates
    <2>4. CASE \E p \in Periods : /\ point.x = calc.day - p /\ point.path = <<"periods", p, key, "prior">>
                                  /\ point.value = calc.periods[p][key].prior
                                  /\ calc.periods[p][key].prior # Null
      <3>1. PICK p \in Periods : /\ point.x = calc.day - p /\ point.path = <<"periods", p, key, "prior">>
                                 /\ point.value = calc.periods[p][key].prior
                                 /\ calc.periods[p][key].prior # Null
        BY <2>4
      <3>2. point.value = ValueAt(calc, point.path) /\ ~IsRate(point.path)
        BY <3>1, PathValues DEF IsRate
      <3>3. point.x <= calc.day
        BY <2>2, <3>1 DEF Periods
      <3>. QED
        BY <3>1, <3>2, <3>3
    <2>. QED
      BY <1>7, <2>3, <2>4
  <1>9. \A a, b \in points : a.x = b.x => a = b
    <2>1. calc.day \in Int
      BY DEF Analysed
    <2>2. \A a \in points : \/ a = Point(calc.day, calc.metrics[key], <<"metrics", key>>)
                            \/ \E p \in Periods :
                                 a = Point(calc.day - p, calc.periods[p][key].prior, <<"periods", p, key, "prior">>)
      BY <1>1
    <2>. QED
      BY <2>1, <2>2 DEF Point, Periods
  <1>. QED
    BY <1>8, <1>9, <1>4, <1>5, <1>6 DEF ValidChart

LEMMA AgingValid ==
  ASSUME NEW calc, Analysed(calc), NEW chart \in Aging(calc)
  PROVE  ValidChart(calc, chart)
  <1>1. PICK points : /\ chart = Chart("aging_distribution", "aging_distribution", "bar", points)
                      /\ points = {Point(b, calc.metrics.age_buckets[b], <<"buckets", b>>) : b \in 1..6}
    BY DEF Aging, Analysed, MetricsFit
  <1>2. chart.points = points /\ chart.type = "bar" /\ chart.intent = "aging_distribution"
    BY <1>1 DEF Chart
  <1>3. points # {}
    <2>1. 1 \in 1..6
      OBVIOUS
    <2>. QED
      BY <1>1, <2>1
  <1>4. \A point \in points : /\ point.value # Null /\ point.value = ValueAt(calc, point.path)
                              /\ ~IsRate(point.path)
    <2>1. SUFFICES ASSUME NEW b \in 1..6
                   PROVE  /\ calc.metrics.age_buckets[b] # Null /\ ~IsRate(<<"buckets", b>>)
                          /\ calc.metrics.age_buckets[b] = ValueAt(calc, <<"buckets", b>>)
      BY <1>1 DEF Point
    <2>2. calc.metrics.age_buckets[b] \in Nat
      BY DEF Analysed, MetricsFit
    <2>. QED
      BY <2>2, PathValues, NullIsNoNumber DEF IsRate
  <1>. QED
    BY <1>2, <1>3, <1>4 DEF ValidChart

LEMMA BreakdownChartValid ==
  ASSUME NEW calc, Analysed(calc), NEW d \in Dimensions,
         NEW intent \in {"slow_moving_by_segment", "inventory_composition"},
         NEW metric \in {"slow_moving_rate", "available_inventory"},
         intent = "inventory_composition" => metric = "available_inventory",
         NEW chart \in BreakdownChart(calc, intent, d, metric)
  PROVE  ValidChart(calc, chart)
  <1>1. PICK items, drawn, type, points :
          /\ items = calc.breakdowns[d]
          /\ drawn = {key \in DOMAIN items : items[key][metric] # Null}
          /\ type = IF intent = "inventory_composition" THEN "donut" ELSE "bar"
          /\ points = {Point(key, items[key][metric],
                             <<"breakdowns", d, metric, PlaceOf(DOMAIN items, key)>>) : key \in drawn}
    OBVIOUS
  <1>2. /\ chart = Chart(intent, intent, type, points) /\ drawn # {}
        /\ type = "donut" => \E key \in drawn : items[key][metric] # 0
    BY <1>1 DEF BreakdownChart
  <1>3. chart.points = points /\ chart.type = type /\ chart.intent = intent /\ type \in {"donut", "bar"}
    BY <1>1, <1>2 DEF Chart
  <1>4. points # {}
    BY <1>1, <1>2
  <1>5. \A key \in drawn : /\ items[key].slow_moving_rate \in Share
                           /\ items[key].available_inventory \in Nat
    BY <1>1 DEF Analysed, BreakdownsFit
  <1>6. \A point \in points : /\ point.value # Null /\ point.value = ValueAt(calc, point.path)
                              /\ IsRate(point.path) => point.value \in 0..100 * Scale
    <2>1. SUFFICES ASSUME NEW key \in drawn, NEW path,
                          path = <<"breakdowns", d, metric, PlaceOf(DOMAIN items, key)>>
                   PROVE  /\ items[key][metric] # Null /\ items[key][metric] = ValueAt(calc, path)
                          /\ IsRate(path) => items[key][metric] \in 0..100 * Scale
      BY <1>1 DEF Point
    <2>2. items[key][metric] = ValueAt(calc, path)
      BY <1>1, <2>1, PathOfPart
    <2>3. IsRate(path) => metric = "slow_moving_rate"
      BY <2>1 DEF IsRate, Rates
    <2>. QED
      BY <1>1, <1>5, <2>2, <2>3 DEF Share
  <1>7. type = "donut" => \E point \in points : point.value > 0
    <2>1. SUFFICES ASSUME type = "donut"
                   PROVE  \E point \in points : point.value > 0
      OBVIOUS
    <2>2. PICK key \in drawn : items[key][metric] # 0
      BY <1>2, <2>1
    <2>3. metric = "available_inventory"
      BY <1>1, <2>1
    <2>4. items[key][metric] \in Nat
      BY <1>1, <1>5, <2>3
    <2>5. PICK point \in points :
            point = Point(key, items[key][metric], <<"breakdowns", d, metric, PlaceOf(DOMAIN items, key)>>)
      BY <1>1
    <2>6. point.value = items[key][metric]
      BY <2>5 DEF Point
    <2>. QED
      BY <2>2, <2>4, <2>6
  <1>. QED
    BY <1>3, <1>4, <1>6, <1>7 DEF ValidChart

LEMMA PriceChartValid ==
  ASSUME NEW calc, Analysed(calc), NEW chart \in PriceChart(calc)
  PROVE  ValidChart(calc, chart)
  <1>1. PICK points : points = {Point(key, calc.metrics[key], <<"metrics", key>>) : key \in PriceKeys}
    OBVIOUS
  <1>2. /\ chart = Chart("price_distribution", "price_distribution", "bar", points)
        /\ \A key \in PriceKeys : calc.metrics[key] # Null
        /\ calc.metrics.currency # Null
    BY <1>1 DEF PriceChart
  <1>3. chart.points = points /\ chart.type = "bar"
    BY <1>2 DEF Chart
  <1>4. \A point \in points : /\ point.value # Null /\ point.value = ValueAt(calc, point.path)
                              /\ ~IsRate(point.path)
                              /\ CurrencyAt(calc, point.path) = calc.metrics.currency
    <2>1. SUFFICES ASSUME NEW key \in PriceKeys
                   PROVE  /\ calc.metrics[key] = ValueAt(calc, <<"metrics", key>>)
                          /\ ~IsRate(<<"metrics", key>>)
                          /\ CurrencyAt(calc, <<"metrics", key>>) = calc.metrics.currency
      BY <1>1, <1>2 DEF Point
    <2>2. CurrencyAt(calc, <<"metrics", key>>) = calc.metrics.currency
      BY DEF CurrencyAt
    <2>3. ~IsRate(<<"metrics", key>>)
      BY DEF IsRate, Rates, PriceKeys
    <2>. QED
      BY <2>2, <2>3, PathValues
  <1>5. points # {}
    BY <1>1 DEF PriceKeys
  <1>6. PICK point \in points : CurrencyAt(calc, point.path) = calc.metrics.currency
    BY <1>4, <1>5
  <1>. QED
    BY <1>2, <1>3, <1>4, <1>5, <1>6 DEF ValidChart

LEMMA PeerChartValid ==
  ASSUME NEW calc, Analysed(calc), NEW chart \in PeerChart(calc)
  PROVE  ValidChart(calc, chart)
  <1>1. PICK items, currencies, points :
          /\ items = {unit \in DOMAIN calc.peers :
                        calc.peers[unit].median # Null /\ calc.units[unit].price # Null}
          /\ currencies = {calc.peers[unit].currency : unit \in items}
          /\ points = {Point(<<unit, "subject">>, calc.units[unit].price,
                             <<"units", PlaceOf(DOMAIN calc.units, unit), "price">>) : unit \in items}
                      \cup {Point(<<unit, "peer_median">>, calc.peers[unit].median,
                                  <<"peers", PlaceOf(DOMAIN calc.peers, unit)>>) : unit \in items}
    OBVIOUS
  <1>2. /\ chart = Chart("peer_comparison", "peer_comparison", "bar", points)
        /\ items # {} /\ Cardinality(currencies) = 1
    BY <1>1 DEF PeerChart
  <1>3. chart.points = points /\ chart.type = "bar"
    BY <1>2 DEF Chart
  <1>4. /\ items \subseteq DOMAIN calc.units /\ DOMAIN calc.peers = DOMAIN calc.units
        /\ IsFiniteSet(items)
        /\ \A unit \in items : /\ calc.units[unit].currency # Null
                               /\ calc.peers[unit].currency = calc.units[unit].currency
    <2>1. DOMAIN calc.peers = DOMAIN calc.units /\ IsFiniteSet(DOMAIN calc.units)
      BY DEF Analysed, UnitsFit
    <2>2. items \in SUBSET DOMAIN calc.units
      BY <1>1, <2>1
    <2>3. IsFiniteSet(items)
      BY <2>1, <2>2, FS_Subset
    <2>. QED
      BY <2>1, <2>2, <2>3 DEF Analysed, UnitsFit
  <1>5. PICK currency : currencies = {currency}
    <2>1. PICK f : f = [unit \in items |-> calc.peers[unit].currency]
      OBVIOUS
    <2>2. currencies = {f[unit] : unit \in items} /\ DOMAIN f = items
      BY <1>1, <2>1
    <2>3. IsFiniteSet(currencies)
      BY <1>4, <2>2, Imaged
    <2>. QED
      BY <1>2, <2>3, FS_Singleton
  <1>6. \A unit \in items : calc.peers[unit].currency = currency /\ calc.units[unit].currency = currency
    BY <1>1, <1>4, <1>5
  <1>7. \A point \in points : /\ point.value # Null /\ point.value = ValueAt(calc, point.path)
                              /\ ~IsRate(point.path) /\ CurrencyAt(calc, point.path) = currency
    <2>1. SUFFICES ASSUME NEW point \in points
                   PROVE  /\ point.value # Null /\ point.value = ValueAt(calc, point.path)
                          /\ ~IsRate(point.path) /\ CurrencyAt(calc, point.path) = currency
      OBVIOUS
    <2>2. PICK unit \in items :
            \/ /\ point.value = calc.units[unit].price
               /\ point.path = <<"units", PlaceOf(DOMAIN calc.units, unit), "price">>
            \/ /\ point.value = calc.peers[unit].median
               /\ point.path = <<"peers", PlaceOf(DOMAIN calc.peers, unit)>>
      BY <1>1 DEF Point
    <2>3. ~IsRate(point.path)
      BY <2>2 DEF IsRate
    <2>4. /\ point.value = ValueAt(calc, point.path)
          /\ CurrencyAt(calc, point.path) \in {calc.units[unit].currency, calc.peers[unit].currency}
      <3>1. unit \in DOMAIN calc.units
        BY <1>4
      <3>2. PICK subject, peer : /\ subject = <<"units", PlaceOf(DOMAIN calc.units, unit), "price">>
                                 /\ peer = <<"peers", PlaceOf(DOMAIN calc.peers, unit)>>
        OBVIOUS
      <3>3. /\ ValueAt(calc, subject) = calc.units[unit].price
            /\ CurrencyAt(calc, subject) = calc.units[unit].currency
            /\ ValueAt(calc, peer) = calc.peers[unit].median
            /\ CurrencyAt(calc, peer) = calc.peers[unit].currency
        BY <3>1, <3>2, PathOfUnit
      <3>. QED
        BY <2>2, <3>2, <3>3
    <2>. QED
      BY <1>1, <1>6, <2>2, <2>3, <2>4
  <1>8. points # {}
    BY <1>1, <1>2
  <1>9. PICK point \in points : CurrencyAt(calc, point.path) = currency
    BY <1>7, <1>8
  <1>10. currency # Null
    BY <1>2, <1>4, <1>6
  <1>. QED
    BY <1>3, <1>7, <1>8, <1>9, <1>10 DEF ValidChart

(* The chart agent accepts every chart that is drawn.                      *)
LEMMA ChartsValid ==
  ASSUME NEW calc, Analysed(calc), NEW chart \in Charts(calc)
  PROVE  ValidChart(calc, chart)
  <1>1. CASE chart \in Kpis(calc) \cup Trend(calc) \cup Aging(calc)
    BY <1>1, KpisValid, TrendValid, AgingValid
  <1>2. CASE chart \in BreakdownChart(calc, "slow_moving_by_segment", "zone", "slow_moving_rate")
    BY <1>2, BreakdownChartValid DEF Dimensions
  <1>3. CASE chart \in BreakdownChart(calc, "inventory_composition", "unit_type", "available_inventory")
    BY <1>3, BreakdownChartValid DEF Dimensions
  <1>4. CASE chart \in PriceChart(calc) \cup PeerChart(calc)
    BY <1>4, PriceChartValid, PeerChartValid
  <1>. QED
    BY <1>1, <1>2, <1>3, <1>4 DEF Charts

-----------------------------------------------------------------------------
(* Changes and candidates *)

(* A place for every change there can be, in the order of the rules.       *)
PlaceOfChange(c) == 3 * (MetricOrder[c.metric] - 1) + PeriodOrder(c.period)

LEMMA ChangesPlaced ==
  ASSUME NEW comparisons, NEW changes, changes = DetectChanges(comparisons)
  PROVE  /\ \A c \in changes : /\ c.metric \in Compared \ {"median_inventory_age_days"}
                               /\ c.period \in Periods /\ c.severity \in {"material", "watch"}
                               /\ c = [metric |-> c.metric, period |-> c.period,
                                       severity |-> Severity(c.metric, comparisons[c.period][c.metric])]
                               /\ PlaceOfChange(c) \in 1..18
         /\ \A c, d \in changes : PlaceOfChange(c) = PlaceOfChange(d) => c = d
         /\ IsFiniteSet(changes) /\ Cardinality(changes) <= 18
  <1>1. ASSUME NEW c \in changes
        PROVE  /\ c.metric \in Compared \ {"median_inventory_age_days"}
               /\ c.period \in Periods
               /\ c = [metric |-> c.metric, period |-> c.period,
                       severity |-> Severity(c.metric, comparisons[c.period][c.metric])]
    <2>1. PICK p \in Periods, key \in Compared :
            /\ Notable(key, comparisons[p][key])
            /\ c = [metric |-> key, period |-> p, severity |-> Severity(key, comparisons[p][key])]
      BY DEF DetectChanges
    <2>2. key # "median_inventory_age_days"
      BY <2>1 DEF Notable, Rates
    <2>. QED
      BY <2>1, <2>2
  <1>2. ASSUME NEW c \in changes
        PROVE  /\ MetricOrder[c.metric] \in 1..6 /\ PeriodOrder(c.period) \in 1..3
               /\ PlaceOfChange(c) \in 1..18
    <2>1. MetricOrder[c.metric] \in 1..6
      BY <1>1 DEF MetricOrder, Compared
    <2>2. PeriodOrder(c.period) \in 1..3
      BY <1>1 DEF PeriodOrder, Periods
    <2>. QED
      BY <2>1, <2>2 DEF PlaceOfChange
  <1>3. ASSUME NEW c \in changes, NEW d \in changes, PlaceOfChange(c) = PlaceOfChange(d)
        PROVE  c = d
    <2>1. MetricOrder[c.metric] = MetricOrder[d.metric] /\ PeriodOrder(c.period) = PeriodOrder(d.period)
      BY <1>2, <1>3 DEF PlaceOfChange
    <2>2. c.metric = d.metric
      BY <1>1, <2>1 DEF MetricOrder, Compared
    <2>3. c.period = d.period
      BY <1>1, <2>1 DEF PeriodOrder, Periods
    <2>. QED
      BY <1>1, <2>2, <2>3
  <1>4. PICK f : f = [c \in changes |-> PlaceOfChange(c)]
    OBVIOUS
  <1>5. f \in Injection(changes, 1..18)
    BY <1>2, <1>3, <1>4 DEF Injection, IsInjective
  <1>6. IsFiniteSet(1..18) /\ Cardinality(1..18) = 18
    <2>1. PICK one \in Int, n \in Int : one = 1 /\ n = 18
      OBVIOUS
    <2>2. IsFiniteSet(one..n) /\ Cardinality(one..n) = IF one > n THEN 0 ELSE n - one + 1
      BY FS_Interval
    <2>. QED
      BY <2>1, <2>2
  <1>7. IsFiniteSet(changes) /\ Cardinality(changes) <= 18
    BY <1>5, <1>6, FS_Injection
  <1>8. \A c \in changes : c.severity \in {"material", "watch"}
    BY <1>1 DEF Severity
  <1>. QED
    BY <1>1, <1>2, <1>3, <1>7, <1>8

LEMMA ChangesIndexed ==
  ASSUME NEW comparisons, NEW changes, changes = DetectChanges(comparisons)
  PROVE  /\ \A c \in changes : ChangeIndex(changes, c) \in 0..17
         /\ \A c, d \in changes : ChangeIndex(changes, c) = ChangeIndex(changes, d) => c = d
  <1>1. PICK R : R = {p \in changes \X changes : PlaceOfChange(p[1]) < PlaceOfChange(p[2])}
    OBVIOUS
  <1>2. /\ IsFiniteSet(changes) /\ Cardinality(changes) \in Nat /\ Cardinality(changes) <= 18
        /\ \A c \in changes : PlaceOfChange(c) \in Int
        /\ \A c, d \in changes : PlaceOfChange(c) = PlaceOfChange(d) => c = d
    BY ChangesPlaced, FS_CardinalityType
  <1>3. StrictOrder(changes, R)
    BY <1>1, <1>2 DEF StrictOrder
  <1>4. ASSUME NEW c \in changes
        PROVE  ChangeIndex(changes, c) = Cardinality(Ahead(changes, R, c))
    <2>1. ASSUME NEW d \in changes
          PROVE  (\/ MetricOrder[d.metric] < MetricOrder[c.metric]
                  \/ d.metric = c.metric /\ PeriodOrder(d.period) < PeriodOrder(c.period))
                   <=> PlaceOfChange(d) < PlaceOfChange(c)
      <3>1. \A e \in {c, d} : MetricOrder[e.metric] \in 1..6 /\ PeriodOrder(e.period) \in 1..3
        <4>1. \A e \in {c, d} : e.metric \in Compared /\ e.period \in Periods
          BY ChangesPlaced
        <4>. QED
          BY <4>1 DEF MetricOrder, Compared, PeriodOrder, Periods
      <3>2. MetricOrder[c.metric] = MetricOrder[d.metric] => c.metric = d.metric
        <4>1. c.metric \in Compared /\ d.metric \in Compared
          BY ChangesPlaced
        <4>. QED
          BY <4>1 DEF MetricOrder, Compared
      <3>. QED
        BY <3>1, <3>2 DEF PlaceOfChange
    <2>2. Ahead(changes, R, c) = {d \in changes : PlaceOfChange(d) < PlaceOfChange(c)}
      BY <1>1 DEF Ahead
    <2>3. Ahead(changes, R, c)
            = {d \in changes : \/ MetricOrder[d.metric] < MetricOrder[c.metric]
                               \/ d.metric = c.metric /\ PeriodOrder(d.period) < PeriodOrder(c.period)}
      BY <2>1, <2>2
    <2>. QED
      BY <2>3 DEF ChangeIndex
  <1>5. /\ \A c, d \in changes : Cardinality(Ahead(changes, R, c)) = Cardinality(Ahead(changes, R, d)) => c = d
        /\ \A c \in changes : Cardinality(Ahead(changes, R, c)) \in 0..(Cardinality(changes) - 1)
    BY <1>2, <1>3, Ranked
  <1>. QED
    BY <1>2, <1>4, <1>5

(* What the insight may be written from, before the strongest are chosen.  *)
NotableOnes(changes) ==
    {[metric |-> c.metric, period |-> c.period, priority |-> ChangePriority(changes, c)] : c \in changes}

CurrentOnes(changes, metrics) ==
    {[metric |-> key, period |-> Null, priority |-> CurrentPriority[key]] :
       key \in {k \in DOMAIN CurrentPriority : metrics[k] # Null /\ \A c \in changes : c.metric # k}}

AllOnes(changes, metrics) == NotableOnes(changes) \cup CurrentOnes(changes, metrics)

Strongest(changes, metrics) ==
    {c \in AllOnes(changes, metrics) :
       \A d \in AllOnes(changes, metrics) : d.metric = c.metric => d.priority <= c.priority}

LEMMA CurrentPriorities ==
  ASSUME NEW key \in DOMAIN CurrentPriority
  PROVE  CurrentPriority[key] \in {30, 40, 50} /\ key \in Compared \ {"median_inventory_age_days"}
  BY DEF CurrentPriority, Compared

(* No two of them are equally strong; a material change is stronger than a *)
(* change to watch, and that one stronger than a current value.            *)
LEMMA PrioritiesApart ==
  ASSUME NEW comparisons, NEW changes, changes = DetectChanges(comparisons), NEW metrics,
         NEW all, all = AllOnes(changes, metrics)
  PROVE  /\ \A x \in all : /\ x.metric \in Compared \ {"median_inventory_age_days"}
                           /\ x.period \in Periods \cup {Null} /\ x.priority \in 0..100
         /\ \A x, y \in all : x.priority = y.priority => x = y
         /\ \A c \in changes : IF c.severity = "material" THEN ChangePriority(changes, c) \in 83..100
                               ELSE ChangePriority(changes, c) \in 53..70
  <1>1. ASSUME NEW c \in changes
        PROVE  IF c.severity = "material" THEN ChangePriority(changes, c) \in 83..100
               ELSE ChangePriority(changes, c) \in 53..70
    <2>1. ChangeIndex(changes, c) \in 0..17
      BY ChangesIndexed
    <2>. QED
      BY <2>1 DEF ChangePriority
  <1>2. ASSUME NEW x \in all
        PROVE  \/ \E c \in changes : x = [metric |-> c.metric, period |-> c.period,
                                          priority |-> ChangePriority(changes, c)]
               \/ \E key \in DOMAIN CurrentPriority :
                     x = [metric |-> key, period |-> Null, priority |-> CurrentPriority[key]]
    BY DEF AllOnes, NotableOnes, CurrentOnes
  <1>3. ASSUME NEW x \in all
        PROVE  /\ x.metric \in Compared \ {"median_inventory_age_days"}
               /\ x.period \in Periods \cup {Null} /\ x.priority \in 0..100
    <2>1. CASE \E c \in changes : x = [metric |-> c.metric, period |-> c.period,
                                       priority |-> ChangePriority(changes, c)]
      BY <1>1, <2>1, ChangesPlaced
    <2>2. CASE \E key \in DOMAIN CurrentPriority :
                  x = [metric |-> key, period |-> Null, priority |-> CurrentPriority[key]]
      BY <2>2, CurrentPriorities
    <2>. QED
      BY <1>2, <2>1, <2>2
  <1>4. ASSUME NEW x \in all, NEW y \in all, x.priority = y.priority
        PROVE  x = y
    <2>1. CASE \E c, d \in changes :
                  /\ x = [metric |-> c.metric, period |-> c.period, priority |-> ChangePriority(changes, c)]
                  /\ y = [metric |-> d.metric, period |-> d.period, priority |-> ChangePriority(changes, d)]
      <3>1. PICK c \in changes, d \in changes :
                  /\ x = [metric |-> c.metric, period |-> c.period, priority |-> ChangePriority(changes, c)]
                  /\ y = [metric |-> d.metric, period |-> d.period, priority |-> ChangePriority(changes, d)]
        BY <2>1
      <3>2. ChangePriority(changes, c) = ChangePriority(changes, d)
        BY <1>4, <3>1
      <3>3. ChangeIndex(changes, c) \in 0..17 /\ ChangeIndex(changes, d) \in 0..17
        BY ChangesIndexed
      <3>4. ChangeIndex(changes, c) = ChangeIndex(changes, d)
        BY <3>2, <3>3 DEF ChangePriority
      <3>. QED
        BY <3>1, <3>4, ChangesIndexed
    <2>2. CASE \E i, j \in DOMAIN CurrentPriority :
                  /\ x = [metric |-> i, period |-> Null, priority |-> CurrentPriority[i]]
                  /\ y = [metric |-> j, period |-> Null, priority |-> CurrentPriority[j]]
      BY <1>4, <2>2 DEF CurrentPriority
    <2>3. ASSUME NEW c \in changes, NEW key \in DOMAIN CurrentPriority
          PROVE  ChangePriority(changes, c) # CurrentPriority[key]
      BY <1>1, CurrentPriorities
    <2>. QED
      BY <1>2, <1>4, <2>1, <2>2, <2>3
  <1>. QED
    BY <1>1, <1>3, <1>4

LEMMA CandidatesAre ==
  ASSUME NEW changes, NEW metrics, NEW S, S = Strongest(changes, metrics)
  PROVE  Candidates(changes, metrics)
           = {c \in S : Cardinality({d \in S : d.priority > c.priority}) < MaxCandidates}
  BY DEF Candidates, Strongest, AllOnes, NotableOnes, CurrentOnes

(* The candidates are the strongest of each metric: five metrics can have  *)
(* one, so the limit drops none.                                           *)
LEMMA CandidatesKept ==
  ASSUME NEW calc, Analysed(calc)
  PROVE  /\ calc.candidates = Strongest(calc.changes, calc.metrics)
         /\ IsFiniteSet(calc.candidates) /\ IsFiniteSet(AllOnes(calc.changes, calc.metrics))
         /\ \A x \in calc.candidates : /\ x.metric \in Compared /\ x.period \in Periods \cup {Null}
                                       /\ x.priority \in Int
         /\ \A x, y \in calc.candidates : x.priority = y.priority \/ x.metric = y.metric => x = y
  <1>1. PICK changes, metrics : changes = calc.changes /\ metrics = calc.metrics
    OBVIOUS
  <1>2. PICK all, S : all = AllOnes(changes, metrics) /\ S = Strongest(changes, metrics)
    OBVIOUS
  <1>3. changes = DetectChanges(calc.periods) /\ calc.candidates = Candidates(changes, metrics)
    BY <1>1 DEF Analysed
  <1>4. /\ \A x \in all : /\ x.metric \in Compared \ {"median_inventory_age_days"}
                          /\ x.period \in Periods \cup {Null} /\ x.priority \in 0..100
        /\ \A x, y \in all : x.priority = y.priority => x = y
    BY <1>2, <1>3, PrioritiesApart
  <1>5. S \in SUBSET all /\ \A x \in S : \A y \in all : y.metric = x.metric => y.priority <= x.priority
    BY <1>2 DEF Strongest
  <1>6. IsFiniteSet(all) /\ IsFiniteSet(S)
    <2>1. PICK f : f = [x \in all |-> x.priority]
      OBVIOUS
    <2>2. f \in Injection(all, 0..100)
      BY <1>4, <2>1 DEF Injection, IsInjective
    <2>3. IsFiniteSet(0..100)
      <3>1. PICK zero \in Int, most \in Int : zero = 0 /\ most = 100
        OBVIOUS
      <3>2. IsFiniteSet(zero..most)
        BY FS_Interval
      <3>. QED
        BY <3>1, <3>2
    <2>4. IsFiniteSet(all)
      BY <2>2, <2>3, FS_Injection
    <2>. QED
      BY <1>5, <2>4, FS_Subset
  <1>7. \A x, y \in S : x.priority = y.priority \/ x.metric = y.metric => x = y
    <2>1. SUFFICES ASSUME NEW x \in S, NEW y \in S, x.metric = y.metric
                   PROVE  x.priority = y.priority
      BY <1>4, <1>5
    <2>2. x.priority \in Int /\ y.priority \in Int /\ x.priority <= y.priority /\ y.priority <= x.priority
      BY <1>4, <1>5, <2>1
    <2>. QED
      BY <2>2
  <1>8. Cardinality(S) <= 5
    <2>1. PICK f : f = [x \in S |-> IF MetricOrder[x.metric] <= 2 THEN MetricOrder[x.metric]
                                    ELSE MetricOrder[x.metric] - 1]
      OBVIOUS
    <2>2. f \in [S -> 1..5]
      <3>1. \A x \in S : MetricOrder[x.metric] \in {1, 2, 4, 5, 6}
        BY <1>4, <1>5 DEF MetricOrder, Compared
      <3>. QED
        BY <2>1, <3>1
    <2>3. ASSUME NEW x \in S, NEW y \in S, f[x] = f[y]
          PROVE  x = y
      <3>1. x.metric \in Compared \ {"median_inventory_age_days"} /\ y.metric \in Compared \ {"median_inventory_age_days"}
        BY <1>4, <1>5
      <3>2. x.metric = y.metric
        BY <2>1, <2>3, <3>1 DEF MetricOrder, Compared
      <3>. QED
        BY <1>7, <3>2
    <2>4. PICK one \in Int, five \in Int : one = 1 /\ five = 5
      OBVIOUS
    <2>5. IsFiniteSet(one..five) /\ Cardinality(one..five) = IF one > five THEN 0 ELSE five - one + 1
      BY FS_Interval
    <2>6. f \in Injection(S, one..five)
      BY <2>2, <2>3, <2>4 DEF Injection, IsInjective
    <2>7. Cardinality(S) <= Cardinality(one..five)
      BY <2>5, <2>6, FS_Injection
    <2>. QED
      BY <2>4, <2>5, <2>7
  <1>9. Candidates(changes, metrics) = S
    <2>1. ASSUME NEW x \in S
          PROVE  Cardinality({y \in S : y.priority > x.priority}) < MaxCandidates
      <3>1. PICK T : T = {y \in S : y.priority > x.priority}
        OBVIOUS
      <3>2. T \in SUBSET S /\ T # S
        BY <1>4, <1>5, <3>1
      <3>3. Cardinality(T) <= Cardinality(S) /\ Cardinality(T) # Cardinality(S) /\ IsFiniteSet(T)
        BY <1>6, <3>2, FS_Subset
      <3>4. Cardinality(T) \in Nat /\ Cardinality(S) \in Nat
        BY <1>6, <3>3, FS_CardinalityType
      <3>. QED
        BY <1>8, <3>1, <3>3, <3>4 DEF MaxCandidates
    <2>2. Candidates(changes, metrics)
            = {x \in S : Cardinality({y \in S : y.priority > x.priority}) < MaxCandidates}
      BY <1>2, CandidatesAre
    <2>. QED
      BY <2>1, <2>2
  <1>10. calc.candidates = S /\ \A x \in S : x.priority \in Int
    BY <1>3, <1>4, <1>5, <1>9
  <1>. QED
    BY <1>1, <1>2, <1>4, <1>5, <1>6, <1>7, <1>10

(* The metric of every change has a candidate, at its strongest severity.  *)
LEMMA ChangeKept ==
  ASSUME NEW calc, Analysed(calc), NEW c \in calc.changes
  PROVE  \E d \in calc.changes, x \in calc.candidates :
            /\ d.metric = c.metric /\ x.metric = d.metric /\ x.period = d.period
            /\ c.severity = "material" => d.severity = "material"
  <1>1. PICK changes, metrics : changes = calc.changes /\ metrics = calc.metrics
    OBVIOUS
  <1>2. PICK all, G : all = AllOnes(changes, metrics) /\ G = {x \in all : x.metric = c.metric}
    OBVIOUS
  <1>3. changes = DetectChanges(calc.periods)
    BY <1>1 DEF Analysed
  <1>4. /\ \A x \in all : x.priority \in Int
        /\ \A d \in changes : IF d.severity = "material" THEN ChangePriority(changes, d) \in 83..100
                              ELSE ChangePriority(changes, d) \in 53..70
    BY <1>2, <1>3, PrioritiesApart
  <1>5. PICK own \in G : own.priority = ChangePriority(changes, c)
    <2>1. PICK x : x = [metric |-> c.metric, period |-> c.period, priority |-> ChangePriority(changes, c)]
      OBVIOUS
    <2>2. x \in all
      BY <1>1, <1>2, <2>1 DEF AllOnes, NotableOnes
    <2>. QED
      BY <1>2, <2>1, <2>2
  <1>6. PICK x \in G : \A y \in G : y.priority <= x.priority
    <2>1. IsFiniteSet(G)
      BY <1>1, <1>2, CandidatesKept, FS_Subset
    <2>2. PICK f : f = [y \in G |-> y.priority]
      OBVIOUS
    <2>3. PICK P : P = {f[y] : y \in G}
      OBVIOUS
    <2>4. DOMAIN f = G /\ \A y \in G : f[y] = y.priority /\ y.priority \in Int
      BY <1>2, <1>4, <2>2
    <2>5. IsFiniteSet(P) /\ P # {} /\ P \subseteq Int
      <3>1. IsFiniteSet(P)
        BY <2>1, <2>3, <2>4, Imaged
      <3>. QED
        BY <1>5, <2>3, <2>4, <3>1
    <2>6. PICK most \in P : \A n \in P : n <= most
      BY <2>5, Extremes
    <2>. QED
      BY <2>3, <2>4, <2>6
  <1>7. x \in calc.candidates
    <2>1. x \in all /\ \A y \in all : y.metric = x.metric => y.priority <= x.priority
      BY <1>2, <1>6
    <2>2. x \in Strongest(changes, metrics)
      BY <1>2, <2>1 DEF Strongest
    <2>. QED
      BY <1>1, <2>2, CandidatesKept
  <1>8. PICK d \in changes : x = [metric |-> d.metric, period |-> d.period,
                                  priority |-> ChangePriority(changes, d)]
    <2>1. x \in NotableOnes(changes) \/ x \in CurrentOnes(changes, metrics)
      BY <1>2, <1>6 DEF AllOnes
    <2>2. x \notin CurrentOnes(changes, metrics)
      BY <1>1, <1>2, <1>6 DEF CurrentOnes
    <2>. QED
      BY <2>1, <2>2 DEF NotableOnes
  <1>9. x.metric = c.metric /\ own.priority <= x.priority
    BY <1>2, <1>5, <1>6
  <1>10. ASSUME c.severity = "material"
         PROVE  d.severity = "material"
    <2>1. own.priority \in 83..100
      BY <1>1, <1>4, <1>5, <1>10
    <2>2. x.priority = ChangePriority(changes, d)
      BY <1>8
    <2>. QED
      BY <1>4, <1>9, <2>1, <2>2
  <1>. QED
    BY <1>1, <1>7, <1>8, <1>9, <1>10

(* The changes the decision policy reports are notable ones, as severe or  *)
(* less, except the median age, which only the policy looks at.            *)
LEMMA PolicyChangesNotable ==
  ASSUME NEW calc, Analysed(calc), NEW c \in PolicyChanges(calc)
  PROVE  \/ c.metric = "median_inventory_age_days"
         \/ \E d \in calc.changes : /\ d.metric = c.metric /\ d.period = c.period
                                    /\ c.severity = "material" => d.severity = "material"
  <1>1. PICK p \in Periods, rule \in Materiality :
          /\ rule.metric \in Compared
          /\ calc.periods[p][rule.metric].delta # Null
          /\ Reaches(rule, calc.periods[p][rule.metric], rule.watch)
          /\ c = [metric |-> rule.metric, period |-> p,
                  severity |-> IF Reaches(rule, calc.periods[p][rule.metric], rule.material)
                               THEN "material" ELSE "watch",
                  direction |-> Direction(rule, calc.periods[p][rule.metric])]
    BY DEF PolicyChanges
  <1>2. PICK comparison : comparison = calc.periods[p][rule.metric]
    OBVIOUS
  <1>3. calc.changes = DetectChanges(calc.periods)
    BY DEF Analysed
  <1>4. rule.metric # "median_inventory_age_days" =>
          \/ /\ rule.metric = "available_inventory" /\ rule.kind = "relative"
             /\ rule.watch = 10 /\ rule.material = 20
          \/ /\ rule.metric = "slow_moving_rate" /\ rule.kind = "points"
             /\ rule.watch = 5 /\ rule.material = 10
    BY <1>1 DEF Materiality, Rule, Compared
  <1>5. rule.metric # "median_inventory_age_days" =>
          /\ Notable(rule.metric, comparison)
          /\ Reaches(rule, comparison, rule.material) => Severity(rule.metric, comparison) = "material"
    BY <1>1, <1>2, <1>4 DEF Reaches, Notable, Severity, Rates
  <1>6. rule.metric # "median_inventory_age_days" =>
          [metric |-> rule.metric, period |-> p, severity |-> Severity(rule.metric, comparison)]
             \in calc.changes
    BY <1>1, <1>2, <1>3, <1>5 DEF DetectChanges
  <1>. QED
    BY <1>1, <1>2, <1>5, <1>6

-----------------------------------------------------------------------------
(* Orders by several numbers in turn *)

Lex(a, b) ==
    \/ a[1] < b[1]
    \/ a[1] = b[1] /\ a[2] < b[2]
    \/ a[1] = b[1] /\ a[2] = b[2] /\ a[3] < b[3]
    \/ a[1] = b[1] /\ a[2] = b[2] /\ a[3] = b[3] /\ a[4] < b[4]

(* The elements of a set are told apart by four numbers. *)
ToldApart(S, keys) ==
    /\ \A x \in S : \A i \in 1..4 : keys[x][i] \in Int
    /\ \A x, y \in S : (\A i \in 1..4 : keys[x][i] = keys[y][i]) => x = y

ByKeys(S, keys) == {p \in S \X S : Lex(keys[p[1]], keys[p[2]])}

LEMMA LexOrder ==
  ASSUME NEW S, NEW keys, ToldApart(S, keys)
  PROVE  /\ StrictOrder(S, ByKeys(S, keys))
         /\ \A x \in S : Ahead(S, ByKeys(S, keys), x) = {y \in S : Lex(keys[y], keys[x])}
  <1>1. \A x, y \in S : <<x, y>> \in ByKeys(S, keys) <=> Lex(keys[x], keys[y])
    BY DEF ByKeys
  <1>2. \A x \in S : keys[x][1] \in Int /\ keys[x][2] \in Int /\ keys[x][3] \in Int /\ keys[x][4] \in Int
    BY DEF ToldApart
  <1>3. \A x, y \in S : keys[x][1] = keys[y][1] /\ keys[x][2] = keys[y][2] /\ keys[x][3] = keys[y][3]
                        /\ keys[x][4] = keys[y][4] => x = y
    <2>1. \A i \in 1..4 : i \in {1, 2, 3, 4}
      OBVIOUS
    <2>. QED
      BY <2>1 DEF ToldApart
  <1>4. \A x \in S : ~Lex(keys[x], keys[x])
    BY <1>2 DEF Lex
  <1>5. \A x, y \in S : x # y => Lex(keys[x], keys[y]) \/ Lex(keys[y], keys[x])
    BY <1>2, <1>3 DEF Lex
  <1>6. \A x, y, z \in S : Lex(keys[x], keys[y]) /\ Lex(keys[y], keys[z]) => Lex(keys[x], keys[z])
    BY <1>2 DEF Lex
  <1>7. StrictOrder(S, ByKeys(S, keys))
    BY <1>1, <1>4, <1>5, <1>6 DEF StrictOrder
  <1>8. \A x \in S : Ahead(S, ByKeys(S, keys), x) = {y \in S : Lex(keys[y], keys[x])}
    BY <1>1 DEF Ahead
  <1>. QED
    BY <1>7, <1>8

-----------------------------------------------------------------------------
(* Hotspots *)

SegmentOnes(calc, type) ==
    {Hotspot(calc, type, key, metric) : key \in DOMAIN calc.breakdowns[type], metric \in BrokenDown}

HotOnes(calc) ==
    {h \in UNION {SegmentOnes(calc, type) : type \in SegmentTypes} : h.value # Null}

HotKeys(h) == <<-h.value, TypeOrder[h.type], h.key, BreakdownOrder[h.metric]>>

LEMMA HotOnesAre ==
  ASSUME NEW calc, Analysed(calc)
  PROVE  /\ IsFiniteSet(HotOnes(calc))
         /\ \A h \in HotOnes(calc) :
               /\ h.type \in SegmentTypes /\ h.key \in DOMAIN calc.breakdowns[h.type] /\ h.key \in Int
               /\ h.metric \in BrokenDown /\ h.value \in Int
               /\ h = Hotspot(calc, h.type, h.key, h.metric)
         /\ \A type \in SegmentTypes, metric \in BrokenDown : \A key \in DOMAIN calc.breakdowns[type] :
               calc.breakdowns[type][key][metric] # Null => Hotspot(calc, type, key, metric) \in HotOnes(calc)
  <1>1. SegmentTypes = {"zone", "unit_type"} /\ SegmentTypes \subseteq Dimensions
    BY DEF SegmentTypes, Dimensions
  <1>2. ASSUME NEW type \in SegmentTypes
        PROVE  IsFiniteSet(SegmentOnes(calc, type))
    <2>1. PICK keys : keys = DOMAIN calc.breakdowns[type]
      OBVIOUS
    <2>2. IsFiniteSet(keys)
      BY <1>1, <2>1 DEF Analysed, BreakdownsFit
    <2>3. IsFiniteSet(BrokenDown)
      <3>1. PICK lo \in Int, hi \in Int : lo = 1 /\ hi = 6
        OBVIOUS
      <3>2. IsFiniteSet(lo..hi)
        BY FS_Interval
      <3>3. PICK f : f = [m \in BrokenDown |-> BreakdownOrder[m]]
        OBVIOUS
      <3>4. f \in Injection(BrokenDown, lo..hi)
        BY <3>1, <3>3 DEF Injection, IsInjective, BreakdownOrder, BrokenDown
      <3>. QED
        BY <3>2, <3>4, FS_Injection
    <2>4. IsFiniteSet(keys \X BrokenDown)
      BY <2>2, <2>3, FS_Product
    <2>5. PICK f : f = [p \in keys \X BrokenDown |-> Hotspot(calc, type, p[1], p[2])]
      OBVIOUS
    <2>6. IsFiniteSet({f[p] : p \in keys \X BrokenDown})
      BY <2>4, <2>5, Imaged
    <2>7. SegmentOnes(calc, type) \subseteq {f[p] : p \in keys \X BrokenDown}
      <3>1. SUFFICES ASSUME NEW h \in SegmentOnes(calc, type)
                     PROVE  h \in {f[p] : p \in keys \X BrokenDown}
        OBVIOUS
      <3>2. PICK key \in keys, metric \in BrokenDown : h = Hotspot(calc, type, key, metric)
        BY <2>1 DEF SegmentOnes
      <3>3. <<key, metric>> \in keys \X BrokenDown
        OBVIOUS
      <3>4. f[<<key, metric>>] = Hotspot(calc, type, key, metric)
        BY <2>5
      <3>. QED
        BY <3>2, <3>3, <3>4
    <2>. QED
      BY <2>6, <2>7, FS_Subset
  <1>3. UNION {SegmentOnes(calc, type) : type \in SegmentTypes}
          = SegmentOnes(calc, "zone") \cup SegmentOnes(calc, "unit_type")
    BY <1>1
  <1>4. IsFiniteSet(SegmentOnes(calc, "zone") \cup SegmentOnes(calc, "unit_type"))
    BY <1>1, <1>2, FS_Union
  <1>5. IsFiniteSet(HotOnes(calc))
    BY <1>3, <1>4, FS_Subset DEF HotOnes
  <1>6. ASSUME NEW h \in HotOnes(calc)
        PROVE  /\ h.type \in SegmentTypes /\ h.key \in DOMAIN calc.breakdowns[h.type] /\ h.key \in Int
               /\ h.metric \in BrokenDown /\ h.value \in Int
               /\ h = Hotspot(calc, h.type, h.key, h.metric)
    <2>1. PICK type \in SegmentTypes : h \in SegmentOnes(calc, type)
      BY DEF HotOnes
    <2>2. PICK key \in DOMAIN calc.breakdowns[type], metric \in BrokenDown :
            h = Hotspot(calc, type, key, metric)
      BY <2>1 DEF SegmentOnes
    <2>3. h.type = type /\ h.key = key /\ h.metric = metric /\ h.value = calc.breakdowns[type][key][metric]
      BY <2>2 DEF Hotspot
    <2>4. key \in Int /\ calc.breakdowns[type][key][metric] \in Figure
      BY <1>1 DEF Analysed, BreakdownsFit
    <2>5. h.value # Null
      BY DEF HotOnes
    <2>. QED
      BY <2>2, <2>3, <2>4, <2>5 DEF Figure
  <1>7. ASSUME NEW type \in SegmentTypes, NEW metric \in BrokenDown, NEW key \in DOMAIN calc.breakdowns[type],
               calc.breakdowns[type][key][metric] # Null
        PROVE  Hotspot(calc, type, key, metric) \in HotOnes(calc)
    <2>1. Hotspot(calc, type, key, metric) \in SegmentOnes(calc, type)
      BY DEF SegmentOnes
    <2>2. Hotspot(calc, type, key, metric).value # Null
      BY <1>7 DEF Hotspot
    <2>. QED
      BY <2>1, <2>2 DEF HotOnes
  <1>. QED
    BY <1>5, <1>6, <1>7

LEMMA HotspotsOrdered ==
  ASSUME NEW calc, Analysed(calc), NEW H, H = HotOnes(calc), NEW keys, keys = [h \in H |-> HotKeys(h)]
  PROVE  /\ ToldApart(H, keys)
         /\ \A a, b \in H : HotspotBefore(a, b) <=> Lex(keys[a], keys[b])
  <1>1. \A h \in H : /\ h.type \in SegmentTypes /\ h.key \in Int /\ h.metric \in BrokenDown /\ h.value \in Int
                     /\ h = Hotspot(calc, h.type, h.key, h.metric)
    BY HotOnesAre
  <1>2. \A h \in H : /\ keys[h][1] = -h.value /\ keys[h][2] = TypeOrder[h.type] /\ keys[h][3] = h.key
                     /\ keys[h][4] = BreakdownOrder[h.metric]
    BY DEF HotKeys
  <1>3. \A s, t \in SegmentTypes : TypeOrder[s] \in Int /\ (TypeOrder[s] = TypeOrder[t] => s = t)
    BY DEF TypeOrder, SegmentTypes
  <1>4. \A m, n \in BrokenDown : BreakdownOrder[m] \in Int /\ (BreakdownOrder[m] = BreakdownOrder[n] => m = n)
    BY DEF BreakdownOrder, BrokenDown
  <1>5. ToldApart(H, keys)
    <2>1. \A i \in 1..4 : i \in {1, 2, 3, 4}
      OBVIOUS
    <2>2. \A h \in H : \A i \in 1..4 : keys[h][i] \in Int
      BY <1>1, <1>2, <1>3, <1>4, <2>1
    <2>3. ASSUME NEW x \in H, NEW y \in H, \A i \in 1..4 : keys[x][i] = keys[y][i]
          PROVE  x = y
      <3>1. keys[x][1] = keys[y][1] /\ keys[x][2] = keys[y][2] /\ keys[x][3] = keys[y][3]
            /\ keys[x][4] = keys[y][4]
        BY <2>3
      <3>2. x.type = y.type /\ x.key = y.key /\ x.metric = y.metric
        BY <1>1, <1>2, <1>3, <1>4, <3>1
      <3>. QED
        BY <1>1, <3>2
    <2>. QED
      BY <2>2, <2>3 DEF ToldApart
  <1>6. ASSUME NEW a \in H, NEW b \in H
        PROVE  HotspotBefore(a, b) <=> Lex(keys[a], keys[b])
    <2>1. PICK va \in Int, vb \in Int : va = a.value /\ vb = b.value
      BY <1>1
    <2>2. /\ TypeOrder[a.type] \in Int /\ TypeOrder[b.type] \in Int
          /\ BreakdownOrder[a.metric] \in Int /\ BreakdownOrder[b.metric] \in Int
          /\ (TypeOrder[a.type] = TypeOrder[b.type] <=> a.type = b.type)
      BY <1>1, <1>3, <1>4
    <2>. QED
      BY <1>1, <1>2, <2>1, <2>2 DEF HotspotBefore, Lex
  <1>. QED
    BY <1>5, <1>6

(* Of two hotspots the larger value comes first; the chosen ones are those *)
(* with fewer than MaxSegments ahead.                                      *)
LEMMA HotspotsChosen ==
  ASSUME NEW calc, Analysed(calc), NEW H, H = HotOnes(calc)
  PROVE  /\ Hotspots(calc) \subseteq H
         /\ \A h \in Hotspots(calc), g \in H : g.value > h.value => g \in Hotspots(calc)
  <1>1. PICK keys : keys = [h \in H |-> HotKeys(h)]
    OBVIOUS
  <1>2. PICK R : R = ByKeys(H, keys)
    OBVIOUS
  <1>3. ToldApart(H, keys) /\ \A a, b \in H : HotspotBefore(a, b) <=> Lex(keys[a], keys[b])
    BY <1>1, HotspotsOrdered
  <1>4. StrictOrder(H, R) /\ \A x \in H : Ahead(H, R, x) = {y \in H : Lex(keys[y], keys[x])}
    BY <1>2, <1>3, LexOrder
  <1>5. \A x \in H : Ahead(H, R, x) = {y \in H : HotspotBefore(y, x)}
    BY <1>3, <1>4
  <1>6. Hotspots(calc) = {x \in H : Cardinality({y \in H : HotspotBefore(y, x)}) < MaxSegments}
    BY DEF Hotspots, Top, HotOnes, SegmentOnes
  <1>7. Hotspots(calc) = {x \in H : Cardinality(Ahead(H, R, x)) < MaxSegments}
    BY <1>5, <1>6
  <1>8. IsFiniteSet(H) /\ \A h \in H : h.value \in Int
    BY HotOnesAre
  <1>9. ASSUME NEW h \in Hotspots(calc), NEW g \in H, g.value > h.value
        PROVE  g \in Hotspots(calc)
    <2>1. h \in H /\ Cardinality(Ahead(H, R, h)) < MaxSegments
      BY <1>7
    <2>2. HotspotBefore(g, h)
      BY <1>8, <1>9, <2>1 DEF HotspotBefore
    <2>3. g \in Ahead(H, R, h)
      BY <1>5, <2>2, <2>1
    <2>4. <<g, h>> \in R
      BY <2>3 DEF Ahead
    <2>5. Cardinality(Ahead(H, R, g)) < Cardinality(Ahead(H, R, h))
      BY <1>4, <1>8, <2>1, <2>4, FewerAhead
    <2>6. IsFiniteSet(Ahead(H, R, g)) /\ IsFiniteSet(Ahead(H, R, h))
      BY <1>8, FS_Subset DEF Ahead
    <2>7. Cardinality(Ahead(H, R, g)) \in Nat /\ Cardinality(Ahead(H, R, h)) \in Nat
      BY <2>6, FS_CardinalityType
    <2>. QED
      BY <1>7, <2>1, <2>5, <2>7 DEF MaxSegments
  <1>. QED
    BY <1>7, <1>9

(* Each shows the value its path leads to; a larger value of its type and  *)
(* metric is shown by one of them.                                         *)
LEMMA HotspotsCited ==
  ASSUME NEW calc, Analysed(calc), NEW h \in Hotspots(calc)
  PROVE  /\ h \in HotOnes(calc) /\ h.value = ValueAt(calc, h.path)
         /\ \A other \in DOMAIN calc.breakdowns[h.type] :
               LET value == calc.breakdowns[h.type][other][h.metric]
               IN value # Null /\ value > h.value => \E g \in Hotspots(calc) : g.value = value
  <1>1. PICK H : H = HotOnes(calc)
    OBVIOUS
  <1>2. h \in H /\ \A g \in H : g.value > h.value => g \in Hotspots(calc)
    BY <1>1, HotspotsChosen
  <1>3. /\ h.type \in SegmentTypes /\ h.key \in DOMAIN calc.breakdowns[h.type] /\ h.metric \in BrokenDown
        /\ h = Hotspot(calc, h.type, h.key, h.metric)
    BY <1>1, <1>2, HotOnesAre
  <1>4. h.type \in Dimensions
    BY <1>3 DEF SegmentTypes, Dimensions
  <1>5. PICK type, key, metric : type = h.type /\ key = h.key /\ metric = h.metric
    OBVIOUS
  <1>6. /\ h.path = <<"breakdowns", type, metric, PlaceOf(DOMAIN calc.breakdowns[type], key)>>
        /\ h.value = calc.breakdowns[type][key][metric]
    BY <1>3, <1>5 DEF Hotspot
  <1>7. ValueAt(calc, <<"breakdowns", type, metric, PlaceOf(DOMAIN calc.breakdowns[type], key)>>)
          = calc.breakdowns[type][key][metric]
    BY <1>3, <1>4, <1>5, PathOfPart
  <1>8. ASSUME NEW other \in DOMAIN calc.breakdowns[h.type], calc.breakdowns[h.type][other][h.metric] # Null,
               calc.breakdowns[h.type][other][h.metric] > h.value
        PROVE  \E g \in Hotspots(calc) : g.value = calc.breakdowns[h.type][other][h.metric]
    <2>1. PICK g : g = Hotspot(calc, h.type, other, h.metric)
      OBVIOUS
    <2>2. g \in H
      BY <1>1, <1>3, <1>8, <2>1, HotOnesAre
    <2>3. g.value = calc.breakdowns[h.type][other][h.metric]
      BY <2>1 DEF Hotspot
    <2>. QED
      BY <1>2, <1>8, <2>2, <2>3
  <1>. QED
    BY <1>1, <1>2, <1>6, <1>7, <1>8

-----------------------------------------------------------------------------
(* Ranked units and entities *)

AvailableUnits(calc) == {u \in DOMAIN calc.units : calc.units[u].status = "available"}

AgeOf(calc, u) == IF calc.units[u].age = Null THEN -1 ELSE calc.units[u].age

UnitBefore(calc, a, b) ==
    IF calc.units[a].slow # calc.units[b].slow THEN calc.units[a].slow
    ELSE IF AgeOf(calc, a) # AgeOf(calc, b) THEN AgeOf(calc, a) > AgeOf(calc, b) ELSE a < b

UnitKeys(calc, u) == <<IF calc.units[u].slow THEN 0 ELSE 1, -AgeOf(calc, u), u, 0>>

LEMMA UnitsOrdered ==
  ASSUME NEW calc, Analysed(calc), NEW U, U \subseteq DOMAIN calc.units,
         NEW keys, keys = [u \in U |-> UnitKeys(calc, u)]
  PROVE  /\ IsFiniteSet(U) /\ ToldApart(U, keys)
         /\ \A a, b \in U : UnitBefore(calc, a, b) <=> Lex(keys[a], keys[b])
  <1>1. /\ IsFiniteSet(DOMAIN calc.units) /\ DOMAIN calc.units \subseteq Int
        /\ \A u \in U : calc.units[u].age \in Figure /\ calc.units[u].slow \in BOOLEAN
    BY DEF Analysed, UnitsFit
  <1>2. IsFiniteSet(U)
    BY <1>1, FS_Subset
  <1>3. \A u \in U : AgeOf(calc, u) \in Int /\ u \in Int
    BY <1>1 DEF AgeOf, Figure
  <1>4. \A u \in U : /\ keys[u][1] = (IF calc.units[u].slow THEN 0 ELSE 1)
                     /\ keys[u][2] = -AgeOf(calc, u) /\ keys[u][3] = u /\ keys[u][4] = 0
    BY DEF UnitKeys
  <1>5. \A i \in 1..4 : i \in {1, 2, 3, 4}
    OBVIOUS
  <1>6. \A u \in U : \A i \in 1..4 : keys[u][i] \in Int
    BY <1>3, <1>4, <1>5
  <1>7. \A x, y \in U : (\A i \in 1..4 : keys[x][i] = keys[y][i]) => x = y
    BY <1>4
  <1>8. ASSUME NEW a \in U, NEW b \in U
        PROVE  UnitBefore(calc, a, b) <=> Lex(keys[a], keys[b])
    <2>1. PICK m \in Int, n \in Int : m = AgeOf(calc, a) /\ n = AgeOf(calc, b)
      BY <1>3
    <2>2. /\ (calc.units[a].slow = TRUE \/ calc.units[a].slow = FALSE)
          /\ (calc.units[b].slow = TRUE \/ calc.units[b].slow = FALSE)
      BY <1>1
    <2>3. CASE calc.units[a].slow # calc.units[b].slow
      <3>1. UnitBefore(calc, a, b) <=> calc.units[a].slow = TRUE
        BY <2>2, <2>3, Zenon DEF UnitBefore
      <3>2. CASE calc.units[a].slow = TRUE
        <4>1. keys[a][1] = 0 /\ keys[b][1] = 1
          BY <1>4, <2>2, <2>3, <3>2, ZenonT(60)
        <4>. QED
          BY <3>1, <3>2, <4>1 DEF Lex
      <3>3. CASE calc.units[a].slow = FALSE
        <4>3. ~calc.units[a].slow /\ calc.units[b].slow
          BY <2>2, <2>3, <3>3, Zenon
        <4>1. keys[a][1] = 1 /\ keys[b][1] = 0
          BY <1>4, <4>3
        <4>2. ~Lex(keys[a], keys[b])
          BY <4>1 DEF Lex
        <4>. QED
          BY <3>1, <3>3, <4>2
      <3>. QED
        BY <2>2, <3>2, <3>3
    <2>4. CASE calc.units[a].slow = calc.units[b].slow
      BY <1>3, <1>4, <2>1, <2>4 DEF UnitBefore, Lex
    <2>. QED
      BY <2>3, <2>4
  <1>. QED
    BY <1>2, <1>6, <1>7, <1>8 DEF ToldApart

LEMMA RankedUnitsAre ==
  ASSUME NEW calc, Analysed(calc)
  PROVE  \A i \in DOMAIN RankedUnits(calc) : RankedUnits(calc)[i] \in DOMAIN calc.units
  <1>1. PICK A : A = AvailableUnits(calc)
    OBVIOUS
  <1>2. PICK U : U = {x \in A : Cardinality({y \in A : UnitBefore(calc, y, x)}) < MaxUnits}
    OBVIOUS
  <1>3. PICK keys : keys = [u \in U |-> UnitKeys(calc, u)]
    OBVIOUS
  <1>4. U \subseteq DOMAIN calc.units
    BY <1>1, <1>2 DEF AvailableUnits
  <1>5. /\ IsFiniteSet(U) /\ ToldApart(U, keys)
        /\ \A a, b \in U : UnitBefore(calc, a, b) <=> Lex(keys[a], keys[b])
    BY <1>3, <1>4, UnitsOrdered
  <1>6. PICK R : R = ByKeys(U, keys)
    OBVIOUS
  <1>7. StrictOrder(U, R) /\ \A x \in U : Ahead(U, R, x) = {y \in U : Lex(keys[y], keys[x])}
    BY <1>5, <1>6, LexOrder
  <1>8. \A x \in U : Ahead(U, R, x) = {y \in U : UnitBefore(calc, y, x)}
    BY <1>5, <1>7
  <1>9. RankedUnits(calc) = [i \in 1..Cardinality(U) |->
            CHOOSE x \in U : Cardinality({y \in U : UnitBefore(calc, y, x)}) = i - 1]
    BY <1>1, <1>2 DEF RankedUnits, Ordered, Top, AvailableUnits, UnitBefore, AgeOf
  <1>10. Cardinality(U) \in Nat
    BY <1>5, FS_CardinalityType
  <1>11. ASSUME NEW i \in 1..Cardinality(U)
         PROVE  RankedUnits(calc)[i] \in U
    <2>1. i - 1 \in 0..(Cardinality(U) - 1)
      BY <1>10
    <2>2. PICK x \in U : Cardinality(Ahead(U, R, x)) = i - 1
      BY <1>5, <1>7, <2>1, RankTaken
    <2>3. Cardinality({y \in U : UnitBefore(calc, y, x)}) = i - 1
      BY <1>8, <2>2
    <2>. QED
      BY <1>9, <2>3
  <1>. QED
    BY <1>4, <1>9, <1>11

(* The units come first and the hotspots after them; each shows the value  *)
(* its path leads to.                                                      *)
LEMMA EntitiesCited ==
  ASSUME NEW calc, Analysed(calc), NEW i \in DOMAIN Entities(calc)
  PROVE  Entities(calc)[i].value = ValueAt(calc, Entities(calc)[i].path)
  <1>1. PICK units : units = RankedUnits(calc)
    OBVIOUS
  <1>2. PICK hot : hot = Ordered(Hotspots(calc), HotspotBefore)
    OBVIOUS
  <1>3. PICK m, n : m = Cardinality(DOMAIN units) /\ n = Cardinality(DOMAIN hot)
    OBVIOUS
  <1>4. PICK all : all = [j \in 1..m + n |-> IF j <= m THEN UnitEntity(calc, units[j])
                                            ELSE SegmentEntity(hot[j - m])]
    OBVIOUS
  <1>5. Entities(calc) = [j \in {j \in DOMAIN all : j <= MaxTotal} |-> all[j]]
    BY <1>1, <1>2, <1>3, <1>4 DEF Entities
  <1>6. PICK H : H = Hotspots(calc)
    OBVIOUS
  <1>7. IsFiniteSet(HotOnes(calc)) /\ H \subseteq HotOnes(calc)
    BY <1>6, HotOnesAre, HotspotsChosen
  <1>8. IsFiniteSet(H) /\ Cardinality(H) \in Nat
    BY <1>7, FS_Subset, FS_CardinalityType
  <1>9. \A j \in 1..Cardinality(H) : hot[j] \in H
    <2>1. hot = [j \in 1..Cardinality(H) |->
                   CHOOSE x \in H : Cardinality({y \in H : HotspotBefore(y, x)}) = j - 1]
      BY <1>2, <1>6 DEF Ordered
    <2>2. PICK A : A = HotOnes(calc)
      OBVIOUS
    <2>3. PICK of : of = [h \in A |-> HotKeys(h)]
      OBVIOUS
    <2>4. ToldApart(A, of) /\ \A a, b \in A : HotspotBefore(a, b) <=> Lex(of[a], of[b])
      BY <2>2, <2>3, HotspotsOrdered
    <2>5. ToldApart(H, of) /\ \A a, b \in H : HotspotBefore(a, b) <=> Lex(of[a], of[b])
      BY <1>7, <2>2, <2>4 DEF ToldApart
    <2>6. PICK R : R = ByKeys(H, of)
      OBVIOUS
    <2>7. StrictOrder(H, R) /\ \A x \in H : Ahead(H, R, x) = {y \in H : Lex(of[y], of[x])}
      BY <2>5, <2>6, LexOrder
    <2>8. \A x \in H : Ahead(H, R, x) = {y \in H : HotspotBefore(y, x)}
      BY <2>5, <2>7
    <2>9. ASSUME NEW j \in 1..Cardinality(H)
          PROVE  hot[j] \in H
      <3>1. j - 1 \in 0..(Cardinality(H) - 1)
        BY <1>8
      <3>2. PICK x \in H : Cardinality(Ahead(H, R, x)) = j - 1
        BY <1>8, <2>7, <3>1, RankTaken
      <3>3. Cardinality({y \in H : HotspotBefore(y, x)}) = j - 1
        BY <2>8, <3>2
      <3>. QED
        BY <2>1, <3>3
    <2>. QED
      BY <2>9
  <1>10. n = Cardinality(H) /\ n \in Nat /\ DOMAIN hot = 1..n
    <2>1. DOMAIN hot = 1..Cardinality(H)
      BY <1>2, <1>6 DEF Ordered
    <2>. QED
      BY <1>3, <1>8, <2>1, FS_Interval
  <1>11. m \in Nat /\ DOMAIN units = 1..m
    <2>1. PICK A : A = AvailableUnits(calc)
      OBVIOUS
    <2>2. PICK U : U = {x \in A : Cardinality({y \in A : UnitBefore(calc, y, x)}) < MaxUnits}
      OBVIOUS
    <2>3. DOMAIN units = 1..Cardinality(U)
      BY <1>1, <2>1, <2>2 DEF RankedUnits, Ordered, Top, AvailableUnits, UnitBefore, AgeOf
    <2>4. U \subseteq DOMAIN calc.units /\ IsFiniteSet(DOMAIN calc.units)
      BY <2>1, <2>2 DEF AvailableUnits, Analysed, UnitsFit
    <2>5. IsFiniteSet(U) /\ Cardinality(U) \in Nat
      BY <2>4, FS_Subset, FS_CardinalityType
    <2>. QED
      BY <1>3, <2>3, <2>5, FS_Interval
  <1>12. i \in 1..m + n /\ Entities(calc)[i] = all[i]
    BY <1>4, <1>5
  <1>13. CASE i <= m
    <2>1. i \in DOMAIN units
      BY <1>10, <1>11, <1>12, <1>13
    <2>2. PICK u \in DOMAIN calc.units : u = units[i]
      BY <1>1, <2>1, RankedUnitsAre
    <2>3. all[i] = UnitEntity(calc, u)
      BY <1>4, <1>12, <1>13, <2>2
    <2>4. PICK path : path = <<"units", PlaceOf(DOMAIN calc.units, u), "age">>
      OBVIOUS
    <2>5. AtPlace(DOMAIN calc.units, PlaceOf(DOMAIN calc.units, u)) = u
      BY Placed DEF Analysed, UnitsFit
    <2>6. ValueAt(calc, path) = calc.units[u].age
      BY <2>4, <2>5, PathValues
    <2>. QED
      BY <1>12, <2>3, <2>4, <2>6 DEF UnitEntity
  <1>14. CASE ~(i <= m)
    <2>1. i - m \in 1..n
      BY <1>10, <1>11, <1>12, <1>14
    <2>2. PICK h \in H : h = hot[i - m]
      BY <1>9, <1>10, <2>1
    <2>3. all[i] = SegmentEntity(h)
      BY <1>4, <1>12, <1>14, <2>2
    <2>4. h.value = ValueAt(calc, h.path)
      BY <1>6, HotspotsCited
    <2>. QED
      BY <1>12, <2>3, <2>4 DEF SegmentEntity
  <1>. QED
    BY <1>13, <1>14

LEMMA ConcentrationCited ==
  ASSUME NEW calc, Analysed(calc), Concentration(calc) # Null
  PROVE  Concentration(calc).support = ValueAt(calc, Concentration(calc).path)
  <1>. DEFINE items == calc.breakdowns["zone"]
              Z == DOMAIN items
              T == {x \in Z : Cardinality({y \in Z :
                      IF items[y]["available_inventory"] # items[x]["available_inventory"]
                      THEN items[y]["available_inventory"] > items[x]["available_inventory"] ELSE y < x}) < 1}
              zone == CHOOSE z \in Z : T = {z}
  <1>1. items = calc.breakdowns["zone"] /\ Z = DOMAIN items
    OBVIOUS
  <1>2. Z # {} /\ Concentration(calc)
           = [zone |-> zone, support |-> items[zone]["available_inventory"],
              total |-> calc.metrics["available_inventory"],
              path |-> <<"breakdowns", "zone", "available_inventory", PlaceOf(DOMAIN items, zone)>>]
    BY DEF Concentration, Top
  <1>3. T = {x \in Z : Cardinality({y \in Z :
                IF items[y]["available_inventory"] # items[x]["available_inventory"]
                THEN items[y]["available_inventory"] > items[x]["available_inventory"] ELSE y < x}) < 1}
    OBVIOUS
  <1>4. zone = CHOOSE z \in Z : T = {z}
    OBVIOUS
  <1>. HIDE DEF items, Z, T, zone
  <1>5. "zone" \in Dimensions
    BY DEF Dimensions
  <1>6. IsFiniteSet(Z) /\ Z \subseteq Int /\ \A z \in Z : items[z]["available_inventory"] \in Int
    BY <1>1, <1>5 DEF Analysed, BreakdownsFit
  <1>7. PICK keys : keys = [z \in Z |-> <<-items[z]["available_inventory"], z, 0, 0>>]
    OBVIOUS
  <1>8. \A z \in Z : /\ keys[z][1] = -items[z]["available_inventory"] /\ keys[z][2] = z
                     /\ keys[z][3] = 0 /\ keys[z][4] = 0
    BY <1>7
  <1>9. ToldApart(Z, keys)
    <2>1. \A i \in 1..4 : i \in {1, 2, 3, 4}
      OBVIOUS
    <2>2. \A z \in Z : \A i \in 1..4 : keys[z][i] \in Int
      BY <1>6, <1>8, <2>1
    <2>. QED
      BY <1>8, <2>2 DEF ToldApart
  <1>10. PICK R : R = ByKeys(Z, keys)
    OBVIOUS
  <1>11. StrictOrder(Z, R) /\ \A x \in Z : Ahead(Z, R, x) = {y \in Z : Lex(keys[y], keys[x])}
    BY <1>9, <1>10, LexOrder
  <1>12. \A a, b \in Z :
            (IF items[a]["available_inventory"] # items[b]["available_inventory"]
             THEN items[a]["available_inventory"] > items[b]["available_inventory"] ELSE a < b)
              <=> Lex(keys[a], keys[b])
    <2>1. SUFFICES ASSUME NEW a \in Z, NEW b \in Z
                   PROVE  (IF items[a]["available_inventory"] # items[b]["available_inventory"]
                           THEN items[a]["available_inventory"] > items[b]["available_inventory"] ELSE a < b)
                             <=> Lex(keys[a], keys[b])
      OBVIOUS
    <2>2. PICK m, n : m = items[a]["available_inventory"] /\ n = items[b]["available_inventory"]
      OBVIOUS
    <2>3. m \in Int /\ n \in Int /\ a \in Int /\ b \in Int
      BY <1>6, <2>2
    <2>4. PICK x, y : x = keys[a] /\ y = keys[b]
      OBVIOUS
    <2>5. /\ x[1] = -m /\ x[2] = a /\ x[3] = 0 /\ x[4] = 0
          /\ y[1] = -n /\ y[2] = b /\ y[3] = 0 /\ y[4] = 0
      BY <1>8, <2>2, <2>4
    <2>6. (IF m # n THEN m > n ELSE a < b) <=> Lex(x, y)
      BY <2>3, <2>5 DEF Lex
    <2>. QED
      BY <2>2, <2>4, <2>6
  <1>13. \A x \in Z : Ahead(Z, R, x)
            = {y \in Z : IF items[y]["available_inventory"] # items[x]["available_inventory"]
                         THEN items[y]["available_inventory"] > items[x]["available_inventory"] ELSE y < x}
    BY <1>11, <1>12
  <1>14. T = {x \in Z : Cardinality(Ahead(Z, R, x)) < 1}
    BY <1>13, <1>3
  <1>15. zone \in Z
    <2>1. PICK x \in Z : Ahead(Z, R, x) = {}
      BY <1>6, <1>11, <1>2, First
    <2>2. \A y \in Z : IsFiniteSet(Ahead(Z, R, y)) /\ Cardinality(Ahead(Z, R, y)) \in Nat
      BY <1>6, FS_Subset, FS_CardinalityType DEF Ahead
    <2>3. Cardinality(Ahead(Z, R, x)) = 0
      BY <2>1, FS_EmptySet
    <2>4. \A y \in T : Cardinality(Ahead(Z, R, y)) = 0 /\ y \in Z
      BY <1>14, <2>2
    <2>5. ASSUME NEW y \in T
          PROVE  y = x
      <3>1. y \in Z /\ Cardinality(Ahead(Z, R, y)) = Cardinality(Ahead(Z, R, x))
        BY <2>3, <2>4
      <3>2. IsFiniteSet(Z) /\ StrictOrder(Z, R)
        BY <1>6, <1>11
      <3>. QED
        BY <3>1, <3>2, RankApart
    <2>6. x \in T
      BY <1>14, <2>3
    <2>7. T = {x}
      BY <2>5, <2>6
    <2>. QED
      BY <1>4, <2>7
  <1>16. ValueAt(calc, <<"breakdowns", "zone", "available_inventory", PlaceOf(DOMAIN items, zone)>>)
           = items[zone]["available_inventory"]
    BY <1>1, <1>5, <1>15, PathOfPart
  <1>. QED
    BY <1>2, <1>16

-----------------------------------------------------------------------------
(* The changes of the policy *)

LEMMA PolicyChangesAre ==
  ASSUME NEW calc, NEW c \in PolicyChanges(calc)
  PROVE  /\ c.metric \in {"available_inventory", "slow_moving_rate", "median_inventory_age_days"}
         /\ c.period \in Periods /\ c.severity \in {"material", "watch"}
         /\ \A d \in PolicyChanges(calc) : d.metric = c.metric /\ d.period = c.period => d = c
  <1>1. ASSUME NEW x \in PolicyChanges(calc)
        PROVE  \E p \in Periods, rule \in Materiality :
                  /\ rule.metric \in Compared
                  /\ x = [metric |-> rule.metric, period |-> p,
                          severity |-> IF Reaches(rule, calc.periods[p][rule.metric], rule.material)
                                       THEN "material" ELSE "watch",
                          direction |-> Direction(rule, calc.periods[p][rule.metric])]
    BY DEF PolicyChanges
  <1>2. \A rule \in Materiality : rule.metric \in Compared
          => rule.metric \in {"available_inventory", "slow_moving_rate", "median_inventory_age_days"}
    BY DEF Materiality, Rule, Compared
  <1>3. \A r, s \in Materiality : r.metric = s.metric => r = s
    BY DEF Materiality, Rule
  <1>4. /\ c.metric \in {"available_inventory", "slow_moving_rate", "median_inventory_age_days"}
        /\ c.period \in Periods /\ c.severity \in {"material", "watch"}
    BY <1>1, <1>2
  <1>5. ASSUME NEW d \in PolicyChanges(calc), d.metric = c.metric, d.period = c.period
        PROVE  d = c
    <2>1. PICK p \in Periods, r \in Materiality :
             c = [metric |-> r.metric, period |-> p,
                  severity |-> IF Reaches(r, calc.periods[p][r.metric], r.material)
                               THEN "material" ELSE "watch",
                  direction |-> Direction(r, calc.periods[p][r.metric])]
      BY <1>1
    <2>2. PICK q \in Periods, s \in Materiality :
             d = [metric |-> s.metric, period |-> q,
                  severity |-> IF Reaches(s, calc.periods[q][s.metric], s.material)
                               THEN "material" ELSE "watch",
                  direction |-> Direction(s, calc.periods[q][s.metric])]
      BY <1>1
    <2>3. p = q /\ r.metric = s.metric
      BY <1>5, <2>1, <2>2
    <2>4. r = s
      BY <1>3, <2>3
    <2>. QED
      BY <2>1, <2>2, <2>3, <2>4
  <1>. QED
    BY <1>4, <1>5

(* The pack lists every change of the policy and nothing else.             *)
LEMMA ChangesListed ==
  ASSUME NEW calc, NEW C, C = PolicyChanges(calc), NEW listed, listed = Ordered(C, ChangeBefore)
  PROVE  \A i \in DOMAIN listed : listed[i] \in C
  <1>1. \A c \in C : /\ c.metric \in {"available_inventory", "slow_moving_rate", "median_inventory_age_days"}
                     /\ c.period \in Periods /\ c.severity \in {"material", "watch"}
                     /\ \A d \in C : d.metric = c.metric /\ d.period = c.period => d = c
    BY PolicyChangesAre
  <1>2. PICK keys : keys = [c \in C |-> <<IF c.severity = "material" THEN 0 ELSE 1, c.period,
                                          RuleOrder[c.metric], 0>>]
    OBVIOUS
  <1>3. \A c \in C : /\ keys[c][1] = (IF c.severity = "material" THEN 0 ELSE 1) /\ keys[c][2] = c.period
                     /\ keys[c][3] = RuleOrder[c.metric] /\ keys[c][4] = 0
    BY <1>2
  <1>4. \A c \in C : c.period \in Int /\ RuleOrder[c.metric] \in 1..3
    BY <1>1 DEF Periods, RuleOrder
  <1>5. \A c, d \in C : RuleOrder[c.metric] = RuleOrder[d.metric] => c.metric = d.metric
    BY <1>1 DEF RuleOrder
  <1>6. ToldApart(C, keys)
    <2>1. \A i \in 1..4 : i \in {1, 2, 3, 4}
      OBVIOUS
    <2>2. \A c \in C : \A i \in 1..4 : keys[c][i] \in Int
      BY <1>3, <1>4, <2>1
    <2>3. ASSUME NEW c \in C, NEW d \in C, \A i \in 1..4 : keys[c][i] = keys[d][i]
          PROVE  c = d
      <3>1. keys[c][2] = keys[d][2] /\ keys[c][3] = keys[d][3]
        BY <2>3
      <3>2. c.period = d.period /\ c.metric = d.metric
        BY <1>3, <1>5, <3>1
      <3>. QED
        BY <1>1, <3>2
    <2>. QED
      BY <2>2, <2>3 DEF ToldApart
  <1>7. \A a, b \in C : ChangeBefore(a, b) <=> Lex(keys[a], keys[b])
    <2>1. SUFFICES ASSUME NEW a \in C, NEW b \in C
                   PROVE  ChangeBefore(a, b) <=> Lex(keys[a], keys[b])
      OBVIOUS
    <2>2. PICK p \in Int, q \in Int, r \in Int, s \in Int :
            p = a.period /\ q = b.period /\ r = RuleOrder[a.metric] /\ s = RuleOrder[b.metric]
      BY <1>4
    <2>3. /\ keys[a][2] = p /\ keys[b][2] = q /\ keys[a][3] = r /\ keys[b][3] = s
          /\ keys[a][4] = 0 /\ keys[b][4] = 0
      BY <1>3, <2>2
    <2>4. CASE a.severity = b.severity
      <3>1. keys[a][1] = keys[b][1]
        BY <1>3, <2>4
      <3>2. Lex(keys[a], keys[b]) <=> (p < q \/ (p = q /\ r < s))
        BY <1>3, <1>4, <2>3, <3>1 DEF Lex
      <3>3. ChangeBefore(a, b) <=> (p < q \/ (p = q /\ r < s))
        BY <2>2, <2>4 DEF ChangeBefore
      <3>. QED
        BY <3>2, <3>3
    <2>5. CASE a.severity = "material" /\ b.severity = "watch"
      <3>1. keys[a][1] = 0 /\ keys[b][1] = 1
        BY <1>3, <2>5
      <3>2. Lex(keys[a], keys[b])
        BY <3>1 DEF Lex
      <3>3. a.severity # b.severity /\ a.severity = "material"
        BY <2>5
      <3>4. ChangeBefore(a, b)
        BY <3>3 DEF ChangeBefore
      <3>. QED
        BY <3>2, <3>4
    <2>6. CASE a.severity = "watch" /\ b.severity = "material"
      <3>1. keys[a][1] = 1 /\ keys[b][1] = 0
        BY <1>3, <2>6
      <3>2. ~Lex(keys[a], keys[b])
        BY <3>1 DEF Lex
      <3>3. a.severity # b.severity /\ a.severity # "material"
        BY <2>6
      <3>4. ~ChangeBefore(a, b)
        BY <3>3 DEF ChangeBefore
      <3>. QED
        BY <3>2, <3>4
    <2>. QED
      BY <1>1, <2>4, <2>5, <2>6
  <1>8. IsFiniteSet(C)
    <2>1. PICK lo \in Int, hi \in Int : lo = 0 /\ hi = 400
      OBVIOUS
    <2>2. IsFiniteSet(lo..hi)
      BY FS_Interval
    <2>3. PICK f : f = [c \in C |-> 4 * c.period + RuleOrder[c.metric]]
      OBVIOUS
    <2>4. \A c \in C : f[c] \in lo..hi
      BY <1>1, <1>4, <2>1, <2>3 DEF Periods
    <2>5. ASSUME NEW c \in C, NEW d \in C, f[c] = f[d]
          PROVE  c = d
      <3>1. RuleOrder[c.metric] = RuleOrder[d.metric] /\ c.period = d.period
        BY <1>4, <2>3, <2>5
      <3>. QED
        BY <1>1, <1>5, <3>1
    <2>6. f \in Injection(C, lo..hi)
      BY <2>3, <2>4, <2>5 DEF Injection, IsInjective
    <2>. QED
      BY <2>2, <2>6, FS_Injection
  <1>9. PICK R : R = ByKeys(C, keys)
    OBVIOUS
  <1>10. StrictOrder(C, R) /\ \A x \in C : Ahead(C, R, x) = {y \in C : Lex(keys[y], keys[x])}
    BY <1>6, <1>9, LexOrder
  <1>11. \A x \in C : Ahead(C, R, x) = {y \in C : ChangeBefore(y, x)}
    BY <1>7, <1>10
  <1>12. listed = [i \in 1..Cardinality(C) |->
                     CHOOSE x \in C : Cardinality({y \in C : ChangeBefore(y, x)}) = i - 1]
    BY DEF Ordered
  <1>13. Cardinality(C) \in Nat
    BY <1>8, FS_CardinalityType
  <1>14. ASSUME NEW i \in 1..Cardinality(C)
         PROVE  listed[i] \in C
    <2>1. i - 1 \in 0..(Cardinality(C) - 1)
      BY <1>13
    <2>2. PICK x \in C : Cardinality(Ahead(C, R, x)) = i - 1
      BY <1>8, <1>10, <2>1, RankTaken
    <2>3. Cardinality({y \in C : ChangeBefore(y, x)}) = i - 1
      BY <1>11, <2>2
    <2>. QED
      BY <1>12, <2>3
  <1>. QED
    BY <1>12, <1>14
=============================================================================
