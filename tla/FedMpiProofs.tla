---------------------------- MODULE FedMpiProofs ----------------------------
(* Theorems about FedMpi: for any number of ranks, files, documents and     *)
(* bands, whatever the setup.                                               *)
EXTENDS FedMpi, ForestProofs, FiniteSetTheorems

-----------------------------------------------------------------------------
(* Division.                                                                *)
LEMMA Divide ==
  ASSUME NEW r \in Nat, NEW l \in Nat \ {0}
  PROVE  r \div l \in Nat /\ r % l \in 0..(l - 1) /\ r = l * (r \div l) + (r % l)
OBVIOUS

(* A number is the quotient and the remainder it is built from.             *)
LEMMA Quotient ==
  ASSUME NEW r \in Nat, NEW l \in Nat \ {0}, NEW k \in Nat, NEW m \in 0..(l - 1),
         r = l * k + m
  PROVE  r \div l = k /\ r % l = m
OBVIOUS

(* A rank whose quotient by the level is even is a multiple of the next     *)
(* level.                                                                   *)
LEMMA EvenGoesOn ==
  ASSUME NEW r \in Nat, NEW l \in Nat \ {0}, r % l = 0, ~((r \div l) % 2 = 1)
  PROVE  \E h \in Nat : r = (2 * l) * h /\ r % (2 * l) = 0
<1> DEFINE k == r \div l
<1>1. k \in Nat /\ r = l * k
  BY Divide
<1>2. ~(k % 2 = 1)
  OBVIOUS
<1> HIDE DEF k
<1>3. PICK h \in Nat : k = 2 * h
  <2>1. k \div 2 \in Nat /\ k % 2 \in 0..1 /\ k = 2 * (k \div 2) + (k % 2)
    BY <1>1, Divide
  <2> QED BY <1>1, <1>2, <2>1
<1> DEFINE m == 2 * l
<1>4. r = m * h + 0 /\ m \in Nat \ {0}
  BY <1>1, <1>3
<1> HIDE DEF m
<1>5. r % m = 0
  BY <1>4, Quotient
<1> QED BY <1>4, <1>5 DEF m

(* A rank whose quotient is odd is not: it sends and leaves the tree.       *)
LEMMA OddLeaves ==
  ASSUME NEW r \in Nat, NEW l \in Nat \ {0}, r % l = 0, (r \div l) % 2 = 1
  PROVE  r % (2 * l) # 0 /\ \E h \in Nat : r = l * (2 * h + 1)
<1> DEFINE k == r \div l
<1>1. k \in Nat /\ r = l * k /\ k % 2 = 1
  BY Divide
<1> HIDE DEF k
<1>2. PICK h \in Nat : k = 2 * h + 1
  <2>1. k \div 2 \in Nat /\ k = 2 * (k \div 2) + (k % 2)
    BY <1>1, Divide
  <2> QED BY <1>1, <2>1
<1> DEFINE m == 2 * l
<1>3. r = m * h + l /\ m \in Nat \ {0} /\ l \in 0..(m - 1)
  BY <1>1, <1>2
<1> HIDE DEF m
<1>4. r % m = l
  BY <1>3, Quotient
<1> QED BY <1>1, <1>2, <1>4 DEF m

(* An odd multiple of a level leaves the tree at that level.                *)
LEMMA OddOf ==
  ASSUME NEW q \in Nat, NEW l \in Nat \ {0}, NEW h \in Nat, q = l * (2 * h + 1)
  PROVE  q % l = 0 /\ (q \div l) % 2 = 1
<1> DEFINE k == 2 * h + 1
<1>1. k \in Nat /\ k % 2 = 1 /\ q = l * k + 0 /\ 0 \in 0..(l - 1)
  OBVIOUS
<1> HIDE DEF k
<1>2. q \div l = k /\ q % l = 0
  BY <1>1, Quotient
<1> QED BY <1>1, <1>2

(* The rank that one whose number is even at level l receives from.         *)
LEMMA PartnerOdd ==
  ASSUME NEW r \in Nat, NEW l \in Nat \ {0}, r % l = 0, ~((r \div l) % 2 = 1)
  PROVE  (r + l) % l = 0 /\ ((r + l) \div l) % 2 = 1
<1>1. PICK h \in Nat : r = (2 * l) * h
  BY EvenGoesOn
<1> DEFINE q == r + l
<1>2. q \in Nat /\ q = l * (2 * h + 1)
  BY <1>1
<1> HIDE DEF q
<1>3. q % l = 0 /\ (q \div l) % 2 = 1
  BY <1>2, OddOf
<1> QED BY <1>3 DEF q

(* The levels of merge_union.  A number is odd at one level only.           *)
Levels == {Power2[n] : n \in Nat}

(* Levels are positive, and the next level is a level.                      *)
LEMMA LevelFacts ==
  /\ 1 \in Levels /\ \A l \in Levels : l \in Nat \ {0} /\ 2 * l \in Levels
<1>1. \A n \in Nat : Power2[n] \in Nat \ {0} /\ Power2[n + 1] = 2 * Power2[n] /\ n + 1 \in Nat
  BY Power2Grows
<1> QED BY <1>1, Power2Grows DEF Levels

(* A higher level is an even multiple of a lower one.                       *)
LEMMA HigherLevel ==
  ASSUME NEW n \in Nat, NEW m \in Nat, n < m
  PROVE  \E k \in Nat : Power2[m] = Power2[n] * (2 * k)
<1> DEFINE T == {j \in Nat : n < j /\ ~ \E k \in Nat : Power2[j] = Power2[n] * (2 * k)}
<1> SUFFICES ASSUME T # {} PROVE FALSE
  OBVIOUS
<1>1. PICK j \in T : \A i \in T : j <= i
  <2>1. T \in SUBSET Nat
    OBVIOUS
  <2> HIDE DEF T
  <2> QED BY <2>1, Least
<1>2. j \in Nat /\ n < j /\ j - 1 \in Nat /\ n \in Nat
  OBVIOUS
<1>3. ~(j - 1 \in T)
  <2>1. ~(j <= j - 1)
    BY <1>2
  <2> HIDE DEF T
  <2> QED BY <1>1, <2>1
<1>4. Power2[j] = 2 * Power2[j - 1] /\ Power2[j - 1] \in Nat /\ Power2[n] \in Nat
  <2>1. (j - 1) + 1 = j
    BY <1>2
  <2> QED BY <1>2, <2>1, Power2Grows
<1>5. CASE n = j - 1
  <2>1. Power2[j] = Power2[n] * (2 * 1)
    BY <1>4, <1>5
  <2> QED BY <2>1
<1>6. CASE n # j - 1
  <2>1. n < j - 1
    BY <1>2, <1>6
  <2>2. PICK k \in Nat : Power2[j - 1] = Power2[n] * (2 * k)
    BY <1>2, <1>3, <2>1
  <2>3. Power2[j] = Power2[n] * (2 * (2 * k)) /\ 2 * k \in Nat
    BY <1>4, <2>2
  <2> QED BY <2>3
<1> QED BY <1>5, <1>6

(* A rank leaves the tree at one level only.                                *)
LEMMA OneLevel ==
  ASSUME NEW q \in Nat, NEW l \in Levels, NEW m \in Levels,
         q % l = 0, (q \div l) % 2 = 1, q % m = 0, (q \div m) % 2 = 1
  PROVE  l = m
<1>1. ASSUME NEW a \in Nat, NEW b \in Nat, a < b,
             q % Power2[a] = 0, (q \div Power2[a]) % 2 = 1,
             q % Power2[b] = 0, (q \div Power2[b]) % 2 = 1
      PROVE  FALSE
  <2>1. PICK k \in Nat : Power2[b] = Power2[a] * (2 * k)
    BY <1>1, HigherLevel
  <2>2. Power2[a] \in Nat \ {0} /\ Power2[b] \in Nat \ {0}
    BY Power2Grows
  <2>3. PICK h \in Nat : q = Power2[b] * (2 * h + 1)
    BY <1>1, <2>2, OddLeaves
  <2> DEFINE c == 2 * (k * (2 * h + 1))
             p == Power2[a]
  <2>4. p \in Nat \ {0} /\ c \in Nat /\ c % 2 = 0 /\ q = p * c + 0 /\ 0 \in 0..(p - 1)
    <3>1. k * (2 * h + 1) \in Nat
      OBVIOUS
    <3>2. c \in Nat /\ c % 2 = 0
      BY <3>1
    <3>3. q = p * c
      BY <2>1, <2>2, <2>3
    <3> QED BY <2>2, <3>2, <3>3
  <2>5. (q \div p) % 2 = 1
    BY <1>1
  <2> HIDE DEF c, p
  <2>6. q \div p = c
    BY <2>4, Quotient
  <2> QED BY <2>4, <2>5, <2>6
<1>2. PICK a \in Nat : l = Power2[a]
  BY DEF Levels
<1>3. PICK b \in Nat : m = Power2[b]
  BY DEF Levels
<1>4. a = b \/ a < b \/ b < a
  OBVIOUS
<1> QED BY <1>1, <1>2, <1>3, <1>4

-----------------------------------------------------------------------------
(* The files of the ranks.  Every file is dealt to exactly one rank.        *)
Share(s, r) == r * (NumFile \div s) + MinOf(r, NumFile % s)

(* The files are dealt in consecutive shares, the last of which ends at the *)
(* last file.                                                               *)
LEMMA Shares ==
  ASSUME NEW s \in Nat \ {0}
  PROVE  /\ Share(s, 0) = 0 /\ Share(s, s) = NumFile
         /\ \A r \in Nat : /\ Share(s, r) \in Nat
                           /\ Share(s, r + 1) = Share(s, r) + NumFile \div s
                                                + (IF r < NumFile % s THEN 1 ELSE 0)
         /\ \A q, r \in Nat : q <= r => Share(s, q) <= Share(s, r)
<1> DEFINE c == NumFile \div s
           m == NumFile % s
<1>1. c \in Nat /\ m \in 0..(s - 1) /\ NumFile = s * c + m
  BY MpiAssumption, Divide
<1>2. \A r : Share(s, r) = r * c + MinOf(r, m)
  BY DEF Share
<1> HIDE DEF c, m
<1>3. \A r \in Nat : r * c \in Nat /\ (r + 1) * c = r * c + c
  BY <1>1
<1>4. \A r \in Nat : Share(s, r) \in Nat /\ Share(s, r + 1) = Share(s, r) + c + (IF r < m THEN 1 ELSE 0)
  <2> TAKE r \in Nat
  <2>1. /\ MinOf(r, m) \in Nat
        /\ MinOf(r + 1, m) = MinOf(r, m) + (IF r < m THEN 1 ELSE 0)
    BY <1>1 DEF MinOf
  <2>2. Share(s, r) = r * c + MinOf(r, m) /\ Share(s, r + 1) = (r + 1) * c + MinOf(r + 1, m)
    BY <1>2
  <2> QED BY <1>1, <1>3, <2>1, <2>2
<1>5. Share(s, 0) = 0 /\ Share(s, s) = NumFile
  <2>1. 0 * c = 0
    BY <1>1
  <2> QED BY <1>1, <1>2, <2>1 DEF MinOf
<1>6. ASSUME NEW q \in Nat, NEW r \in Nat, q <= r PROVE Share(s, q) <= Share(s, r)
  <2>1. q * c <= r * c
    <3>1. r - q \in Nat
      BY <1>6
    <3>2. (r - q) * c \in Nat /\ r * c = q * c + (r - q) * c
      BY <1>1, <3>1
    <3> QED BY <1>1, <1>3, <3>2
  <2>2. MinOf(q, m) <= MinOf(r, m) /\ MinOf(q, m) \in Nat /\ MinOf(r, m) \in Nat
    BY <1>1, <1>6 DEF MinOf
  <2> QED BY <1>2, <1>3, <2>1, <2>2
<1> QED BY <1>4, <1>5, <1>6 DEF c, m

(* What every setup gives: ranks, buckets and keys.                         *)
LEMMA SizeFacts ==
  ASSUME setup \in Setups
  PROVE  /\ size \in Nat \ {0} /\ 0 \in Ranks /\ IsFiniteSet(Ranks)
         /\ \A r \in Ranks : r \in Nat /\ r < size /\ MaxBucket(r) \in Nat \ {0} /\ NumKey(r) \in Nat \ {0}
<1>1. setup \in SetupType /\ Len(setup.bucket) = setup.size
  BY MpiAssumption
<1>2. size \in Nat \ {0} /\ setup.bucket \in Seq(Nat \ {0}) /\ Len(setup.bucket) = size
  BY <1>1 DEF SetupType, size
<1> HIDE DEF size
<1>3. 0 \in Ranks /\ \A r \in Ranks : r \in Nat /\ r < size
  BY <1>2 DEF Ranks
<1>4. IsFiniteSet(Ranks)
  BY <1>2, FS_Interval DEF Ranks
<1>5. ASSUME NEW r \in Ranks PROVE MaxBucket(r) \in Nat \ {0}
  <2>1. r + 1 \in 1..Len(setup.bucket)
    BY <1>2, <1>3
  <2>2. setup.bucket[r + 1] \in Nat \ {0}
    BY <1>2, <2>1, ElementOfSeq
  <2> QED BY <2>2, MpiAssumption DEF MaxBucket
<1>6. ASSUME NEW r \in Ranks PROVE NumKey(r) \in Nat \ {0}
  <2> DEFINE n == (2 * NumFile * MaxLine) \div MaxBucket(r)
  <2>1. n \in Nat
    <3>1. 2 * NumFile * MaxLine \in Nat
      BY MpiAssumption
    <3> QED BY <1>5, <3>1, Divide
  <2> HIDE DEF n
  <2>2. MaxOf(n, KeyFloor) \in Nat \ {0} /\ DefaultKeys \in Nat \ {0}
    BY <2>1, MpiAssumption DEF MaxOf
  <2> QED BY <2>2 DEF NumKey, n
<1> QED BY <1>2, <1>3, <1>4, <1>5, <1>6

(* The index range of each rank is its share.                               *)
LEMMA FilesDealt ==
  ASSUME setup \in Setups
  PROVE  /\ \A r \in Ranks : /\ StartIndex(r) \in Nat /\ EndIndex(r) \in Nat
                             /\ StartIndex(r) <= EndIndex(r) /\ EndIndex(r) <= NumFile
                             /\ StartIndex(r) = Share(size, r) /\ EndIndex(r) = Share(size, r + 1)
         /\ \A q, r \in Ranks : q < r => EndIndex(q) <= StartIndex(r)
<1>1. size \in Nat \ {0} /\ \A r \in Ranks : r \in Nat /\ r < size
  BY SizeFacts
<1> HIDE DEF size
<1>2. ASSUME NEW r \in Ranks PROVE StartIndex(r) = Share(size, r) /\ EndIndex(r) = Share(size, r + 1)
  <2>1. StartIndex(r) = Share(size, r)
    BY DEF StartIndex, Share
  <2> QED BY <1>1, <2>1, Shares DEF EndIndex
<1>3. ASSUME NEW q \in Ranks, NEW r \in Ranks, q < r PROVE EndIndex(q) <= StartIndex(r)
  <2>1. q + 1 \in Nat /\ r \in Nat /\ q + 1 <= r
    BY <1>1, <1>3
  <2> QED BY <1>1, <1>2, <2>1, Shares
<1>4. ASSUME NEW r \in Ranks
      PROVE  /\ StartIndex(r) \in Nat /\ EndIndex(r) \in Nat
             /\ StartIndex(r) <= EndIndex(r) /\ EndIndex(r) <= NumFile
  <2>1. r \in Nat /\ r + 1 \in Nat /\ r <= r + 1 /\ r + 1 <= size /\ size \in Nat
    BY <1>1
  <2>2. \A a, b \in Nat : a <= b => Share(size, a) <= Share(size, b)
    BY <1>1, Shares
  <2>3. Share(size, r) \in Nat /\ Share(size, r + 1) \in Nat /\ Share(size, size) = NumFile
    BY <1>1, <2>1, Shares
  <2> QED BY <1>2, <2>1, <2>2, <2>3
<1> QED BY <1>2, <1>3, <1>4

OwnsFile(r, f) == StartIndex(r) <= f /\ f < EndIndex(r)

(* Every file is hashed by exactly one rank.                                *)
LEMMA FileOwner ==
  ASSUME setup \in Setups, NEW f \in Files
  PROVE  \E r \in Ranks : OwnsFile(r, f) /\ \A q \in Ranks : OwnsFile(q, f) => q = r
<1>1. size \in Nat \ {0} /\ \A r \in Ranks : r \in Nat /\ r < size
  BY SizeFacts
<1>2. f \in Nat /\ f < NumFile /\ NumFile \in Nat
  BY MpiAssumption DEF Files
<1> DEFINE T == {n \in Nat : f < Share(size, n)}
<1>3. size \in T
  BY <1>1, <1>2, Shares
<1>4. PICK n \in T : \A k \in T : n <= k
  <2>1. T \in SUBSET Nat
    OBVIOUS
  <2> HIDE DEF T
  <2> QED BY <1>3, <2>1, Least
<1>5. n \in Nat /\ f < Share(size, n) /\ n <= size
  BY <1>3, <1>4
<1>6. n # 0
  BY <1>1, <1>2, <1>5, Shares
<1> DEFINE r == n - 1
<1>7. r \in Nat /\ r < size /\ r + 1 = n /\ ~(n <= r)
  BY <1>1, <1>5, <1>6
<1>8. r \notin T
  <2> HIDE DEF T, r
  <2> QED BY <1>4, <1>7
<1> HIDE DEF r
<1>9. r \in Ranks
  <2> HIDE DEF size
  <2> QED BY <1>1, <1>7 DEF Ranks
<1>10. OwnsFile(r, f)
  <2>1. Share(size, r) \in Nat /\ ~(f < Share(size, r))
    BY <1>1, <1>7, <1>8, Shares
  <2>2. StartIndex(r) = Share(size, r) /\ EndIndex(r) = Share(size, n)
    BY <1>7, <1>9, FilesDealt
  <2> QED BY <1>2, <1>5, <2>1, <2>2 DEF OwnsFile
<1>11. ASSUME NEW q \in Ranks, OwnsFile(q, f) PROVE q = r
  <2>1. \A a \in Ranks : StartIndex(a) \in Nat /\ EndIndex(a) \in Nat
    BY FilesDealt
  <2>2. \A a, b \in Ranks : a < b => EndIndex(a) <= StartIndex(b)
    BY FilesDealt
  <2>3. q \in Nat /\ r \in Nat
    BY <1>1, <1>9
  <2>4. StartIndex(q) <= f /\ f < EndIndex(q) /\ StartIndex(r) <= f /\ f < EndIndex(r)
    BY <1>10, <1>11 DEF OwnsFile
  <2> QED BY <1>2, <1>9, <2>1, <2>2, <2>3, <2>4
<1> QED BY <1>9, <1>10, <1>11

(* The places that the gathers compute are the first files of the ranks.    *)
LEMMA Places ==
  ASSUME setup \in Setups, NEW r \in Ranks
  PROVE  Displs(r) = StartIndex(r) /\ Displs(r) + Count(r) = EndIndex(r)
<1>1. size \in Nat \ {0} /\ \A q \in Ranks : q \in Nat /\ q < size
  BY SizeFacts
<1>2. r \in Nat /\ r < size
  BY <1>1
<1>3. ASSUME NEW n \in 1..r PROVE n - 1 \in Ranks /\ n \in Ranks
  <2> HIDE DEF size
  <2> QED BY <1>1, <1>2, <1>3 DEF Ranks
<1> DEFINE F(f) == [n \in 0..r |-> IF n = 0 THEN 0 ELSE f[n - 1] + Count(n - 1)]
           g == [n \in 0..r |-> Share(size, n)]
           at == CHOOSE f : f = F(f)
<1>4. ASSUME NEW q \in Ranks PROVE Count(q) = Share(size, q + 1) - Share(size, q) /\ Share(size, q) \in Nat /\ Share(size, q + 1) \in Nat
  <2>1. q \in Nat /\ q + 1 \in Nat
    BY <1>1
  <2> QED BY <1>1, <2>1, FilesDealt, Shares DEF Count
<1>5. g = F(g)
  <2>1. ASSUME NEW n \in 0..r PROVE g[n] = IF n = 0 THEN 0 ELSE g[n - 1] + Count(n - 1)
    <3>1. CASE n = 0
      BY <1>1, <3>1, Shares
    <3>2. CASE n # 0
      <4>1. n \in 1..r /\ n - 1 \in 0..r /\ (n - 1) + 1 = n
        BY <1>2, <3>2
      <4>2. n - 1 \in Ranks
        BY <1>3, <4>1
      <4>3. /\ Count(n - 1) = Share(size, n) - Share(size, n - 1)
            /\ Share(size, n) \in Nat /\ Share(size, n - 1) \in Nat
        BY <1>4, <4>1, <4>2
      <4> QED BY <3>2, <4>1, <4>3
    <3> QED BY <3>1, <3>2
  <2> QED BY <2>1
<1>6. at = F(at)
  <2> HIDE DEF F, g
  <2> QED BY <1>5
<1>7. Displs(r) = at[r]
  BY DEF Displs
<1> HIDE DEF at
<1>8. at[0] = 0 /\ \A n \in 1..r : at[n] = at[n - 1] + Count(n - 1)
  <2>1. \A n \in 0..r : at[n] = F(at)[n]
    BY <1>6
  <2>2. at[0] = 0
    BY <1>2, <2>1
  <2>3. ASSUME NEW n \in 1..r PROVE at[n] = at[n - 1] + Count(n - 1)
    <3>1. n \in 0..r /\ n # 0
      OBVIOUS
    <3> QED BY <2>1, <3>1
  <2> QED BY <2>2, <2>3
<1> HIDE DEF F
<1> DEFINE T == {n \in 0..r : at[n] # Share(size, n)}
<1>9. T = {}
  <2> SUFFICES ASSUME T # {} PROVE FALSE
    OBVIOUS
  <2>1. PICK n \in T : \A k \in T : n <= k
    <3>1. T \in SUBSET Nat
      OBVIOUS
    <3> HIDE DEF T
    <3> QED BY <3>1, Least
  <2>2. n \in 0..r /\ at[n] # Share(size, n)
    OBVIOUS
  <2>3. n # 0
    BY <1>1, <1>8, <2>2, Shares
  <2>4. n \in 1..r /\ n - 1 \in 0..r /\ ~(n <= n - 1) /\ (n - 1) + 1 = n
    BY <1>2, <2>2, <2>3
  <2>5. n - 1 \notin T
    <3> HIDE DEF T
    <3> QED BY <2>1, <2>4
  <2>6. at[n - 1] = Share(size, n - 1)
    BY <2>4, <2>5
  <2>7. /\ Count(n - 1) = Share(size, n) - Share(size, n - 1)
        /\ Share(size, n) \in Nat /\ Share(size, n - 1) \in Nat
    BY <1>3, <1>4, <2>4
  <2>8. at[n] = at[n - 1] + Count(n - 1)
    BY <1>8, <2>4
  <2> QED BY <2>2, <2>6, <2>7, <2>8
<1>10. at[r] = Share(size, r)
  <2>1. r \in 0..r
    BY <1>2
  <2> QED BY <1>9, <2>1
<1>11. StartIndex(r) = Share(size, r) /\ EndIndex(r) = Share(size, r + 1)
  BY FilesDealt
<1> QED BY <1>4, <1>7, <1>10, <1>11

-----------------------------------------------------------------------------
(* The lines of a file.  Counting the elements of a set of numbers up to    *)
(* one of them numbers them from 1 without a gap.                           *)
UpToIn(S, x) == {e \in S : e <= x}

(* The numbers of a set up to a bound can be counted.                       *)
LEMMA CountUpTo ==
  ASSUME NEW N \in Nat, NEW S \in SUBSET (1..N)
  PROVE  /\ IsFiniteSet(S) /\ Cardinality(S) \in Nat
         /\ \A x : IsFiniteSet(UpToIn(S, x)) /\ Cardinality(UpToIn(S, x)) \in Nat
                   /\ Cardinality(UpToIn(S, x)) <= Cardinality(S)
<1>1. IsFiniteSet(S)
  <2>1. IsFiniteSet(1..N)
    BY FS_Interval
  <2> QED BY <2>1, FS_Subset
<1>2. \A x : UpToIn(S, x) \in SUBSET S
  BY DEF UpToIn
<1> QED BY <1>1, <1>2, FS_Subset, FS_CardinalityType

(* Counting the members of a set up to each of them numbers them without    *)
(* gaps.                                                                    *)
LEMMA Numbering ==
  ASSUME NEW N \in Nat, NEW S \in SUBSET (1..N)
  PROVE  /\ \A d \in S : Cardinality(UpToIn(S, d)) \in 1..Cardinality(S)
         /\ \A d, e \in S : Cardinality(UpToIn(S, d)) = Cardinality(UpToIn(S, e)) => d = e
         /\ \A l \in 1..Cardinality(S) : \E d \in S : Cardinality(UpToIn(S, d)) = l
<1>1. IsFiniteSet(S) /\ Cardinality(S) \in Nat
  BY CountUpTo
<1>2. \A x : /\ IsFiniteSet(UpToIn(S, x)) /\ Cardinality(UpToIn(S, x)) \in Nat
             /\ Cardinality(UpToIn(S, x)) <= Cardinality(S)
  BY CountUpTo
<1>3. ASSUME NEW d \in S PROVE Cardinality(UpToIn(S, d)) \in 1..Cardinality(S)
  <2>1. d \in UpToIn(S, d)
    BY DEF UpToIn
  <2>2. Cardinality(UpToIn(S, d)) # 0
    BY <1>2, <2>1, FS_EmptySet
  <2> QED BY <1>1, <1>2, <2>2
<1>4. ASSUME NEW d \in S, NEW e \in S, d < e
      PROVE  Cardinality(UpToIn(S, d)) < Cardinality(UpToIn(S, e))
  <2> DEFINE D == UpToIn(S, d)
             E == UpToIn(S, e)
  <2>1. D \in SUBSET (E \ {e}) /\ e \in E
    <3>1. \A z \in S : z \in Int
      OBVIOUS
    <3>2. ASSUME NEW z \in S, z <= d PROVE z <= e /\ z # e
      BY <1>4, <3>1, <3>2
    <3>3. e <= e
      BY <3>1
    <3> QED BY <3>2, <3>3 DEF UpToIn
  <2>2. IsFiniteSet(E) /\ Cardinality(E) \in Nat /\ Cardinality(D) \in Nat
    BY <1>2
  <2> HIDE DEF D, E
  <2>3. IsFiniteSet(E \ {e}) /\ Cardinality(E \ {e}) = Cardinality(E) - 1
    BY <2>1, <2>2, FS_RemoveElement
  <2>4. Cardinality(D) <= Cardinality(E \ {e})
    BY <2>1, <2>3, FS_Subset
  <2>5. Cardinality(D) < Cardinality(E)
    BY <2>2, <2>3, <2>4
  <2> QED BY <2>5 DEF D, E
<1>5. ASSUME NEW d \in S, NEW e \in S, Cardinality(UpToIn(S, d)) = Cardinality(UpToIn(S, e))
      PROVE  d = e
  <2>1. d < e \/ d = e \/ e < d
    OBVIOUS
  <2>2. Cardinality(UpToIn(S, d)) \in Nat /\ Cardinality(UpToIn(S, e)) \in Nat
    BY <1>2
  <2> QED BY <1>4, <1>5, <2>1, <2>2
<1>6. ASSUME NEW l \in 1..Cardinality(S) PROVE \E d \in S : Cardinality(UpToIn(S, d)) = l
  <2> DEFINE T == {x \in Nat : l <= Cardinality(UpToIn(S, x))}
  <2>1. N \in T
    <3>1. UpToIn(S, N) = S
      <4>1. \A z \in S : z <= N
        OBVIOUS
      <4> QED BY <4>1 DEF UpToIn
    <3> QED BY <1>1, <3>1
  <2>2. PICK x \in T : \A y \in T : x <= y
    <3>1. T \in SUBSET Nat
      OBVIOUS
    <3> HIDE DEF T
    <3> QED BY <2>1, <3>1, Least
  <2>3. x \in Nat /\ l <= Cardinality(UpToIn(S, x))
    OBVIOUS
  <2>4. x # 0
    <3>1. UpToIn(S, 0) = {}
      <4>1. \A z \in S : ~(z <= 0)
        OBVIOUS
      <4> QED BY <4>1 DEF UpToIn
    <3>2. Cardinality(UpToIn(S, 0)) = 0
      BY <3>1, FS_EmptySet
    <3> QED BY <2>3, <3>2
  <2>5. x - 1 \in Nat /\ ~(x <= x - 1)
    BY <2>3, <2>4
  <2>6. x - 1 \notin T
    <3> HIDE DEF T
    <3> QED BY <2>2, <2>5
  <2>7. Cardinality(UpToIn(S, x - 1)) < l
    BY <1>2, <2>5, <2>6
  <2>8. UpToIn(S, x) = IF x \in S THEN UpToIn(S, x - 1) \cup {x} ELSE UpToIn(S, x - 1)
    <3>1. \A z \in S : z <= x <=> (z <= x - 1 \/ z = x)
      BY <2>3
    <3>2. ~(x <= x - 1)
      BY <2>5
    <3> QED BY <3>1, <3>2 DEF UpToIn
  <2>9. x \in S
    BY <1>2, <2>3, <2>7, <2>8
  <2> DEFINE P == UpToIn(S, x - 1)
  <2>10. IsFiniteSet(P) /\ Cardinality(P) \in Nat /\ Cardinality(P) < l /\ UpToIn(S, x) = P \cup {x}
    BY <1>2, <2>7, <2>8, <2>9
  <2> HIDE DEF P
  <2>11. Cardinality(P \cup {x}) <= Cardinality(P) + 1 /\ Cardinality(P \cup {x}) \in Nat
    BY <2>10, FS_AddElement
  <2>12. Cardinality(UpToIn(S, x)) = l
    BY <2>3, <2>10, <2>11
  <2> QED BY <2>9, <2>12
<1> QED BY <1>3, <1>5, <1>6

(* Documents are numbered from one, each in its file.                       *)
LEMMA DocsAre ==
  /\ Len(FileOf) \in Nat /\ Docs = 1..Len(FileOf) /\ IsFiniteSet(Docs)
  /\ \A d \in Docs : FileOf[d] \in Files /\ d \in DocsIn(FileOf[d])
<1>1. FileOf \in Seq(Files)
  BY MpiAssumption
<1>2. Len(FileOf) \in Nat /\ DOMAIN FileOf = 1..Len(FileOf) /\ FileOf \in [1..Len(FileOf) -> Files]
  BY <1>1, LenProperties
<1>3. IsFiniteSet(1..Len(FileOf))
  BY <1>2, FS_Interval
<1> QED BY <1>2, <1>3 DEF Docs, DocsIn

(* The lines of a file are the numbers of its documents, in order.          *)
LEMMA LineFacts ==
  ASSUME NEW f \in Files
  PROVE  /\ Cardinality(DocsIn(f)) \in 1..(MaxLine - 1) /\ Cardinality(Lines(f)) = Cardinality(DocsIn(f))
         /\ Lines(f) \subseteq 1..MaxLine
         /\ \A d \in DocsIn(f) : LineOf(d) \in Lines(f) /\ DocAt(f, LineOf(d)) = d
         /\ \A l \in Lines(f) : DocAt(f, l) \in DocsIn(f) /\ LineOf(DocAt(f, l)) = l
<1> DEFINE S == DocsIn(f)
           N == Len(FileOf)
<1>1. N \in Nat /\ S \in SUBSET (1..N)
  BY DocsAre DEF DocsIn
<1>2. Cardinality(S) \in 1..(MaxLine - 1) /\ MaxLine \in Nat
  BY MpiAssumption DEF DocsIn
<1>3. \A d \in S : LineOf(d) = Cardinality(UpToIn(S, d)) /\ FileOf[d] = f
  BY DEF LineOf, UpToIn, DocsIn
<1>4. Lines(f) = 1..Cardinality(S)
  BY DEF Lines
<1>5. Cardinality(Lines(f)) = Cardinality(S)
  BY <1>2, <1>4, FS_Interval
<1> HIDE DEF S, N
<1>6. /\ \A d \in S : LineOf(d) \in Lines(f)
      /\ \A d, e \in S : LineOf(d) = LineOf(e) => d = e
      /\ \A l \in Lines(f) : \E d \in S : LineOf(d) = l
  <2>1. /\ \A d \in S : Cardinality(UpToIn(S, d)) \in 1..Cardinality(S)
        /\ \A d, e \in S : Cardinality(UpToIn(S, d)) = Cardinality(UpToIn(S, e)) => d = e
        /\ \A l \in 1..Cardinality(S) : \E d \in S : Cardinality(UpToIn(S, d)) = l
    BY <1>1, Numbering
  <2> QED BY <1>3, <1>4, <2>1
<1>7. \A l \in Lines(f) : DocAt(f, l) \in S /\ LineOf(DocAt(f, l)) = l
  BY <1>6 DEF DocAt, S
<1>8. \A d \in S : DocAt(f, LineOf(d)) = d
  BY <1>6, <1>7
<1> QED BY <1>2, <1>4, <1>5, <1>6, <1>7, <1>8 DEF S

-----------------------------------------------------------------------------
(* Types.                                                                   *)
Upper == {p \in Docs \X Docs : p[1] < p[2]}
Phases == {"create", "hash", "gather", "compare", "barrier", "merge", "sending",
           "bcast", "barrier2", "write", "finished", "aborted"}

TypeInv ==
  /\ setup \in Setups /\ dir \in BOOLEAN /\ pc \in [Ranks -> Phases]
  /\ file \in [Ranks -> 0..NumFile] /\ device \in [Ranks -> [1..MaxLine -> Texts]]
  /\ band \in [Ranks -> Nat] /\ todo \in [Ranks -> SUBSET Upper]
  /\ par \in [Ranks -> Trees(Docs)] /\ level \in [Ranks -> Levels]
  /\ mail \in [Ranks -> {Nothing} \cup [Docs -> Docs]]
  /\ cast \in {Nothing} \cup Trees(Docs)
  /\ output \in SUBSET Docs /\ unread \in SUBSET Ranks /\ joined \in SUBSET Upper

(* What the setup determines stays what it is.                              *)
LEMMA Static ==
  ASSUME UNCHANGED setup
  PROVE  /\ size' = size /\ Ranks' = Ranks /\ Offload' = Offload
         /\ \A r : /\ StartIndex(r)' = StartIndex(r) /\ EndIndex(r)' = EndIndex(r)
                   /\ MaxBucket(r)' = MaxBucket(r) /\ NumKey(r)' = NumKey(r)
BY DEF size, Ranks, Offload, StartIndex, EndIndex, MaxBucket, NumKey

(* The types hold at the start.                                             *)
LEMMA InitTyped == Init => TypeInv
<1> SUFFICES ASSUME Init PROVE TypeInv
  OBVIOUS
<1>1. setup \in Setups
  BY DEF Init
<1>2. /\ size \in Nat \ {0} /\ 0 \in Ranks
      /\ \A r \in Ranks : r \in Nat /\ StartIndex(r) \in 0..NumFile
  <2>1. \A r \in Ranks : StartIndex(r) \in Nat /\ StartIndex(r) <= EndIndex(r) /\ EndIndex(r) <= NumFile /\ EndIndex(r) \in Nat
    BY <1>1, FilesDealt
  <2> QED BY <1>1, <2>1, SizeFacts, MpiAssumption
<1>3. dir \in BOOLEAN
  BY <1>1, MpiAssumption DEF Init, SetupType
<1>4. Singletons(Docs) \in Trees(Docs)
  BY SingletonsRespect DEF Trees
<1>5. pc \in [Ranks -> Phases]
  BY DEF Init, Phases
<1>6. file \in [Ranks -> 0..NumFile] /\ device \in [Ranks -> [1..MaxLine -> Texts]]
  BY <1>2 DEF Init, Texts
<1>7. band \in [Ranks -> Nat] /\ todo \in [Ranks -> SUBSET Upper]
  BY <1>2 DEF Init, FirstBand
<1>8. par \in [Ranks -> Trees(Docs)] /\ level \in [Ranks -> Levels]
  BY <1>4, LevelFacts DEF Init
<1>9. mail \in [Ranks -> {Nothing} \cup [Docs -> Docs]] /\ cast \in {Nothing} \cup Trees(Docs)
  BY DEF Init
<1>10. output \in SUBSET Docs /\ unread \in SUBSET Ranks /\ joined \in SUBSET Upper
  BY DEF Init
<1> QED BY <1>1, <1>3, <1>5, <1>6, <1>7, <1>8, <1>9, <1>10 DEF TypeInv

(* A band compares pairs in ascending order.                                *)
LEMMA PairsOfBand ==
  ASSUME NEW r, NEW k
  PROVE  BandPairs(r, k) \in SUBSET Upper
<1>1. \A key : Rest(r, k, key) \in SUBSET Docs
  BY DEF Rest, Bucket, Readable
<1>2. \A docs \in SUBSET Docs : PairsIn(r, docs) \in SUBSET Upper
  BY DEF PairsIn, Upper
<1>3. \A key : Merged(r, k, key) \in SUBSET Upper
  BY <1>1, <1>2 DEF Merged
<1> QED BY <1>3 DEF BandPairs

(* What the device returns for a file are rows.                             *)
LEMMA RowsTyped ==
  ASSUME TypeInv, NEW r \in Ranks, NEW f \in Files
  PROVE  DeviceRows(r, f) \in [1..MaxLine -> Texts]
<1>1. device[r] \in [1..MaxLine -> Texts]
  BY DEF TypeInv
<1>2. \A l \in Lines(f) : DocAt(f, l) \in Texts
  BY LineFacts DEF DocsIn, Texts
<1> QED BY <1>1, <1>2 DEF DeviceRows

(* Merging two documents keeps a forest.                                    *)
LEMMA MergeTree ==
  ASSUME NEW q \in Trees(Docs), NEW x \in Docs, NEW y \in Docs
  PROVE  Merge(q, x, y) \in Trees(Docs)
BY MergeRespects DEF Trees

(* Absorbing the array of another rank keeps a forest and joins what either *)
(* joins.                                                                   *)
LEMMA AbsorbTree ==
  ASSUME NEW q \in Trees(Docs), NEW new \in [Docs -> Docs]
  PROVE  Absorb(q, new) \in Trees(Docs)
         /\ \A S : Respects(Absorb(q, new), S) <=> Respects(q, S) /\ Respects(new, S)
<1> DEFINE N == Len(FileOf)
<1>1. N \in Nat /\ Docs = 1..N
  BY DocsAre
<1> HIDE DEF N
<1>2. q \in [1..N -> 1..N] /\ Acyclic(q) /\ new \in [1..N -> 1..N]
  BY <1>1 DEF Trees
<1>3. /\ Absorb(q, new) \in [1..N -> 1..N] /\ Acyclic(Absorb(q, new))
      /\ \A S : Respects(Absorb(q, new), S) <=> Respects(q, S) /\ Respects(new, S)
  BY <1>1, <1>2, AbsorbRespects
<1> QED BY <1>1, <1>3 DEF Trees

(* Looking up every root makes a forest with the same sets.                 *)
LEMMA RootsTree ==
  ASSUME NEW q \in Trees(Docs), NEW flat, flat = [d \in Docs |-> Root(q, d)]
  PROVE  /\ flat \in Trees(Docs) /\ \A d \in Docs : Root(flat, d) = Root(q, d)
         /\ \A S : Respects(flat, S) <=> Respects(q, S)
<1>1. q \in [Docs -> Docs] /\ Acyclic(q)
  BY DEF Trees
<1>2. \A d \in Docs : Root(q, d) \in Docs
  BY <1>1, RootFacts
<1>3. flat \in [Docs -> Docs] /\ Shortcut(q, flat)
  BY <1>1, <1>2 DEF Shortcut
<1>4. Acyclic(flat) /\ \A d \in Docs : Root(flat, d) = Root(q, d)
  BY <1>1, <1>3, ShortcutKeeps
<1> QED BY <1>1, <1>3, <1>4, SameRootsRespect DEF Trees

(* The steps, and the ranks that take them.                                 *)
LEMMA StepCases ==
  ASSUME Next
  PROVE  /\ UNCHANGED setup
         /\ \/ Gather
            \/ CreateDirectory /\ 0 \in Ranks
            \/ Broadcast /\ 0 \in Ranks
            \/ \E r \in Ranks :
                 \/ HashFile(r) \/ Hashed(r)
                 \/ CompareBand(r) \/ MergePair(r) \/ FileMissing(r) \/ ReadFails(r)
                 \/ Compared(r) \/ PassBarrier(r)
                 \/ Send(r) \/ SendReturns(r) \/ Receive(r) \/ ReceiveAborts(r)
                 \/ LeaveTree(r) \/ GetBroadcast(r)
                 \/ DeleteHashResult(r) \/ GenerateFiles(r)
BY DEF Next, RankStep, HashPhase, Compare, MergeUnion, Write

(* Every step keeps the types.                                              *)
LEMMA TypeStep ==
  ASSUME TypeInv, Next
  PROVE  TypeInv'
<1>1. UNCHANGED setup
  BY StepCases
<1>2. Ranks' = Ranks /\ setup \in Setups
  BY <1>1, Static DEF TypeInv
<1> USE <1>1, <1>2 DEF TypeInv, Goto, hashVars, compareVars, mergeVars, treeVars
<1>3. CASE Gather
  BY <1>3 DEF Gather, Phases
<1>4. CASE CreateDirectory /\ 0 \in Ranks
  BY <1>4 DEF CreateDirectory, Phases
<1>5. CASE Broadcast /\ 0 \in Ranks
  <2> DEFINE flat == [d \in Docs |-> Root(par[0], d)]
  <2>1. flat \in Trees(Docs) /\ par[0] \in Trees(Docs)
    BY <1>5, RootsTree
  <2>2. par' = [par EXCEPT ![0] = flat] /\ cast' = par[0]
    BY <1>5 DEF Broadcast
  <2> HIDE DEF flat
  <2> QED BY <1>5, <2>1, <2>2 DEF Broadcast, Phases
<1>6. ASSUME NEW r \in Ranks, HashFile(r) PROVE TypeInv'
  <2>1. file[r] \in Files /\ file[r] + 1 \in 0..NumFile
    <3>1. file[r] \in 0..NumFile /\ file[r] < EndIndex(r) /\ EndIndex(r) <= NumFile /\ EndIndex(r) \in Nat
      BY <1>6, FilesDealt DEF HashFile
    <3> QED BY <3>1, MpiAssumption DEF Files
  <2>2. DeviceRows(r, file[r]) \in [1..MaxLine -> Texts]
    BY <2>1, RowsTyped
  <2>3. device' \in [Ranks -> [1..MaxLine -> Texts]] /\ file' \in [Ranks -> 0..NumFile]
    BY <1>6, <2>1, <2>2 DEF HashFile
  <2> QED BY <1>6, <2>3 DEF HashFile
<1>7. ASSUME NEW r \in Ranks, Hashed(r) PROVE TypeInv'
  BY <1>7 DEF Hashed, Phases
<1>8. ASSUME NEW r \in Ranks, CompareBand(r) PROVE TypeInv'
  <2>1. BandPairs(r, band[r]) \in SUBSET Upper
    BY PairsOfBand
  <2>2. band[r] + size \in Nat
    BY SizeFacts
  <2> QED BY <1>8, <2>1, <2>2 DEF CompareBand
<1>9. ASSUME NEW r \in Ranks, MergePair(r) PROVE TypeInv'
  <2>1. PICK p \in todo[r] : /\ par' = [par EXCEPT ![r] = Merge(par[r], p[2], p[1])]
                             /\ todo' = [todo EXCEPT ![r] = todo[r] \ {p}]
                             /\ joined' = joined \cup {p}
    BY <1>9 DEF MergePair
  <2>2. p \in Upper /\ p[1] \in Docs /\ p[2] \in Docs
    BY DEF Upper
  <2>3. Merge(par[r], p[2], p[1]) \in Trees(Docs)
    BY <2>2, MergeTree
  <2> QED BY <1>9, <2>1, <2>2, <2>3 DEF MergePair
<1>10. ASSUME NEW r \in Ranks, FileMissing(r) \/ ReadFails(r) PROVE TypeInv'
  BY <1>10 DEF FileMissing, ReadFails, StopsReading, Phases
<1>11. ASSUME NEW r \in Ranks, Compared(r) \/ PassBarrier(r) PROVE TypeInv'
  BY <1>11 DEF Compared, PassBarrier, Phases
<1>12. ASSUME NEW r \in Ranks, Send(r) PROVE TypeInv'
  BY <1>12 DEF Send, Phases, Trees
<1>13. ASSUME NEW r \in Ranks, SendReturns(r) PROVE TypeInv'
  BY <1>13, LevelFacts DEF SendReturns, Up, Phases
<1>14. ASSUME NEW r \in Ranks, Receive(r) PROVE TypeInv'
  <2> DEFINE q == r + level[r]
  <2>1. q \in Ranks /\ mail[q] \in [Docs -> Docs] /\ par[r] \in Trees(Docs)
    BY <1>14 DEF Receive
  <2>2. Absorb(par[r], mail[q]) \in Trees(Docs)
    BY <2>1, AbsorbTree
  <2>3. /\ par' = [par EXCEPT ![r] = Absorb(par[r], mail[q])]
        /\ mail' = [mail EXCEPT ![q] = Nothing] /\ level' = [level EXCEPT ![r] = 2 * level[r]]
    BY <1>14 DEF Receive, Up
  <2> HIDE DEF q
  <2> QED BY <1>14, <2>1, <2>2, <2>3, LevelFacts DEF Receive
<1>15. ASSUME NEW r \in Ranks, ReceiveAborts(r) PROVE TypeInv'
  BY <1>15 DEF ReceiveAborts, Phases
<1>16. ASSUME NEW r \in Ranks, LeaveTree(r) \/ GetBroadcast(r) PROVE TypeInv'
  BY <1>16 DEF LeaveTree, GetBroadcast, Phases
<1>17. ASSUME NEW r \in Ranks, DeleteHashResult(r) \/ GenerateFiles(r) PROVE TypeInv'
  BY <1>17 DEF DeleteHashResult, GenerateFiles, Phases
<1> QED BY <1>3, <1>4, <1>5, <1>6, <1>7, <1>8, <1>9, <1>10, <1>11, <1>12, <1>13, <1>14, <1>15,
           <1>16, <1>17, StepCases
-----------------------------------------------------------------------------
(* Stages.  The gathers and the barriers keep the ranks together; merge_union *)
(* and the broadcast, which are no barriers, leave them between two of them.  *)
Early == {"create", "hash", "gather"}
Late  == {"barrier2", "write", "finished"}

Stages ==
  /\ \A r \in Ranks : \A q \in Ranks : pc[r] \in Early => pc[q] \in Early
  /\ \A r \in Ranks : \A q \in Ranks :
       pc[r] \in {"merge", "sending", "bcast"} \cup Late => pc[q] # "compare" /\ pc[q] \notin Early
  /\ \A r \in Ranks : \A q \in Ranks : pc[r] \in {"write", "finished"} => pc[q] \in Late
  /\ \A r \in Ranks : \A q \in Ranks : pc[r] = "aborted" => pc[q] = "aborted"
  /\ \A r \in Ranks : pc[r] = "create" => r = 0
  /\ \A r \in Ranks : pc[r] \in Late => pc[0] \in Late
  /\ cast # Nothing => pc[0] \in Late \cup {"aborted"}
  /\ output # {} => \E r \in Ranks : pc[r] \in {"finished", "aborted"}
  /\ \A r \in Ranks : pc[r] \in Early \cup {"compare", "barrier"} => level[r] = 1 /\ mail[r] = Nothing

(* Every rank starts in the first phase.                                    *)
LEMMA InitStages == Init => Stages
<1> SUFFICES ASSUME Init PROVE Stages
  OBVIOUS
<1>1. 0 \in Ranks
  BY SizeFacts DEF Init
<1> QED BY <1>1 DEF Init, Stages, Early, Late

(* Every step keeps the phases of the ranks in line.                        *)
LEMMA StagesStep ==
  ASSUME TypeInv, Stages, Next
  PROVE  Stages'
<1>1. UNCHANGED setup
  BY StepCases
<1>2. Ranks' = Ranks /\ setup \in Setups /\ pc \in [Ranks -> Phases] /\ 0 \in Ranks
  BY <1>1, Static, SizeFacts DEF TypeInv
<1>3. level \in [Ranks -> Levels] /\ mail \in [Ranks -> {Nothing} \cup [Docs -> Docs]]
  BY DEF TypeInv
<1> USE <1>2, <1>3 DEF Stages, Early, Late, Goto, hashVars, compareVars, mergeVars, treeVars
<1>4. CASE Gather
  BY <1>4 DEF Gather
<1>5. CASE CreateDirectory /\ 0 \in Ranks
  BY <1>5 DEF CreateDirectory
<1>6. CASE Broadcast /\ 0 \in Ranks
  BY <1>6 DEF Broadcast
<1>7. ASSUME NEW r \in Ranks, HashFile(r) PROVE Stages'
  BY <1>7 DEF HashFile
<1>8. ASSUME NEW r \in Ranks, Hashed(r) PROVE Stages'
  BY <1>8 DEF Hashed
<1>9. ASSUME NEW r \in Ranks, CompareBand(r) \/ MergePair(r) PROVE Stages'
  BY <1>9 DEF CompareBand, MergePair
<1>10. ASSUME NEW r \in Ranks, FileMissing(r) \/ ReadFails(r) PROVE Stages'
  BY <1>10 DEF FileMissing, ReadFails, StopsReading
<1>11. ASSUME NEW r \in Ranks, Compared(r) PROVE Stages'
  BY <1>11 DEF Compared
<1>12. ASSUME NEW r \in Ranks, PassBarrier(r) PROVE Stages'
  BY <1>12 DEF PassBarrier
<1>13. ASSUME NEW r \in Ranks, Send(r) PROVE Stages'
  BY <1>13 DEF Send, InTree
<1>14. ASSUME NEW r \in Ranks, SendReturns(r) PROVE Stages'
  BY <1>14 DEF SendReturns, Up
<1>15. ASSUME NEW r \in Ranks, Receive(r) PROVE Stages'
  BY <1>15 DEF Receive, InTree, Up
<1>16. ASSUME NEW r \in Ranks, ReceiveAborts(r) PROVE Stages'
  BY <1>16 DEF ReceiveAborts, InTree
<1>17. ASSUME NEW r \in Ranks, LeaveTree(r) PROVE Stages'
  BY <1>17 DEF LeaveTree
<1>18. ASSUME NEW r \in Ranks, GetBroadcast(r) PROVE Stages'
  BY <1>18 DEF GetBroadcast
<1>19. ASSUME NEW r \in Ranks, DeleteHashResult(r) PROVE Stages'
  BY <1>19 DEF DeleteHashResult
<1>20. ASSUME NEW r \in Ranks, GenerateFiles(r) PROVE Stages'
  BY <1>20 DEF GenerateFiles
<1> QED BY <1>4, <1>5, <1>6, <1>7, <1>8, <1>9, <1>10, <1>11, <1>12, <1>13, <1>14, <1>15,
           <1>16, <1>17, <1>18, <1>19, <1>20, StepCases

-----------------------------------------------------------------------------
(* The tree.  A rank leaves the tree at the level where it is odd.  A rank    *)
(* that has not left it at level l has received the arrays of the l - 1       *)
(* ranks after it, and an array on its way holds those of as many ranks as    *)
(* its sender's level says.                                                   *)
Away == {"bcast"} \cup Late
Left(q) == pc[q] = "sending" \/ (pc[q] \in {"merge"} \cup Away /\ q % level[q] # 0)
Gone(q) == Left(q) /\ mail[q] = Nothing
LeavesAt(q, l) == q % l = 0 /\ (q \div l) % 2 = 1
Span(r, l) == r + l - 1 \in Ranks /\ \A q \in (r + 1)..(r + l - 1) : Gone(q)

Tree ==
  /\ \A r \in Ranks : pc[r] = "sending" => level[r] < size /\ LeavesAt(r, level[r])
  /\ \A r \in Ranks : pc[r] \in Away => level[r] >= size \/ r % level[r] # 0
  /\ \A r \in Ranks : ~Left(r) => Span(r, level[r])
  /\ \A q \in Ranks : mail[q] # Nothing =>
       Left(q) /\ \E l \in Levels : LeavesAt(q, l) /\ Span(q, l)

Running == \A r \in Ranks : pc[r] # "aborted"

(* Ranks between two ranks are ranks.                                       *)
LEMMA Between ==
  ASSUME setup \in Setups, NEW r \in Ranks, NEW l \in Levels, r + l - 1 \in Ranks,
         NEW q \in (r + 1)..(r + l - 1)
  PROVE  q \in Ranks
<1>1. size \in Nat \ {0} /\ l \in Nat \ {0} /\ r \in Nat
  BY SizeFacts, LevelFacts
<1> HIDE DEF size
<1> QED BY <1>1 DEF Ranks

(* The tree is whole at the start: each rank stands for itself.             *)
LEMMA InitTree == Init => Tree
<1> SUFFICES ASSUME Init PROVE Tree
  OBVIOUS
<1>1. \A r \in Ranks : r \in Nat
  BY SizeFacts DEF Init
<1>2. ASSUME NEW r \in Ranks PROVE Span(r, 1)
  <2>1. r + 1 - 1 = r /\ (r + 1)..r = {}
    BY <1>1
  <2> QED BY <2>1 DEF Span
<1> QED BY <1>2 DEF Init, Tree, Left, Away, Late

(* A rank that has left the tree stays out of it, and only by a send does a  *)
(* rank leave it.                                                            *)
LEMMA LeftStays ==
  ASSUME TypeInv, Stages, Tree, Next, Running'
  PROVE  /\ \A q \in Ranks : Left(q) => Left(q)'
         /\ \A q \in Ranks : Gone(q) => Gone(q)'
         /\ \A q \in Ranks : Left(q)' /\ ~Left(q) => Send(q)
<1>1. UNCHANGED setup
  BY StepCases
<1>2. Ranks' = Ranks /\ setup \in Setups /\ pc \in [Ranks -> Phases] /\ 0 \in Ranks
      /\ size \in Nat \ {0} /\ \A r \in Ranks : r \in Nat
  BY <1>1, Static, SizeFacts DEF TypeInv
<1>3. /\ level \in [Ranks -> Levels] /\ mail \in [Ranks -> {Nothing} \cup [Docs -> Docs]]
      /\ \A r \in Ranks : level[r] \in Nat \ {0}
  BY LevelFacts DEF TypeInv
<1>4. \A q \in Ranks : (mail[q] # Nothing => Left(q)) /\ 0 % level[0] = 0
  BY <1>2, <1>3 DEF Tree
<1> DEFINE Stay == /\ \A q \in Ranks : Left(q) => Left(q)'
                   /\ \A q \in Ranks : Gone(q) => Gone(q)'
                   /\ \A q \in Ranks : Left(q)' /\ ~Left(q) => Send(q)
<1> USE <1>2, <1>3 DEF Left, Gone, Away, Stages, Early, Late, Goto, hashVars, compareVars, mergeVars, treeVars
<1>5. CASE Gather
  BY <1>5 DEF Gather
<1>6. CASE CreateDirectory /\ 0 \in Ranks
  BY <1>6 DEF CreateDirectory
<1>7. CASE Broadcast /\ 0 \in Ranks
  BY <1>4, <1>7 DEF Broadcast
<1>8. ASSUME NEW r \in Ranks, HashFile(r) \/ Hashed(r) PROVE Stay
  BY <1>8 DEF HashFile, Hashed
<1>9. ASSUME NEW r \in Ranks, CompareBand(r) \/ MergePair(r) PROVE Stay
  BY <1>9 DEF CompareBand, MergePair
<1>10. ASSUME NEW r \in Ranks, FileMissing(r) \/ ReadFails(r) \/ Compared(r) PROVE Stay
  BY <1>10 DEF FileMissing, ReadFails, StopsReading, Compared
<1>11. ASSUME NEW r \in Ranks, PassBarrier(r) PROVE Stay
  <2>1. level[r] = 1 /\ r % 1 = 0
    BY <1>11 DEF PassBarrier
  <2> QED BY <1>11, <2>1 DEF PassBarrier
<1>12. ASSUME NEW r \in Ranks, Send(r) PROVE Stay
  BY <1>12 DEF Send, InTree
<1>13. ASSUME NEW r \in Ranks, SendReturns(r) PROVE Stay
  <2>1. r % (2 * level[r]) # 0
    BY <1>13, OddLeaves DEF SendReturns, Tree, LeavesAt
  <2> QED BY <1>13, <2>1 DEF SendReturns, Up
<1>14. ASSUME NEW r \in Ranks, Receive(r) PROVE Stay
  <2>1. r % (2 * level[r]) = 0
    BY <1>14, EvenGoesOn DEF Receive, InTree, IsOdd
  <2> QED BY <1>14, <2>1 DEF Receive, InTree, Up
<1>15. ASSUME NEW r \in Ranks, ReceiveAborts(r) PROVE Stay
  BY <1>15 DEF ReceiveAborts, Running
<1>16. ASSUME NEW r \in Ranks, LeaveTree(r) \/ GetBroadcast(r) PROVE Stay
  BY <1>16 DEF LeaveTree, GetBroadcast
<1>17. ASSUME NEW r \in Ranks, DeleteHashResult(r) \/ GenerateFiles(r) PROVE Stay
  BY <1>17 DEF DeleteHashResult, GenerateFiles
<1>18. Stay
  BY <1>5, <1>6, <1>7, <1>8, <1>9, <1>10, <1>11, <1>12, <1>13, <1>14, <1>15, <1>16, <1>17, StepCases
<1> QED BY <1>18

(* What a step does to the levels and to the arrays on their way.            *)
LEMMA TreeSteps ==
  ASSUME TypeInv, Next
  PROVE  \/ UNCHANGED <<level, mail>> /\ \A r \in Ranks : pc'[r] = "sending" => pc[r] = "sending"
         \/ \E r \in Ranks : Send(r) \/ SendReturns(r) \/ Receive(r)
<1> pc \in [Ranks -> Phases]
  BY DEF TypeInv
<1> USE DEF Goto, hashVars, compareVars, mergeVars, treeVars
<1> DEFINE Kept == UNCHANGED <<level, mail>> /\ \A r \in Ranks : pc'[r] = "sending" => pc[r] = "sending"
<1>1. CASE Gather
  BY <1>1 DEF Gather
<1>2. CASE CreateDirectory
  BY <1>2 DEF CreateDirectory
<1>3. CASE Broadcast
  BY <1>3 DEF Broadcast
<1>4. ASSUME NEW r \in Ranks, HashFile(r) \/ Hashed(r) \/ CompareBand(r) \/ MergePair(r) PROVE Kept
  BY <1>4 DEF HashFile, Hashed, CompareBand, MergePair
<1>5. ASSUME NEW r \in Ranks, FileMissing(r) \/ ReadFails(r) \/ Compared(r) \/ PassBarrier(r) PROVE Kept
  BY <1>5 DEF FileMissing, ReadFails, StopsReading, Compared, PassBarrier
<1>6. ASSUME NEW r \in Ranks, ReceiveAborts(r) \/ LeaveTree(r) \/ GetBroadcast(r) PROVE Kept
  BY <1>6 DEF ReceiveAborts, LeaveTree, GetBroadcast
<1>7. ASSUME NEW r \in Ranks, DeleteHashResult(r) \/ GenerateFiles(r) PROVE Kept
  BY <1>7 DEF DeleteHashResult, GenerateFiles
<1> QED BY <1>1, <1>2, <1>3, <1>4, <1>5, <1>6, <1>7, StepCases

(* The ranks a rank stands for go on standing behind it.                    *)
LEMMA SpanStays ==
  ASSUME TypeInv, Stages, Tree, Next, Running', NEW r \in Ranks, NEW l \in Levels, Span(r, l)
  PROVE  Span(r, l)'
<1>1. UNCHANGED setup /\ setup \in Setups
  BY StepCases DEF TypeInv
<1>2. Ranks' = Ranks
  BY <1>1, Static
<1>3. ASSUME NEW q \in (r + 1)..(r + l - 1) PROVE Gone(q)'
  <2>1. q \in Ranks /\ Gone(q)
    BY <1>1, <1>3, Between DEF Span
  <2> QED BY <2>1, LeftStays
<1> QED BY <1>2, <1>3 DEF Span

(* When rank r receives, the ranks up to those its partner stood for have    *)
(* all left the tree.                                                        *)
LEMMA ReceiveSpans ==
  ASSUME TypeInv, Stages, Tree, Next, Running', NEW r \in Ranks, Receive(r),
         NEW l \in Levels, l = level[r]
  PROVE  level'[r] = 2 * l /\ Span(r, 2 * l)'
<1>1. /\ setup \in Setups /\ l \in Nat \ {0} /\ r \in Nat
      /\ mail \in [Ranks -> {Nothing} \cup [Docs -> Docs]] /\ size \in Nat \ {0} /\ Ranks' = Ranks
  BY LevelFacts, SizeFacts, StepCases, Static DEF TypeInv
<1>2. PICK q \in Ranks : q = r + l
  BY DEF Receive
<1>3. /\ pc[r] = "merge" /\ r % l = 0 /\ ~((r \div l) % 2 = 1) /\ mail[q] # Nothing
      /\ mail' = [mail EXCEPT ![q] = Nothing] /\ level'[r] = 2 * l
  BY <1>2 DEF Receive, InTree, IsOdd, Up, TypeInv
<1>4. ~Left(r) /\ Span(r, l)
  BY <1>3 DEF Left, Away, Late, Tree
<1>5. PICK m \in Levels : LeavesAt(q, m) /\ Span(q, m)
  BY <1>3 DEF Tree
<1>6. LeavesAt(q, l)
  BY <1>1, <1>2, <1>3, PartnerOdd DEF LeavesAt
<1>7. q \in Nat
  BY <1>1, <1>2
<1>8. m = l
  BY <1>5, <1>6, <1>7, OneLevel DEF LeavesAt
<1>9. Span(r, l)' /\ Span(q, l)'
  BY <1>4, <1>5, <1>8, SpanStays
<1>10. Gone(q)'
  <2>1. Left(q) /\ mail'[q] = Nothing
    BY <1>1, <1>3 DEF Tree
  <2> QED BY <2>1, LeftStays DEF Gone
<1>11. q + l - 1 \in Ranks /\ \A p \in (r + 1)..(r + l - 1) : Gone(p)'
  BY <1>5, <1>8, <1>9 DEF Span
<1>12. \A p \in (q + 1)..(q + l - 1) : Gone(p)'
  BY <1>9 DEF Span
<1>13. r + 2 * l - 1 = q + l - 1
  BY <1>1, <1>2
<1>14. ASSUME NEW p \in (r + 1)..(r + 2 * l - 1) PROVE Gone(p)'
  <2>1. p \in (r + 1)..(r + l - 1) \/ p = q \/ p \in (q + 1)..(q + l - 1)
    BY <1>1, <1>2, <1>14
  <2> QED BY <1>10, <1>11, <1>12, <2>1
<1> QED BY <1>1, <1>3, <1>11, <1>13, <1>14 DEF Span

(* Every step keeps what the tree says of who has sent to whom.             *)
LEMMA TreeStep ==
  ASSUME TypeInv, Stages, Tree, Next, Running'
  PROVE  Tree'
<1>1. /\ UNCHANGED setup /\ Ranks' = Ranks /\ size' = size /\ setup \in Setups /\ size \in Nat \ {0}
      /\ \A r \in Ranks : r \in Nat
  BY StepCases, Static, SizeFacts DEF TypeInv
<1>2. /\ pc \in [Ranks -> Phases] /\ level \in [Ranks -> Levels]
      /\ mail \in [Ranks -> {Nothing} \cup [Docs -> Docs]]
      /\ \A r \in Ranks : level[r] \in Levels /\ level[r] \in Nat \ {0}
  BY LevelFacts DEF TypeInv
<1>3. ASSUME NEW r \in Ranks, pc'[r] = "sending"
      PROVE  level'[r] < size /\ LeavesAt(r, level'[r])
  <2>1. CASE pc[r] = "sending" /\ level'[r] = level[r]
    BY <2>1 DEF Tree
  <2>2. CASE \E q \in Ranks : Send(q)
    <3>1. PICK q \in Ranks : Send(q)
      BY <2>2
    <3>2. level' = level /\ (r = q \/ pc[r] = "sending")
      BY <1>2, <1>3, <3>1 DEF Send, Goto
    <3>3. CASE r = q
      BY <3>1, <3>2, <3>3 DEF Send, InTree, IsOdd, LeavesAt
    <3> QED BY <2>1, <3>2, <3>3
  <2>3. CASE \E q \in Ranks : SendReturns(q) \/ Receive(q)
    BY <1>2, <1>3, <2>1, <2>3 DEF SendReturns, Receive, Up, Goto, InTree
  <2> QED BY <1>3, <2>1, <2>2, <2>3, TreeSteps
<1>4. ASSUME NEW r \in Ranks, pc'[r] \in Away PROVE level'[r] >= size \/ r % level'[r] # 0
  <2>1. CASE pc[r] \in Away
    <3>1. level'[r] = level[r]
      BY <1>2, <2>1, TreeSteps DEF Away, Late, Send, SendReturns, Receive, Up, InTree
    <3> QED BY <2>1, <3>1 DEF Tree
  <2>2. CASE pc[r] \notin Away
    <3> USE <1>2 DEF Away, Late, Goto, hashVars, compareVars, mergeVars, treeVars, Up, Stages, Running
    <3> DEFINE Goal == level'[r] >= size \/ r % level'[r] # 0
    <3>1. CASE Gather
      BY <1>4, <3>1 DEF Gather
    <3>2. CASE CreateDirectory
      BY <1>4, <2>2, <3>2 DEF CreateDirectory
    <3>3. CASE Broadcast
      BY <1>4, <2>2, <3>3 DEF Broadcast
    <3>4. ASSUME NEW q \in Ranks, HashFile(q) \/ Hashed(q) \/ CompareBand(q) \/ MergePair(q) PROVE Goal
      BY <1>4, <2>2, <3>4 DEF HashFile, Hashed, CompareBand, MergePair
    <3>5. ASSUME NEW q \in Ranks, FileMissing(q) \/ ReadFails(q) \/ Compared(q) \/ PassBarrier(q) PROVE Goal
      BY <1>4, <2>2, <3>5 DEF FileMissing, ReadFails, StopsReading, Compared, PassBarrier
    <3>6. ASSUME NEW q \in Ranks, Send(q) \/ SendReturns(q) \/ Receive(q) PROVE Goal
      BY <1>4, <2>2, <3>6 DEF Send, SendReturns, Receive
    <3>7. ASSUME NEW q \in Ranks, ReceiveAborts(q) \/ LeaveTree(q) \/ GetBroadcast(q) PROVE Goal
      BY <1>4, <2>2, <3>7 DEF ReceiveAborts, LeaveTree, GetBroadcast
    <3>8. ASSUME NEW q \in Ranks, DeleteHashResult(q) \/ GenerateFiles(q) PROVE Goal
      BY <1>4, <2>2, <3>8 DEF DeleteHashResult, GenerateFiles
    <3> QED BY <3>1, <3>2, <3>3, <3>4, <3>5, <3>6, <3>7, <3>8, StepCases
  <2> QED BY <2>1, <2>2
<1>5. ASSUME NEW r \in Ranks, ~Left(r)' PROVE Span(r, level[r])'
  <2>1. ~Left(r)
    BY <1>5, LeftStays
  <2>2. PICK l \in Levels : l = level[r]
    BY <1>2
  <2>3. Span(r, l)'
    BY <2>1, <2>2, SpanStays DEF Tree
  <2>4. level'[r] = l \/ Receive(r)
    <3>1. ~SendReturns(r)
      BY <2>1 DEF SendReturns, Left
    <3> QED BY <1>2, <2>2, <3>1, TreeSteps DEF Send, SendReturns, Receive, Up
  <2>5. CASE Receive(r)
    BY <2>2, <2>5, ReceiveSpans
  <2> QED BY <2>3, <2>4, <2>5
<1>6. ASSUME NEW q \in Ranks, mail'[q] # Nothing
      PROVE  Left(q)' /\ \E l \in Levels : LeavesAt(q, l) /\ Span(q, l)'
  <2>1. mail[q] # Nothing \/ Send(q)
    BY <1>2, <1>6, TreeSteps DEF Send, SendReturns, Receive
  <2>2. CASE mail[q] # Nothing
    BY <2>2, SpanStays, LeftStays DEF Tree
  <2>3. CASE Send(q)
    <3>1. ~Left(q) /\ LeavesAt(q, level[q])
      BY <2>3 DEF Send, InTree, IsOdd, Left, Away, Late, LeavesAt
    <3>2. PICK l \in Levels : l = level[q]
      BY <1>2
    <3>3. Span(q, l)'
      BY <3>1, <3>2, SpanStays DEF Tree
    <3>4. Left(q)'
      BY <1>2, <2>3 DEF Send, Goto, Left
    <3> QED BY <3>1, <3>2, <3>3, <3>4
  <2> QED BY <2>1, <2>2, <2>3
<1> QED BY <1>1, <1>3, <1>4, <1>5, <1>6 DEF Tree, LeavesAt

(* Rank 0 broadcasts only when every other rank has sent its array and the   *)
(* array has been received; and it alone goes on with a whole array.         *)
LEMMA Alone ==
  ASSUME TypeInv, Tree
  PROVE  /\ pc[0] \in Away => /\ ~Left(0) /\ mail[0] = Nothing
                              /\ \A q \in Ranks : q # 0 => Gone(q)
         /\ \A r \in Ranks : pc[r] \in Away /\ ~Left(r) => r = 0
<1>1. /\ size \in Nat \ {0} /\ 0 \in Ranks /\ \A r \in Ranks : r \in Nat /\ r < size
      /\ \A r \in Ranks : level[r] \in Nat \ {0}
  BY SizeFacts, LevelFacts DEF TypeInv
<1>2. \A r \in Ranks : ~Left(r) => mail[r] = Nothing /\ Span(r, level[r])
  BY DEF Tree
<1>3. ASSUME NEW r \in Ranks, pc[r] \in Away, ~Left(r) PROVE r = 0 /\ level[r] >= size
  <2>1. level[r] >= size /\ r + level[r] - 1 \in Ranks
    BY <1>2, <1>3 DEF Tree, Left, Away, Span
  <2> HIDE DEF size
  <2> QED BY <1>1, <2>1
<1>4. ASSUME pc[0] \in Away PROVE ~Left(0) /\ mail[0] = Nothing /\ \A q \in Ranks : q # 0 => Gone(q)
  <2>1. ~Left(0)
    BY <1>1, <1>4 DEF Left, Away, Late
  <2>2. level[0] >= size /\ \A q \in (0 + 1)..(0 + level[0] - 1) : Gone(q)
    BY <1>1, <1>2, <1>3, <1>4, <2>1 DEF Span
  <2>3. ASSUME NEW q \in Ranks, q # 0 PROVE q \in (0 + 1)..(0 + level[0] - 1)
    <3> HIDE DEF size
    <3> QED BY <1>1, <2>2, <2>3
  <2> QED BY <1>1, <1>2, <2>1, <2>2, <2>3
<1> QED BY <1>3, <1>4

(* An aborted program takes no step.                                         *)
LEMMA OnlyRunning ==
  ASSUME TypeInv, Stages, Next
  PROVE  Running
<1> SUFFICES ASSUME ~Running PROVE FALSE
  OBVIOUS
<1>1. 0 \in Ranks /\ \A r \in Ranks : pc[r] = "aborted"
  BY SizeFacts DEF TypeInv, Running, Stages
<1> USE <1>1 DEF InTree
<1>2. ~Gather /\ ~CreateDirectory /\ ~Broadcast
  BY DEF Gather, CreateDirectory, Broadcast
<1>3. ASSUME NEW r \in Ranks PROVE ~HashFile(r) /\ ~Hashed(r) /\ ~CompareBand(r) /\ ~MergePair(r)
  BY DEF HashFile, Hashed, CompareBand, MergePair
<1>4. ASSUME NEW r \in Ranks PROVE ~FileMissing(r) /\ ~ReadFails(r) /\ ~Compared(r) /\ ~PassBarrier(r)
  BY DEF FileMissing, ReadFails, StopsReading, Compared, PassBarrier
<1>5. ASSUME NEW r \in Ranks PROVE ~Send(r) /\ ~SendReturns(r) /\ ~Receive(r) /\ ~ReceiveAborts(r)
  BY DEF Send, SendReturns, Receive, ReceiveAborts
<1>6. ASSUME NEW r \in Ranks PROVE ~LeaveTree(r) /\ ~GetBroadcast(r) /\ ~DeleteHashResult(r) /\ ~GenerateFiles(r)
  BY DEF LeaveTree, GetBroadcast, DeleteHashResult, GenerateFiles
<1> QED BY <1>2, <1>3, <1>4, <1>5, <1>6, StepCases

(* A rank that aborts has shared nothing, and that stays so.                *)
LEMMA AbortStep ==
  ASSUME TypeInv, Stages, Running => Tree, AbortSharesNothing, Next
  PROVE  AbortSharesNothing'
<1>1. Ranks' = Ranks /\ pc \in [Ranks -> Phases] /\ 0 \in Ranks
  BY StepCases, Static, SizeFacts DEF TypeInv
<1>2. Running
  BY OnlyRunning
<1>3. CASE \E r \in Ranks : ReceiveAborts(r)
  <2>1. PICK r \in Ranks : ReceiveAborts(r)
    BY <1>3
  <2>2. pc[r] = "merge" /\ ~Left(r)
    BY <2>1 DEF ReceiveAborts, InTree, Left, Away, Late
  <2>3. pc[0] \notin Away
    BY <1>2, <2>2, Alone DEF Gone, Away, Late
  <2>4. cast = Nothing /\ output = {}
    BY <1>1, <1>2, <2>2, <2>3 DEF Stages, Away, Late, Running
  <2> QED BY <2>1, <2>4 DEF ReceiveAborts, treeVars, AbortSharesNothing
<1>4. CASE ~ \E r \in Ranks : ReceiveAborts(r)
  <2>1. \A r \in Ranks : pc'[r] # "aborted"
    <3> USE <1>1, <1>2, <1>4 DEF Running, Goto, hashVars, compareVars, mergeVars, treeVars
    <3> DEFINE Goes == \A r \in Ranks : pc'[r] # "aborted"
    <3>1. Gather \/ CreateDirectory \/ Broadcast => Goes
      BY DEF Gather, CreateDirectory, Broadcast
    <3>2. ASSUME NEW r \in Ranks, HashFile(r) \/ Hashed(r) \/ CompareBand(r) \/ MergePair(r) PROVE Goes
      BY <3>2 DEF HashFile, Hashed, CompareBand, MergePair
    <3>3. ASSUME NEW r \in Ranks, FileMissing(r) \/ ReadFails(r) \/ Compared(r) \/ PassBarrier(r) PROVE Goes
      BY <3>3 DEF FileMissing, ReadFails, StopsReading, Compared, PassBarrier
    <3>4. ASSUME NEW r \in Ranks, Send(r) \/ SendReturns(r) \/ Receive(r) PROVE Goes
      BY <3>4 DEF Send, SendReturns, Receive
    <3>5. ASSUME NEW r \in Ranks, LeaveTree(r) \/ GetBroadcast(r) \/ DeleteHashResult(r) \/ GenerateFiles(r) PROVE Goes
      BY <3>5 DEF LeaveTree, GetBroadcast, DeleteHashResult, GenerateFiles
    <3> QED BY <3>1, <3>2, <3>3, <3>4, <3>5, StepCases
  <2> QED BY <1>1, <2>1 DEF AbortSharesNothing
<1> QED BY <1>3, <1>4

-----------------------------------------------------------------------------
(* The sets.  While the program runs, the pairs merged so far are exactly    *)
(* what is held by the ranks in the tree and by the arrays on their way.     *)
Held(r, S) ==
  /\ ~Left(r) => Respects(par[r], S)
  /\ mail[r] # Nothing => Respects(mail[r], S)

Whole == \A S \in SUBSET Docs : Closed(joined, S) <=> \A r \in Ranks : Held(r, S)

(* Nothing is joined at the start.                                          *)
LEMMA InitWhole == Init => Whole
<1> SUFFICES ASSUME Init PROVE Whole
  OBVIOUS
<1>1. \A S : Respects(Singletons(Docs), S)
  BY SingletonsRespect
<1> QED BY <1>1 DEF Init, Whole, Held, Closed

(* What a step does to what is held.                                         *)
LEMMA HeldSteps ==
  ASSUME TypeInv, Stages, Next
  PROVE  \/ UNCHANGED <<par, joined, mail>> /\ \A r \in Ranks : ~Send(r)
         \/ Broadcast
         \/ \E r \in Ranks : MergePair(r) \/ Send(r) \/ Receive(r) \/ GetBroadcast(r)
<1> USE DEF Goto, hashVars, compareVars, mergeVars, treeVars
<1> DEFINE Kept == UNCHANGED <<par, joined, mail>>
<1>1. Gather \/ CreateDirectory => Kept
  BY DEF Gather, CreateDirectory
<1>2. ASSUME NEW r \in Ranks, HashFile(r) \/ Hashed(r) \/ CompareBand(r) PROVE Kept
  BY <1>2 DEF HashFile, Hashed, CompareBand
<1>3. ASSUME NEW r \in Ranks, FileMissing(r) \/ ReadFails(r) \/ Compared(r) \/ PassBarrier(r) PROVE Kept
  BY <1>3 DEF FileMissing, ReadFails, StopsReading, Compared, PassBarrier
<1>4. ASSUME NEW r \in Ranks, SendReturns(r) \/ ReceiveAborts(r) \/ LeaveTree(r) PROVE Kept
  BY <1>4 DEF SendReturns, ReceiveAborts, LeaveTree
<1>5. ASSUME NEW r \in Ranks, DeleteHashResult(r) \/ GenerateFiles(r) PROVE Kept
  BY <1>5 DEF DeleteHashResult, GenerateFiles
<1> QED BY <1>1, <1>2, <1>3, <1>4, <1>5, StepCases

(* Every step keeps what has been joined with the ranks that are still in   *)
(* the tree.                                                                *)
LEMMA WholeStep ==
  ASSUME TypeInv, Stages, Tree, Whole, Next, Running'
  PROVE  Whole'
<1>1. /\ UNCHANGED setup /\ setup \in Setups /\ Ranks' = Ranks /\ 0 \in Ranks
      /\ \A r \in Ranks : r \in Nat /\ level[r] \in Nat \ {0}
  BY StepCases, Static, SizeFacts, LevelFacts DEF TypeInv
<1>2. /\ par \in [Ranks -> Trees(Docs)] /\ mail \in [Ranks -> {Nothing} \cup [Docs -> Docs]]
      /\ pc \in [Ranks -> Phases] /\ level \in [Ranks -> Levels]
  BY DEF TypeInv
<1>3. \A r \in Ranks : (Left(r) => Left(r)') /\ (Left(r)' /\ ~Left(r) => Send(r))
  BY LeftStays
<1>4. \A r \in Ranks : mail[r] # Nothing => Left(r)
  BY DEF Tree
<1> SUFFICES ASSUME NEW S \in SUBSET Docs
             PROVE  Closed(joined', S) <=> \A r \in Ranks : Held(r, S)'
  BY <1>1 DEF Whole, Closed
<1>5. Closed(joined, S) <=> \A r \in Ranks : Held(r, S)
  BY DEF Whole
<1>6. CASE UNCHANGED <<par, joined, mail>> /\ \A r \in Ranks : ~Send(r)
  BY <1>3, <1>5, <1>6 DEF Held
<1>7. CASE Broadcast
  <2>1. PICK flat : flat = [d \in Docs |-> Root(par[0], d)]
    OBVIOUS
  <2>2. Respects(flat, S) <=> Respects(par[0], S)
    BY <1>1, <1>2, <2>1, RootsTree
  <2>3. par' = [par EXCEPT ![0] = flat] /\ joined' = joined /\ mail' = mail /\ \A r \in Ranks : ~Send(r)
    <3>1. par' = [par EXCEPT ![0] = flat] /\ joined' = joined /\ mail' = mail
      BY <1>7, <2>1 DEF Broadcast
    <3>2. ASSUME NEW r \in Ranks PROVE ~Send(r)
      BY <1>1, <1>2, <1>7 DEF Broadcast, Send, InTree, Goto
    <3> QED BY <3>1, <3>2
  <2>4. \A r \in Ranks : Respects(par'[r], S) <=> Respects(par[r], S)
    BY <1>1, <1>2, <2>2, <2>3
  <2> QED BY <1>3, <1>5, <2>3, <2>4 DEF Held
<1>8. ASSUME NEW r \in Ranks, MergePair(r)
      PROVE  Closed(joined', S) <=> \A q \in Ranks : Held(q, S)'
  <2>1. PICK p \in todo[r] : /\ par' = [par EXCEPT ![r] = Merge(par[r], p[2], p[1])]
                             /\ joined' = joined \cup {p}
    BY <1>8 DEF MergePair
  <2>2. p[1] \in Docs /\ p[2] \in Docs
    BY DEF TypeInv, Upper
  <2>3. par[r] \in [Docs -> Docs] /\ Acyclic(par[r])
    BY <1>2 DEF Trees
  <2>4. Respects(Merge(par[r], p[2], p[1]), S) <=> Respects(par[r], S) /\ (p[1] \in S <=> p[2] \in S)
    BY <2>2, <2>3, MergeRespects
  <2>5. /\ Respects(par'[r], S) <=> Respects(par[r], S) /\ (p[1] \in S <=> p[2] \in S)
        /\ \A q \in Ranks : q # r => par'[q] = par[q]
    BY <1>2, <2>1, <2>4
  <2>6. Closed(joined', S) <=> Closed(joined, S) /\ (p[1] \in S <=> p[2] \in S)
    BY <2>1 DEF Closed
  <2>7. mail' = mail /\ ~Left(r) /\ \A q \in Ranks : Left(q)' <=> Left(q)
    BY <1>8 DEF MergePair, Left, Away, Late, treeVars, hashVars
  <2>8. \A q \in Ranks : q # r => (Held(q, S)' <=> Held(q, S))
    BY <2>5, <2>7 DEF Held
  <2>9. Held(r, S)' <=> Held(r, S) /\ (p[1] \in S <=> p[2] \in S)
    BY <1>4, <2>5, <2>7 DEF Held
  <2> QED BY <1>5, <2>6, <2>8, <2>9
<1>9. ASSUME NEW r \in Ranks, Send(r)
      PROVE  Closed(joined', S) <=> \A q \in Ranks : Held(q, S)'
  <2>1. /\ par' = par /\ joined' = joined /\ mail' = [mail EXCEPT ![r] = par[r]]
        /\ \A q \in Ranks : Send(q) => q = r
    BY <1>2, <1>9 DEF Send, Goto, mergeVars, InTree
  <2>2. ~Left(r) /\ Left(r)'
    BY <1>2, <1>9 DEF Send, InTree, Left, Away, Late, Goto
  <2>3. \A q \in Ranks : q # r => (Held(q, S)' <=> Held(q, S))
    BY <1>2, <1>3, <2>1 DEF Held
  <2>4. Respects(Nothing, S)
    BY DEF Nothing, Respects
  <2>5. Held(r, S)' <=> Held(r, S)
    BY <1>2, <1>4, <2>1, <2>2, <2>4 DEF Held
  <2> QED BY <1>5, <2>1, <2>3, <2>5
<1>10. ASSUME NEW r \in Ranks, Receive(r)
       PROVE  Closed(joined', S) <=> \A q \in Ranks : Held(q, S)'
  <2>1. PICK q \in Ranks : /\ q = r + level[r] /\ mail[q] # Nothing
                           /\ par' = [par EXCEPT ![r] = Absorb(par[r], mail[q])]
                           /\ mail' = [mail EXCEPT ![q] = Nothing] /\ joined' = joined
    BY <1>10 DEF Receive
  <2>2. ~Left(r) /\ Left(q) /\ q # r /\ \A p \in Ranks : ~Send(p)
    <3>1. pc[r] = "merge" /\ r % level[r] = 0
      BY <1>10 DEF Receive, InTree
    <3>2. \A p \in Ranks : ~Send(p)
      BY <1>2, <1>10 DEF Receive, Send, Goto, InTree
    <3> QED BY <1>1, <1>4, <2>1, <3>1, <3>2 DEF Left, Away, Late
  <2>3. par[r] \in Trees(Docs) /\ mail[q] \in [Docs -> Docs]
    BY <1>2, <2>1
  <2>4. Respects(par'[r], S) <=> Respects(par[r], S) /\ Respects(mail[q], S)
    BY <1>2, <2>1, <2>3, AbsorbTree
  <2>5. \A p \in Ranks : p # q /\ p # r => (Held(p, S)' <=> Held(p, S))
    BY <1>2, <1>3, <2>1, <2>2 DEF Held
  <2>6. Held(r, S)' <=> Respects(par[r], S) /\ Respects(mail[q], S)
    BY <1>2, <1>3, <1>4, <2>1, <2>2, <2>4 DEF Held
  <2>7. Held(q, S)' /\ (Held(q, S) <=> Respects(mail[q], S)) /\ (Held(r, S) <=> Respects(par[r], S))
    BY <1>2, <1>3, <1>4, <2>1, <2>2 DEF Held
  <2> QED BY <1>5, <2>1, <2>2, <2>5, <2>6, <2>7
<1>11. ASSUME NEW r \in Ranks, GetBroadcast(r)
       PROVE  Closed(joined', S) <=> \A q \in Ranks : Held(q, S)'
  <2>1. /\ joined' = joined /\ mail' = mail /\ \A q \in Ranks : ~Send(q) /\ (q # r => par'[q] = par[q])
    BY <1>2, <1>11 DEF GetBroadcast, treeVars, Send, Goto, InTree
  <2>2. Left(r)
    BY <1>11, Alone DEF GetBroadcast, Away
  <2>3. \A q \in Ranks : Held(q, S)' <=> Held(q, S)
    BY <1>3, <2>1, <2>2 DEF Held
  <2> QED BY <1>5, <2>1, <2>3
<1> QED BY <1>6, <1>7, <1>8, <1>9, <1>10, <1>11, HeldSteps

(* The broadcast forest, and rank 0's copy of it with every root looked up.  *)
CastShared ==
  pc[0] \in Late =>
    /\ cast \in Trees(Docs) /\ par[0] = [d \in Docs |-> Root(cast, d)]
    /\ \A r \in Ranks : r # 0 /\ pc[r] \in Late => par[r] = cast

(* The array that is broadcast is that of the first rank.                   *)
LEMMA CastStep ==
  ASSUME TypeInv, Stages, CastShared, Next
  PROVE  CastShared'
<1>1. Ranks' = Ranks /\ pc \in [Ranks -> Phases] /\ par \in [Ranks -> Trees(Docs)] /\ 0 \in Ranks
  BY StepCases, Static, SizeFacts DEF TypeInv
<1> USE <1>1 DEF Goto, hashVars, compareVars, mergeVars, treeVars
<1>2. CASE Broadcast
  <2>1. \A r \in Ranks : pc[r] \notin Late
    BY <1>2 DEF Broadcast, Stages, Late
  <2> QED BY <1>2, <2>1 DEF Broadcast, CastShared, Late
<1>3. ASSUME NEW r \in Ranks, GetBroadcast(r) PROVE CastShared'
  <2>1. pc[0] \in Late
    BY <1>3 DEF GetBroadcast, Stages
  <2> QED BY <1>3, <2>1 DEF GetBroadcast, CastShared, Late
<1>4. Gather \/ CreateDirectory => CastShared'
  BY DEF Gather, CreateDirectory, CastShared, Late
<1>5. ASSUME NEW r \in Ranks, HashFile(r) \/ Hashed(r) \/ CompareBand(r) PROVE CastShared'
  BY <1>5 DEF HashFile, Hashed, CompareBand, CastShared, Late
<1>6. ASSUME NEW r \in Ranks, FileMissing(r) \/ ReadFails(r) \/ Compared(r) \/ PassBarrier(r) PROVE CastShared'
  BY <1>6 DEF FileMissing, ReadFails, StopsReading, Compared, PassBarrier, CastShared, Late
<1>7. ASSUME NEW r \in Ranks, Send(r) \/ SendReturns(r) \/ ReceiveAborts(r) \/ LeaveTree(r) PROVE CastShared'
  BY <1>7 DEF Send, SendReturns, ReceiveAborts, LeaveTree, CastShared, Late
<1>8. ASSUME NEW r \in Ranks, MergePair(r) PROVE CastShared'
  <2>1. PICK q : par' = [par EXCEPT ![r] = q]
    BY <1>8 DEF MergePair
  <2> QED BY <1>8, <2>1 DEF MergePair, CastShared, Late
<1>9. ASSUME NEW r \in Ranks, Receive(r) PROVE CastShared'
  <2>1. PICK q : par' = [par EXCEPT ![r] = q]
    BY <1>9 DEF Receive
  <2> QED BY <1>9, <2>1 DEF Receive, InTree, CastShared, Late
<1>10. ASSUME NEW r \in Ranks, DeleteHashResult(r) \/ GenerateFiles(r) PROVE CastShared'
  BY <1>10 DEF DeleteHashResult, GenerateFiles, CastShared, Late
<1> QED BY <1>2, <1>3, <1>4, <1>5, <1>6, <1>7, <1>8, <1>9, <1>10, StepCases

(* Rank r's level is one that merge_union reaches.                           *)
LevelBound == \A r \in Ranks : level[r] <= 2 * size

(* A level stays below twice the number of ranks.                           *)
LEMMA LevelStep ==
  ASSUME TypeInv, Stages, Tree, LevelBound, Next
  PROVE  LevelBound'
<1>1. /\ Ranks' = Ranks /\ size' = size /\ size \in Nat \ {0}
      /\ level \in [Ranks -> Levels] /\ \A r \in Ranks : level[r] \in Nat
  BY StepCases, Static, SizeFacts, LevelFacts DEF TypeInv
<1>2. CASE level' = level
  BY <1>1, <1>2 DEF LevelBound
<1>3. ASSUME NEW r \in Ranks, SendReturns(r) \/ Receive(r) PROVE LevelBound'
  <2>1. level[r] < size /\ level' = [level EXCEPT ![r] = 2 * level[r]]
    BY <1>3 DEF SendReturns, Receive, InTree, Tree, Up
  <2> HIDE DEF size
  <2> QED BY <1>1, <2>1 DEF LevelBound
<1> QED BY <1>2, <1>3, TreeSteps DEF Send

-----------------------------------------------------------------------------
(* The hashes.  Wherever rows are kept for a file, they are those of the     *)
(* file's documents, but for the short ones.                                 *)
Rows == {Nothing} \cup UNION {[Lines(f) -> [text : Texts, mod : {NumKey(q) : q \in Ranks}]] : f \in Files}
RowsRight(rows, f) ==
  /\ rows \in [Lines(f) -> [text : Texts, mod : {NumKey(q) : q \in Ranks}]]
  /\ \A l \in Lines(f) : DocAt(f, l) \notin Short => rows[l].text = DocAt(f, l)

Hashing ==
  /\ sizes \in [Ranks -> [Files -> Int]] /\ bins \in [Files -> Rows]
  /\ hashes \in [Ranks -> [Files -> Rows]] /\ unwritten \in SUBSET Files
  /\ \A r \in Ranks : /\ StartIndex(r) <= file[r] /\ file[r] <= EndIndex(r)
                      /\ pc[r] \notin {"create", "hash"} => file[r] = EndIndex(r)
  /\ \A f \in unwritten : /\ Offload /\ bins[f] = Nothing
                          /\ \A r \in Ranks : OwnsFile(r, f) => f < file[r]
  /\ \A r \in Ranks, f \in Files : OwnsFile(r, f) /\ file[r] <= f => bins[f] = Nothing
  /\ \A f \in Files : bins[f] # Nothing => RowsRight(bins[f], f)
  /\ \A r \in Ranks, f \in Files \ unwritten :
       (InHashPhase(r) => OwnsFile(r, f) /\ f < file[r]) =>
         /\ sizes[r][f] = Cardinality(Lines(f))
         /\ ~Offload => RowsRight(hashes[r][f], f)

(* No row has been hashed at the start.                                     *)
LEMMA InitHashing == Init => Hashing
<1> SUFFICES ASSUME Init PROVE Hashing
  OBVIOUS
<1>1. /\ \A r \in Ranks : StartIndex(r) \in Nat /\ EndIndex(r) \in Nat /\ StartIndex(r) <= EndIndex(r)
  BY FilesDealt DEF Init
<1>2. sizes \in [Ranks -> [Files -> Int]] /\ bins \in [Files -> Rows] /\ hashes \in [Ranks -> [Files -> Rows]]
  BY DEF Init, Rows, Unknown
<1>3. \A f \in Files : f \in Int
  BY DEF Files
<1>4. \A r \in Ranks, f \in Files : bins[f] = Nothing /\ (OwnsFile(r, f) => ~(f < file[r]))
  BY <1>1, <1>3 DEF Init, OwnsFile
<1> QED BY <1>1, <1>2, <1>3, <1>4 DEF Init, Hashing, InHashPhase, OwnsFile

(* What makes a row right depends on the setup alone.                       *)
LEMMA RowsStatic ==
  ASSUME UNCHANGED setup
  PROVE  Rows' = Rows /\ (\A rows, f : RowsRight(rows, f)' <=> RowsRight(rows, f))
         /\ \A r, f : OwnsFile(r, f)' <=> OwnsFile(r, f)
BY Static DEF Rows, RowsRight, OwnsFile

(* The rows that a rank makes of a file.                                     *)
LEMMA RowsMade ==
  ASSUME TypeInv, NEW r \in Ranks, NEW f \in Files
  PROVE  RowsRight(RowsOf(r, DeviceRows(r, f), f), f)
<1>1. DeviceRows(r, f) \in [1..MaxLine -> Texts] /\ Lines(f) \subseteq 1..MaxLine
  BY RowsTyped, LineFacts
<1>2. \A l \in Lines(f) : DocAt(f, l) \notin Short => DeviceRows(r, f)[l] = DocAt(f, l)
  BY <1>1 DEF DeviceRows
<1>3. NumKey(r) \in {NumKey(q) : q \in Ranks}
  OBVIOUS
<1> HIDE DEF RowsOf
<1>4. RowsOf(r, DeviceRows(r, f), f) = [l \in Lines(f) |-> [text |-> DeviceRows(r, f)[l], mod |-> NumKey(r)]]
  BY DEF RowsOf
<1> QED BY <1>1, <1>2, <1>3, <1>4 DEF RowsRight

(* Right rows are rows.                                                     *)
LEMMA RowsAre ==
  ASSUME NEW f \in Files, NEW rows, RowsRight(rows, f)
  PROVE  rows \in Rows
BY DEF RowsRight, Rows

(* Hashing a file makes its rows right and leaves the others.               *)
LEMMA HashFileStep ==
  ASSUME TypeInv, Stages, Hashing, Next, NEW r \in Ranks, HashFile(r)
  PROVE  Hashing'
<1>1. /\ UNCHANGED setup /\ setup \in Setups /\ Ranks' = Ranks /\ Offload' = Offload
      /\ \A q \in Ranks : EndIndex(q)' = EndIndex(q) /\ StartIndex(q)' = StartIndex(q)
  BY StepCases, Static DEF TypeInv
<1>2. /\ file \in [Ranks -> 0..NumFile] /\ EndIndex(r) \in Nat /\ EndIndex(r) <= NumFile /\ NumFile \in Nat
      /\ \A q \in Ranks : StartIndex(q) \in Nat /\ EndIndex(q) \in Nat
  BY <1>1, FilesDealt, MpiAssumption DEF TypeInv
<1>3. PICK f \in Files : f = file[r]
  BY <1>2 DEF HashFile, Files
<1>4. PICK rows : rows = RowsOf(r, DeviceRows(r, f), f) /\ RowsRight(rows, f) /\ rows \in Rows
  BY <1>3, RowsMade, RowsAre
<1>5. PICK lost \in BOOLEAN : lost = (Offload /\ ~dir)
  OBVIOUS
<1>6. /\ pc[r] = "hash" /\ f < EndIndex(r) /\ pc' = pc
      /\ sizes' = IF lost THEN sizes ELSE [sizes EXCEPT ![r] = [sizes[r] EXCEPT ![f] = Cardinality(Lines(f))]]
      /\ bins' = IF Offload /\ dir THEN [bins EXCEPT ![f] = rows] ELSE bins
      /\ hashes' = IF Offload THEN hashes ELSE [hashes EXCEPT ![r] = [hashes[r] EXCEPT ![f] = rows]]
      /\ unwritten' = IF lost THEN unwritten \cup {f} ELSE unwritten
      /\ file' = [file EXCEPT ![r] = f + 1]
  BY <1>3, <1>4, <1>5 DEF HashFile
<1>7. /\ sizes \in [Ranks -> [Files -> Int]] /\ bins \in [Files -> Rows] /\ hashes \in [Ranks -> [Files -> Rows]]
      /\ unwritten \in SUBSET Files /\ Cardinality(Lines(f)) \in Int /\ \A g \in Files : g \in Int
  BY LineFacts DEF Hashing, Files
<1>8. f \notin unwritten
  BY <1>3, <1>2, <1>6 DEF Hashing, OwnsFile
<1>9. OwnsFile(r, f) /\ \A q \in Ranks : OwnsFile(q, f) => q = r
  <2>1. OwnsFile(r, f)
    BY <1>3, <1>6 DEF Hashing, OwnsFile
  <2> QED BY <1>1, <2>1, FileOwner
<1>10. /\ sizes' \in [Ranks -> [Files -> Int]] /\ bins' \in [Files -> Rows]
       /\ hashes' \in [Ranks -> [Files -> Rows]] /\ unwritten' \in SUBSET Files
  BY <1>4, <1>6, <1>7
<1>11. \A q \in Ranks : /\ StartIndex(q) <= file'[q] /\ file'[q] <= EndIndex(q)
                        /\ pc'[q] \notin {"create", "hash"} => file'[q] = EndIndex(q)
  BY <1>2, <1>3, <1>6 DEF Hashing
<1>12. ASSUME NEW g \in unwritten'
       PROVE  Offload /\ bins'[g] = Nothing /\ \A q \in Ranks : OwnsFile(q, g) => g < file'[q]
  <2>1. CASE g \in unwritten
    <3>1. Offload /\ bins[g] = Nothing /\ \A q \in Ranks : OwnsFile(q, g) => g < file[q]
      BY <2>1 DEF Hashing
    <3>2. \A q \in Ranks : file[q] <= file'[q] /\ file[q] \in Nat /\ file'[q] \in Nat
      BY <1>2, <1>3, <1>6
    <3>3. g \in Int /\ g # f
      BY <1>7, <1>8, <2>1
    <3> QED BY <1>6, <1>7, <3>1, <3>2, <3>3
  <2>2. CASE g = f /\ lost
    <3>1. bins[f] = Nothing /\ Offload /\ ~dir
      <4>1. Offload /\ ~dir
        BY <1>5, <2>2, Zenon
      <4>2. file[r] <= f
        BY <1>2, <1>3
      <4> QED BY <1>9, <4>1, <4>2 DEF Hashing
    <3>2. f < file'[r]
      BY <1>2, <1>3, <1>6
    <3> QED BY <1>6, <1>9, <2>2, <3>1, <3>2
  <2> QED BY <1>6, <2>1, <2>2
<1>13. \A g \in Files : bins'[g] # Nothing => RowsRight(bins'[g], g)
  BY <1>4, <1>6, <1>7 DEF Hashing
<1>14. ASSUME NEW q \in Ranks, NEW g \in Files, OwnsFile(q, g), file'[q] <= g
       PROVE  bins'[g] = Nothing
  <2>1. g # f /\ file[q] <= g
    <3>1. g \in Int /\ f \in Int
      BY <1>7
    <3> QED BY <1>2, <1>3, <1>6, <1>9, <1>14, <3>1
  <2> QED BY <1>6, <1>7, <1>14, <2>1 DEF Hashing
<1>15. ASSUME NEW q \in Ranks, NEW g \in Files \ unwritten', InHashPhase(q) => OwnsFile(q, g) /\ g < file'[q]
       PROVE  sizes'[q][g] = Cardinality(Lines(g)) /\ (~Offload => RowsRight(hashes'[q][g], g))
  <2>1. InHashPhase(q)
    BY <1>6 DEF Stages, Early, InHashPhase
  <2>2. CASE q = r /\ g = f
    BY <1>4, <1>5, <1>6, <1>7, <2>2
  <2>3. CASE ~(q = r /\ g = f)
    <3>1. g < file[q] /\ g \notin unwritten
      <4>1. g < file'[q] /\ g \in Int /\ g \notin unwritten /\ f \in Int
        BY <1>6, <1>7, <1>15, <2>1
      <4>2. CASE q = r
        <5>1. g < f + 1 /\ g # f
          BY <1>2, <1>6, <2>3, <4>1, <4>2
        <5> QED BY <1>3, <4>1, <4>2, <5>1
      <4>3. CASE q # r
        BY <1>2, <1>6, <4>1, <4>3
      <4> QED BY <4>2, <4>3
    <3>2. sizes[q][g] = Cardinality(Lines(g)) /\ (~Offload => RowsRight(hashes[q][g], g))
      BY <1>15, <2>1, <3>1 DEF Hashing
    <3>3. sizes'[q][g] = sizes[q][g] /\ hashes'[q][g] = hashes[q][g]
      BY <1>6, <1>7, <2>3
    <3> QED BY <3>2, <3>3
  <2> QED BY <2>2, <2>3
<1>16. Rows' = Rows /\ (\A x, g : RowsRight(x, g)' <=> RowsRight(x, g)) /\ \A q, g : OwnsFile(q, g)' <=> OwnsFile(q, g)
  BY <1>1, RowsStatic
<1>17. \A q \in Ranks : InHashPhase(q)' <=> InHashPhase(q)
  BY <1>6 DEF InHashPhase
<1> QED BY <1>1, <1>10, <1>11, <1>12, <1>13, <1>15, <1>16, <1>17, <1>14 DEF Hashing

(* A gather puts every part in the place of its file.                        *)
LEMMA GatheredPart ==
  ASSUME setup \in Setups, NEW own, NEW parts, NEW from,
         \A q \in Ranks : from[q] = StartIndex(q), NEW f \in Files
  PROVE  \E q \in Ranks : OwnsFile(q, f) /\ Gathered(own, parts, from)[f] = parts[q][f]
<1>1. \A q \in Ranks : /\ Displs(q) = StartIndex(q) /\ Displs(q) + Count(q) = EndIndex(q)
                       /\ StartIndex(q) \in Nat /\ EndIndex(q) \in Nat /\ Count(q) = EndIndex(q) - StartIndex(q)
  BY Places, FilesDealt DEF Count
<1>2. f \in Int
  BY DEF Files
<1>3. \A q \in Ranks : f \in Displs(q)..(Displs(q) + Count(q) - 1) <=> OwnsFile(q, f)
  BY <1>1, <1>2 DEF OwnsFile
<1>4. PICK q \in Ranks : OwnsFile(q, f) /\ \A p \in Ranks : OwnsFile(p, f) => p = q
  BY FileOwner
<1>5. (CHOOSE p \in Ranks : f \in Displs(p)..(Displs(p) + Count(p) - 1)) = q
  BY <1>3, <1>4
<1>6. Gathered(own, parts, from)[f] = parts[q][from[q] + f - Displs(q)]
  BY <1>3, <1>4, <1>5 DEF Gathered
<1>7. from[q] + f - Displs(q) = f
  BY <1>1, <1>2
<1> QED BY <1>4, <1>6, <1>7

(* The gathering hands each rank the rows of all.                           *)
LEMMA GatherStep ==
  ASSUME TypeInv, Stages, Hashing, Next, Gather
  PROVE  Hashing'
<1>1. /\ UNCHANGED setup /\ setup \in Setups /\ Ranks' = Ranks /\ Offload' = Offload
      /\ \A q \in Ranks : EndIndex(q)' = EndIndex(q) /\ StartIndex(q)' = StartIndex(q)
  BY StepCases, Static DEF TypeInv
<1>2. \A r \in Ranks : pc[r] = "gather" /\ file[r] = EndIndex(r) /\ InHashPhase(r) /\ pc'[r] = "compare"
  BY DEF Gather, Hashing, InHashPhase
<1>3. UNCHANGED <<file, bins, unwritten>>
  BY DEF Gather
<1>4. /\ sizes \in [Ranks -> [Files -> Int]] /\ bins \in [Files -> Rows] /\ hashes \in [Ranks -> [Files -> Rows]]
      /\ unwritten \in SUBSET Files
  BY DEF Hashing
<1>5. ASSUME NEW f \in Files \ unwritten, NEW q \in Ranks, OwnsFile(q, f)
      PROVE  sizes[q][f] = Cardinality(Lines(f)) /\ (~Offload => RowsRight(hashes[q][f], f))
  BY <1>2, <1>5 DEF Hashing, OwnsFile
<1>6. PICK from : from = [q \in Ranks |-> StartIndex(q)]
  OBVIOUS
<1>7. PICK at : at = [q \in Ranks |-> Displs(q)]
  OBVIOUS
<1>8. \A q \in Ranks : from[q] = StartIndex(q) /\ at[q] = StartIndex(q)
  BY <1>1, <1>6, <1>7, Places
<1>9. \A r \in Ranks : /\ sizes'[r] = Gathered(sizes[r], sizes, at)
                       /\ hashes'[r] = IF Offload THEN hashes[r] ELSE Gathered(hashes[r], hashes, from)
  BY <1>6, <1>7 DEF Gather
<1>10. \A own, parts, f0 : Gathered(own, parts, f0) = [f \in Files |-> Gathered(own, parts, f0)[f]]
  BY DEF Gathered
<1>11. ASSUME NEW r \in Ranks, NEW f \in Files
       PROVE  \E q \in Ranks : OwnsFile(q, f) /\ sizes'[r][f] = sizes[q][f]
  BY <1>1, <1>8, <1>9, GatheredPart
<1>12. ASSUME NEW r \in Ranks, NEW f \in Files, ~Offload
       PROVE  \E q \in Ranks : OwnsFile(q, f) /\ hashes'[r][f] = hashes[q][f]
  BY <1>1, <1>8, <1>9, <1>12, GatheredPart
<1>13. sizes' \in [Ranks -> [Files -> Int]]
  <2>1. \A r \in Ranks : sizes'[r] \in [Files -> Int]
    BY <1>4, <1>9, <1>10, <1>11
  <2>2. sizes' = [r \in Ranks |-> sizes'[r]]
    BY DEF Gather
  <2> QED BY <2>1, <2>2
<1>14. hashes' \in [Ranks -> [Files -> Rows]]
  <2>1. CASE Offload
    BY <1>4, <2>1 DEF Gather
  <2>2. CASE ~Offload
    <3>1. \A r \in Ranks : hashes'[r] \in [Files -> Rows]
      BY <1>4, <1>9, <1>10, <1>12, <2>2
    <3>2. hashes' = [r \in Ranks |-> hashes'[r]]
      BY <2>2 DEF Gather
    <3> QED BY <3>1, <3>2
  <2> QED BY <2>1, <2>2
<1>15. ASSUME NEW r \in Ranks, NEW f \in Files \ unwritten
       PROVE  sizes'[r][f] = Cardinality(Lines(f)) /\ (~Offload => RowsRight(hashes'[r][f], f))
  BY <1>5, <1>11, <1>12
<1>16. Rows' = Rows /\ (\A x, g : RowsRight(x, g)' <=> RowsRight(x, g)) /\ \A q, g : OwnsFile(q, g)' <=> OwnsFile(q, g)
  BY <1>1, RowsStatic
<1>17. /\ \A q \in Ranks : /\ StartIndex(q) <= file[q] /\ file[q] <= EndIndex(q) /\ file[q] = EndIndex(q)
       /\ \A f \in unwritten : Offload /\ bins[f] = Nothing /\ \A q \in Ranks : OwnsFile(q, f) => f < file[q]
       /\ \A q \in Ranks, f \in Files : OwnsFile(q, f) /\ file[q] <= f => bins[f] = Nothing
       /\ \A f \in Files : bins[f] # Nothing => RowsRight(bins[f], f)
  BY <1>2 DEF Hashing
<1> QED BY <1>1, <1>3, <1>4, <1>13, <1>14, <1>15, <1>16, <1>17 DEF Hashing

(* Every step keeps the rows right.                                         *)
LEMMA HashingStep ==
  ASSUME TypeInv, Stages, Hashing, Next
  PROVE  Hashing'
<1>1. /\ UNCHANGED setup /\ setup \in Setups /\ Ranks' = Ranks /\ Offload' = Offload /\ pc \in [Ranks -> Phases]
      /\ \A q \in Ranks : EndIndex(q)' = EndIndex(q) /\ StartIndex(q)' = StartIndex(q)
  BY StepCases, Static DEF TypeInv
<1>2. Rows' = Rows /\ (\A x, g : RowsRight(x, g)' <=> RowsRight(x, g)) /\ \A q, g : OwnsFile(q, g)' <=> OwnsFile(q, g)
  BY <1>1, RowsStatic
<1> DEFINE Kept == UNCHANGED <<file, sizes, bins, hashes, unwritten>>
           Phase == \A r \in Ranks : /\ pc'[r] \notin {"create", "hash"} => file[r] = EndIndex(r)
                                     /\ InHashPhase(r)' <=> InHashPhase(r)
           Stay == \A r \in Ranks : /\ pc'[r] \in {"create", "hash"} <=> pc[r] \in {"create", "hash"}
                                    /\ InHashPhase(r)' <=> InHashPhase(r)
<1>3. ASSUME Kept, Phase PROVE Hashing'
  <2>1. \A q \in Ranks : /\ StartIndex(q) <= file'[q] /\ file'[q] <= EndIndex(q)
                         /\ pc'[q] \notin {"create", "hash"} => file'[q] = EndIndex(q)
    BY <1>3 DEF Hashing
  <2>2. \A r \in Ranks, f \in Files \ unwritten' :
          (InHashPhase(r)' => OwnsFile(r, f) /\ f < file'[r]) =>
            sizes'[r][f] = Cardinality(Lines(f)) /\ (~Offload => RowsRight(hashes'[r][f], f))
    BY <1>3 DEF Hashing
  <2>3. /\ sizes' \in [Ranks -> [Files -> Int]] /\ bins' \in [Files -> Rows]
        /\ hashes' \in [Ranks -> [Files -> Rows]] /\ unwritten' \in SUBSET Files
        /\ \A f \in unwritten' : Offload /\ bins'[f] = Nothing /\ \A q \in Ranks : OwnsFile(q, f) => f < file'[q]
        /\ \A q \in Ranks, f \in Files : OwnsFile(q, f) /\ file'[q] <= f => bins'[f] = Nothing
        /\ \A f \in Files : bins'[f] # Nothing => RowsRight(bins'[f], f)
    BY <1>3 DEF Hashing
  <2> QED BY <1>1, <1>2, <2>1, <2>2, <2>3 DEF Hashing
<1>4. ASSUME Kept, Stay PROVE Hashing'
  BY <1>3, <1>4 DEF Hashing
<1> USE <1>1 DEF Goto, hashVars, compareVars, mergeVars, treeVars, InHashPhase
<1>5. CASE CreateDirectory
  BY <1>4, <1>5 DEF CreateDirectory
<1>6. CASE Broadcast
  BY <1>4, <1>6 DEF Broadcast
<1>7. ASSUME NEW r \in Ranks, Hashed(r) PROVE Hashing'
  <2>1. file[r] = EndIndex(r)
    <3>1. file[r] >= EndIndex(r) /\ file[r] <= EndIndex(r)
      BY <1>7 DEF Hashed, Hashing
    <3> QED BY <3>1, FilesDealt DEF TypeInv
  <2>2. Kept /\ (\A q \in Ranks : InHashPhase(q)' <=> InHashPhase(q)) /\ \A q \in Ranks : q # r => pc'[q] = pc[q]
    BY <1>7 DEF Hashed
  <2>3. \A q \in Ranks : file[q] = EndIndex(q) \/ (pc'[q] \in {"create", "hash"} <=> pc[q] \in {"create", "hash"})
    BY <2>1, <2>2
  <2>4. Kept /\ Phase
    BY <2>2, <2>3 DEF Hashing
  <2> QED BY <1>3, <2>4
<1>8. ASSUME NEW r \in Ranks, CompareBand(r) \/ MergePair(r) PROVE Hashing'
  BY <1>4, <1>8 DEF CompareBand, MergePair
<1>9. ASSUME NEW r \in Ranks, FileMissing(r) \/ ReadFails(r) \/ Compared(r) \/ PassBarrier(r) PROVE Hashing'
  BY <1>4, <1>9 DEF FileMissing, ReadFails, StopsReading, Compared, PassBarrier
<1>10. ASSUME NEW r \in Ranks, Send(r) \/ SendReturns(r) \/ Receive(r) PROVE Hashing'
  BY <1>4, <1>10 DEF Send, SendReturns, Receive, InTree
<1>11. ASSUME NEW r \in Ranks, ReceiveAborts(r) PROVE Hashing'
  BY <1>4, <1>11 DEF ReceiveAborts, InTree, Stages, Early
<1>12. ASSUME NEW r \in Ranks, LeaveTree(r) \/ GetBroadcast(r) \/ GenerateFiles(r) PROVE Hashing'
  BY <1>4, <1>12 DEF LeaveTree, GetBroadcast, GenerateFiles
<1>13. ASSUME NEW r \in Ranks, DeleteHashResult(r) PROVE Hashing'
  <2>1. /\ UNCHANGED <<file, sizes, hashes, unwritten>> /\ Stay
        /\ bins' = bins \/ bins' = [f \in Files |-> Nothing]
    BY <1>13 DEF DeleteHashResult
  <2>2. CASE bins' = [f \in Files |-> Nothing]
    <3>1. bins' \in [Files -> Rows] /\ \A f \in Files : bins'[f] = Nothing
      BY <2>2 DEF Rows
    <3> QED BY <1>2, <2>1, <3>1 DEF Hashing
  <2> QED BY <1>4, <2>1, <2>2
<1> QED BY <1>5, <1>6, <1>7, <1>8, <1>9, <1>10, <1>11, <1>12, <1>13, HashFileStep, GatherStep, StepCases

-----------------------------------------------------------------------------
(* The comparison.                                                           *)
LEMMA RowRight ==
  ASSUME TypeInv, Hashing, NEW r \in Ranks, ~InHashPhase(r), NEW d \in Readable(r)
  PROVE  /\ d \in Docs /\ Row(r, d) \in [text : Texts, mod : {NumKey(q) : q \in Ranks}]
         /\ d \notin Short => Row(r, d).text = d
<1>1. PICK f \in Files : f = FileOf[d]
  BY DocsAre DEF Readable
<1>2. d \in Docs /\ d \in DocsIn(f) /\ Stored(r, f) # Nothing
  BY <1>1, DocsAre DEF Readable
<1>3. RowsRight(Stored(r, f), f)
  <2>1. CASE Offload
    BY <1>2, <2>1 DEF Stored, Hashing
  <2>2. CASE ~Offload
    <3>1. unwritten = {}
      BY <2>2 DEF Hashing
    <3> QED BY <2>2, <3>1 DEF Stored, Hashing
  <2> QED BY <2>1, <2>2
<1>4. LineOf(d) \in Lines(f) /\ DocAt(f, LineOf(d)) = d
  BY <1>2, LineFacts
<1>5. Row(r, d) = Stored(r, f)[LineOf(d)]
  BY <1>1 DEF Row
<1> QED BY <1>2, <1>3, <1>4, <1>5 DEF RowsRight

(* Pairs that may be merged.                                                 *)
Fine == {p \in Upper : p \in Similar \/ p[1] \in Short \/ p[2] \in Short}

(* Documents that compare alike on a rank that has gathered are alike.      *)
LEMMA AlikeFine ==
  ASSUME TypeInv, Hashing, NEW r \in Ranks, ~InHashPhase(r), NEW docs \in SUBSET Readable(r)
  PROVE  PairsIn(r, docs) \in SUBSET Fine
<1> SUFFICES ASSUME NEW p \in PairsIn(r, docs) PROVE p \in Fine
  OBVIOUS
<1>1. /\ p \in docs \X docs /\ p[1] \in Readable(r) /\ p[2] \in Readable(r)
      /\ p[1] < p[2] /\ Alike(Row(r, p[1]).text, Row(r, p[2]).text)
  BY DEF PairsIn
<1>2. p[1] \in Docs /\ p[2] \in Docs /\ p = <<p[1], p[2]>>
  BY <1>1 DEF Readable
<1>3. SUFFICES ASSUME p[1] \notin Short, p[2] \notin Short PROVE p \in Similar
  BY <1>1, <1>2 DEF Fine, Upper
<1>4. Row(r, p[1]).text = p[1] /\ Row(r, p[2]).text = p[2]
  BY <1>1, <1>3, RowRight
<1>5. Alike(p[1], p[2])
  BY <1>1, <1>4
<1>6. p[1] \in Int /\ p[2] \in Int
  BY <1>2, DocsAre
<1>7. <<p[2], p[1]>> \notin Similar
  <2>1. ASSUME <<p[2], p[1]>> \in Similar PROVE p[2] < p[1]
    BY <2>1, MpiAssumption
  <2> QED BY <1>1, <1>6, <2>1
<1>8. p[1] # p[2]
  BY <1>1, <1>6
<1> QED BY <1>2, <1>5, <1>7, <1>8 DEF Alike

(* The pairs of a band are alike.                                           *)
LEMMA BandFine ==
  ASSUME TypeInv, Hashing, NEW r \in Ranks, ~InHashPhase(r), NEW k
  PROVE  BandPairs(r, k) \in SUBSET Fine
<1>1. \A key : Rest(r, k, key) \in SUBSET Readable(r)
  BY DEF Rest, Bucket
<1>2. \A key : Merged(r, k, key) \in SUBSET Fine
  BY <1>1, AlikeFine DEF Merged
<1> QED BY <1>2 DEF BandPairs

(* Nothing is merged in the hash phase, and nothing ever is if a hash file   *)
(* could not be written.                                                     *)
Idle ==
  \A r \in Ranks : InHashPhase(r) =>
    todo[r] = {} /\ par[r] = Singletons(Docs) /\ joined = {} /\ band[r] = r

Unmerged ==
  unwritten # {} =>
    /\ joined = {} /\ cast \in {Nothing, Singletons(Docs)}
    /\ \A r \in Ranks : /\ todo[r] = {} /\ par[r] = Singletons(Docs)
                        /\ mail[r] \in {Nothing, Singletons(Docs)}

PairsFine == joined \in SUBSET Fine /\ \A r \in Ranks : todo[r] \in SUBSET Fine

(* What a step does to the pairs.                                            *)
LEMMA PairSteps ==
  ASSUME TypeInv, Next
  PROVE  \/ UNCHANGED <<joined, todo, band>> /\ \A r \in Ranks : ~MergePair(r)
         \/ \E r \in Ranks : /\ CompareBand(r) \/ MergePair(r) \/ FileMissing(r) \/ ReadFails(r)
<1> DEFINE Kept == UNCHANGED <<joined, todo, band>>
<1> USE DEF hashVars, compareVars, mergeVars, treeVars
<1>1. Gather \/ CreateDirectory \/ Broadcast => Kept
  BY DEF Gather, CreateDirectory, Broadcast
<1>2. ASSUME NEW r \in Ranks, HashFile(r) \/ Hashed(r) \/ Compared(r) \/ PassBarrier(r) PROVE Kept
  BY <1>2 DEF HashFile, Hashed, Compared, PassBarrier
<1>3. ASSUME NEW r \in Ranks, Send(r) \/ SendReturns(r) \/ Receive(r) \/ ReceiveAborts(r) PROVE Kept
  BY <1>3 DEF Send, SendReturns, Receive, ReceiveAborts
<1>4. ASSUME NEW r \in Ranks, LeaveTree(r) \/ GetBroadcast(r) \/ DeleteHashResult(r) \/ GenerateFiles(r) PROVE Kept
  BY <1>4 DEF LeaveTree, GetBroadcast, DeleteHashResult, GenerateFiles
<1> QED BY <1>1, <1>2, <1>3, <1>4, StepCases

(* Every step keeps the pairs to merge alike.                               *)
LEMMA PairsFineStep ==
  ASSUME TypeInv, Hashing, PairsFine, Next
  PROVE  PairsFine'
<1>1. Ranks' = Ranks /\ Fine' = Fine /\ todo \in [Ranks -> SUBSET Upper]
  BY StepCases, Static DEF TypeInv, Fine, Upper
<1>2. CASE UNCHANGED <<joined, todo, band>>
  BY <1>1, <1>2 DEF PairsFine
<1>3. ASSUME NEW r \in Ranks, CompareBand(r) PROVE PairsFine'
  <2>1. BandPairs(r, band[r]) \in SUBSET Fine
    BY <1>3, BandFine DEF CompareBand, InHashPhase
  <2> QED BY <1>1, <1>3, <2>1 DEF PairsFine, CompareBand, mergeVars
<1>4. ASSUME NEW r \in Ranks, MergePair(r) PROVE PairsFine'
  BY <1>1, <1>4 DEF PairsFine, MergePair
<1>5. ASSUME NEW r \in Ranks, FileMissing(r) \/ ReadFails(r) PROVE PairsFine'
  BY <1>1, <1>5 DEF PairsFine, FileMissing, ReadFails, StopsReading, mergeVars
<1> QED BY <1>2, <1>3, <1>4, <1>5, PairSteps

(* A rank that does not compare has no pairs left to merge.                 *)
LEMMA IdleStep ==
  ASSUME TypeInv, Stages, Idle, Next
  PROVE  Idle'
<1>1. Ranks' = Ranks /\ pc \in [Ranks -> Phases]
  BY StepCases, Static DEF TypeInv
<1>2. CASE \A q \in Ranks : pc'[q] \notin Early
  BY <1>1, <1>2 DEF Idle, InHashPhase, Early
<1>3. CASE UNCHANGED <<par, joined, todo, band>> /\ \A q \in Ranks : pc'[q] \in Early => pc[q] \in Early
  BY <1>1, <1>3 DEF Idle, InHashPhase, Early
<1> USE <1>1 DEF Goto, hashVars, compareVars, mergeVars, treeVars
<1>4. Gather => Idle'
  BY <1>2 DEF Gather, Early
<1>5. CreateDirectory => Idle'
  BY <1>3 DEF CreateDirectory, Early
<1>6. ASSUME NEW r \in Ranks, HashFile(r) \/ Hashed(r) PROVE Idle'
  BY <1>3, <1>6 DEF HashFile, Hashed, Early
<1>7. ASSUME NEW r \in Ranks, pc[r] \notin Early, \A q \in Ranks : pc'[q] \in Early => q # r /\ pc[q] \in Early
      PROVE  Idle'
  BY <1>2, <1>7 DEF Stages
<1>8. Broadcast /\ 0 \in Ranks => Idle'
  BY <1>7 DEF Broadcast, Early
<1>9. ASSUME NEW r \in Ranks, CompareBand(r) \/ MergePair(r) PROVE Idle'
  BY <1>7, <1>9 DEF CompareBand, MergePair, Early
<1>10. ASSUME NEW r \in Ranks, FileMissing(r) \/ ReadFails(r) \/ Compared(r) \/ PassBarrier(r) PROVE Idle'
  BY <1>7, <1>10 DEF FileMissing, ReadFails, StopsReading, Compared, PassBarrier, Early
<1>11. ASSUME NEW r \in Ranks, Send(r) \/ SendReturns(r) \/ Receive(r) \/ ReceiveAborts(r) PROVE Idle'
  BY <1>7, <1>11 DEF Send, SendReturns, Receive, ReceiveAborts, InTree, Early
<1>12. ASSUME NEW r \in Ranks, LeaveTree(r) \/ GetBroadcast(r) PROVE Idle'
  BY <1>7, <1>12 DEF LeaveTree, GetBroadcast, Early
<1>13. ASSUME NEW r \in Ranks, DeleteHashResult(r) \/ GenerateFiles(r) PROVE Idle'
  BY <1>7, <1>13 DEF DeleteHashResult, GenerateFiles, Early
<1> QED BY <1>4, <1>5, <1>6, <1>8, <1>9, <1>10, <1>11, <1>12, <1>13, StepCases

(* Merging singletons with singletons joins nothing.                        *)
LEMMA SingletonsStay ==
  /\ Absorb(Singletons(Docs), Singletons(Docs)) = Singletons(Docs)
  /\ [d \in Docs |-> Root(Singletons(Docs), d)] = Singletons(Docs)
<1> DEFINE s == Singletons(Docs)
           a == Absorb(s, s)
<1>1. s \in [Docs -> Docs] /\ Acyclic(s) /\ s \in Trees(Docs) /\ \A S : Respects(s, S)
  BY SingletonsRespect DEF Trees
<1>2. \A d \in Docs : s[d] = d /\ Root(s, d) = d
  BY <1>1, RootFacts DEF Singletons
<1>3. a \in [Docs -> Docs] /\ \A S : Respects(a, S)
  BY <1>1, AbsorbTree DEF Trees
<1>4. \A d \in Docs : a[d] = d
  <2> TAKE d \in Docs
  <2>1. Respects(a, {d})
    BY <1>3
  <2> HIDE DEF a
  <2> QED BY <1>3, <2>1 DEF Respects
<1>5. a = s
  <2> HIDE DEF a, s
  <2> QED BY <1>1, <1>2, <1>3, <1>4
<1>6. [d \in Docs |-> Root(s, d)] = s
  <2> HIDE DEF s
  <2> QED BY <1>1, <1>2
<1> QED BY <1>5, <1>6

(* While no rank has compared, no two documents are joined.                 *)
LEMMA UnmergedStep ==
  ASSUME TypeInv, Stages, Hashing, Idle, Unmerged, Next
  PROVE  Unmerged'
<1>1. /\ Ranks' = Ranks /\ pc \in [Ranks -> Phases] /\ par \in [Ranks -> Trees(Docs)]
      /\ mail \in [Ranks -> {Nothing} \cup [Docs -> Docs]] /\ todo \in [Ranks -> SUBSET Upper] /\ 0 \in Ranks
  BY StepCases, Static, SizeFacts DEF TypeInv
<1>2. PICK s : s = Singletons(Docs)
  OBVIOUS
<1> DEFINE U == /\ joined = {} /\ cast \in {Nothing, s}
                /\ \A r \in Ranks : todo[r] = {} /\ par[r] = s /\ mail[r] \in {Nothing, s}
<1>3. (unwritten # {} => U) /\ (Unmerged' <=> (unwritten' # {} => U'))
  BY <1>1, <1>2 DEF Unmerged
<1>4. ASSUME NEW r \in Ranks, HashFile(r) PROVE Unmerged'
  <2>1. pc[r] = "hash"
    BY <1>4 DEF HashFile
  <2>2. \A q \in Ranks : InHashPhase(q) /\ pc[q] \in Early
    BY <2>1 DEF Stages, Early, InHashPhase
  <2>3. cast = Nothing /\ \A q \in Ranks : mail[q] = Nothing
    BY <1>1, <2>2 DEF Stages, Early, Late
  <2>4. U
    BY <1>2, <2>1, <2>2, <2>3 DEF Idle
  <2>5. UNCHANGED <<joined, cast, todo, par, mail>>
    BY <1>4 DEF HashFile, compareVars, mergeVars, treeVars
  <2>6. U'
    BY <1>1, <2>4, <2>5
  <2> QED BY <1>3, <2>6
<1>5. SUFFICES ASSUME unwritten' = unwritten, U, unwritten # {} PROVE U'
  <2>1. (\E r \in Ranks : HashFile(r)) \/ unwritten' = unwritten
    <3> USE DEF hashVars
    <3>1. Gather \/ CreateDirectory \/ Broadcast => unwritten' = unwritten
      BY DEF Gather, CreateDirectory, Broadcast
    <3>2. ASSUME NEW r \in Ranks, Hashed(r) \/ CompareBand(r) \/ MergePair(r) PROVE unwritten' = unwritten
      BY <3>2 DEF Hashed, CompareBand, MergePair
    <3>3. ASSUME NEW r \in Ranks, FileMissing(r) \/ ReadFails(r) \/ Compared(r) \/ PassBarrier(r) PROVE unwritten' = unwritten
      BY <3>3 DEF FileMissing, ReadFails, StopsReading, Compared, PassBarrier
    <3>4. ASSUME NEW r \in Ranks, Send(r) \/ SendReturns(r) \/ Receive(r) \/ ReceiveAborts(r) PROVE unwritten' = unwritten
      BY <3>4 DEF Send, SendReturns, Receive, ReceiveAborts
    <3>5. ASSUME NEW r \in Ranks, LeaveTree(r) \/ GetBroadcast(r) \/ DeleteHashResult(r) \/ GenerateFiles(r)
          PROVE  unwritten' = unwritten
      BY <3>5 DEF LeaveTree, GetBroadcast, DeleteHashResult, GenerateFiles
    <3> QED BY <3>1, <3>2, <3>3, <3>4, <3>5, StepCases
  <2> QED BY <1>3, <1>4, <2>1
<1>6. Absorb(s, s) = s /\ [d \in Docs |-> Root(s, d)] = s
  BY <1>2, SingletonsStay
<1>7. \A r \in Ranks : ~CompareBand(r) /\ ~MergePair(r)
  <2>1. PICK f \in unwritten : f \in Files /\ bins[f] = Nothing /\ Offload
    BY <1>5 DEF Hashing
  <2>2. Cardinality(DocsIn(f)) # 0
    BY <2>1, LineFacts
  <2>3. PICK d \in Docs : FileOf[d] = f
    <3>1. DocsIn(f) # {}
      BY <2>2, FS_EmptySet
    <3> QED BY <3>1 DEF DocsIn
  <2>4. \A r \in Ranks : Readable(r) # Docs
    BY <2>1, <2>3 DEF Readable, Stored
  <2> QED BY <1>5, <2>4 DEF CompareBand, MergePair
<1> USE <1>1, <1>5 DEF hashVars, compareVars, mergeVars, treeVars
<1> HIDE DEF U
<1>8. UNCHANGED <<joined, cast, todo, par, mail>> => U'
  BY DEF U
<1>9. Gather \/ CreateDirectory => U'
  BY <1>8 DEF Gather, CreateDirectory
<1>10. Broadcast => U'
  <2>1. par[0] = s
    BY DEF U
  <2>2. Broadcast => par' = [par EXCEPT ![0] = s] /\ cast' = s
    BY <1>6, <2>1 DEF Broadcast
  <2> QED BY <2>2 DEF U, Broadcast
<1>11. ASSUME NEW r \in Ranks, HashFile(r) \/ Hashed(r) PROVE U'
  BY <1>8, <1>11 DEF HashFile, Hashed
<1>12. ASSUME NEW r \in Ranks, FileMissing(r) \/ ReadFails(r) PROVE U'
  BY <1>12 DEF FileMissing, ReadFails, StopsReading, U
<1>13. ASSUME NEW r \in Ranks, Compared(r) \/ PassBarrier(r) \/ SendReturns(r) \/ ReceiveAborts(r) \/ LeaveTree(r) PROVE U'
  BY <1>8, <1>13 DEF Compared, PassBarrier, SendReturns, ReceiveAborts, LeaveTree
<1>14. ASSUME NEW r \in Ranks, Send(r) PROVE U'
  BY <1>14 DEF Send, U
<1>15. ASSUME NEW r \in Ranks, Receive(r) PROVE U'
  <2>1. PICK q \in Ranks : /\ mail[q] # Nothing /\ par' = [par EXCEPT ![r] = Absorb(par[r], mail[q])]
                           /\ mail' = [mail EXCEPT ![q] = Nothing]
    BY <1>15 DEF Receive
  <2>2. par' = [par EXCEPT ![r] = s]
    BY <1>6, <2>1 DEF U
  <2> QED BY <1>15, <2>1, <2>2 DEF Receive, U
<1>16. ASSUME NEW r \in Ranks, GetBroadcast(r) PROVE U'
  BY <1>16 DEF GetBroadcast, U
<1>17. ASSUME NEW r \in Ranks, DeleteHashResult(r) \/ GenerateFiles(r) PROVE U'
  BY <1>8, <1>17 DEF DeleteHashResult, GenerateFiles
<1> QED BY <1>7, <1>9, <1>10, <1>11, <1>12, <1>13, <1>14, <1>15, <1>16, <1>17, StepCases

(* The bands of a rank.  What it has compared is merged or still to be       *)
(* merged, as long as it has not failed to read.                             *)
BandsDone ==
  \A r \in Ranks : pc[r] \in {"compare", "barrier"} /\ r \notin unread =>
    /\ band[r] % size = r
    /\ \A k \in 0..(Bands - 1) : k % size = r /\ k < band[r] =>
         Readable(r) = Docs /\ BandPairs(r, k) \subseteq joined \cup todo[r]
    /\ pc[r] = "barrier" => todo[r] = {} /\ band[r] >= Bands

(* The next band of a rank is the next of its residue class.                *)
LEMMA NextBand ==
  ASSUME NEW s \in Nat \ {0}, NEW b \in Nat, NEW k \in Nat, k % s = b % s, k < b + s
  PROVE  (b + s) % s = b % s /\ (k < b \/ k = b)
<1> DEFINE m == b \div s
           n == k \div s
           r == b % s
<1>1. /\ m \in Nat /\ n \in Nat /\ r \in 0..(s - 1) /\ b = s * m + r /\ k = s * n + r
  BY Divide
<1> HIDE DEF m, n, r
<1>2. n <= m
  <2> SUFFICES ASSUME n > m PROVE FALSE
    BY <1>1
  <2>1. PICK j \in Nat : n = m + 1 + j
    <3>1. n - m - 1 \in Nat /\ n = m + 1 + (n - m - 1)
      BY <1>1
    <3> QED BY <3>1
  <2>2. s * n = s * m + s + s * j /\ s * j \in Nat /\ s * m \in Nat
    BY <1>1, <2>1
  <2> QED BY <1>1, <2>2
<1>3. k <= b
  <2>1. PICK j \in Nat : m = n + j
    <3>1. m - n \in Nat /\ m = n + (m - n)
      BY <1>1, <1>2
    <3> QED BY <3>1
  <2>2. s * m = s * n + s * j /\ s * j \in Nat /\ s * n \in Nat
    BY <1>1, <2>1
  <2> QED BY <1>1, <2>2
<1>4. (b + s) % s = r
  <2>1. b + s = s * (m + 1) + r /\ m + 1 \in Nat /\ b + s \in Nat
    BY <1>1
  <2> QED BY <1>1, <2>1, Quotient
<1> QED BY <1>3, <1>4 DEF r

(* The pairs of a band depend on the hashes only.                            *)
LEMMA BandStatic ==
  ASSUME UNCHANGED <<setup, bins, hashes>>
  PROVE  \A r, k : Readable(r)' = Readable(r) /\ BandPairs(r, k)' = BandPairs(r, k)
<1>1. Offload' = Offload /\ \A r : MaxBucket(r)' = MaxBucket(r) /\ NumKey(r)' = NumKey(r)
  BY Static
<1>2. \A r, f : Stored(r, f)' = Stored(r, f)
  BY <1>1 DEF Stored
<1>3. \A r : Readable(r)' = Readable(r) /\ KeysOf(r)' = KeysOf(r)
  BY <1>1, <1>2 DEF Readable, KeysOf
<1>4. \A r, d : Row(r, d)' = Row(r, d)
  BY <1>2 DEF Row
<1>5. \A r, k, d : Key(r, k, d)' = Key(r, k, d)
  BY <1>4 DEF Key
<1>6. \A s, t : Alike(s, t)' <=> Alike(s, t)
  BY DEF Alike
<1>7. \A r, k, key : Bucket(r, k, key)' = Bucket(r, k, key)
  BY <1>3, <1>5 DEF Bucket
<1>8. \A r, k, key : Rest(r, k, key)' = Rest(r, k, key)
  BY <1>1, <1>7 DEF Rest
<1>9. \A r, docs : PairsIn(r, docs)' = PairsIn(r, docs)
  BY <1>4, <1>6 DEF PairsIn
<1>10. \A r, k, key : Merged(r, k, key)' = Merged(r, k, key)
  BY <1>1, <1>8, <1>9 DEF Merged
<1>11. \A r, k : BandPairs(r, k)' = BandPairs(r, k)
  BY <1>3, <1>5, <1>10 DEF BandPairs
<1> QED BY <1>3, <1>11

(* Every step keeps the bands that were compared joined.                    *)
LEMMA BandsStep ==
  ASSUME TypeInv, Stages, Idle, BandsDone, Next
  PROVE  BandsDone'
<1>1. /\ UNCHANGED setup /\ Ranks' = Ranks /\ size' = size /\ size \in Nat \ {0} /\ 0 \in Ranks
      /\ \A r \in Ranks : r \in Nat /\ r < size
      /\ pc \in [Ranks -> Phases] /\ todo \in [Ranks -> SUBSET Upper] /\ band \in [Ranks -> Nat]
      /\ unread \in SUBSET Ranks /\ Bands \in Nat
  BY StepCases, Static, SizeFacts, MpiAssumption DEF TypeInv
<1> DEFINE Done(r) ==
             /\ band[r] % size = r
             /\ \A k \in 0..(Bands - 1) : k % size = r /\ k < band[r] =>
                  Readable(r) = Docs /\ BandPairs(r, k) \subseteq joined \cup todo[r]
             /\ pc[r] = "barrier" => todo[r] = {} /\ band[r] >= Bands
<1>2. ASSUME \A r \in Ranks : pc'[r] \notin {"compare", "barrier"} PROVE BandsDone'
  BY <1>1, <1>2 DEF BandsDone
<1>3. CASE Gather
  <2>1. ASSUME NEW r \in Ranks PROVE Done(r)'
    <3>1. band'[r] = r /\ pc'[r] = "compare"
      BY <1>3 DEF Gather, compareVars, Idle, InHashPhase
    <3>2. r % size = r
      <4>1. r = size * 0 + r /\ r \in 0..(size - 1)
        BY <1>1
      <4> HIDE DEF size
      <4> QED BY <1>1, <4>1, Quotient
    <3>3. ASSUME NEW k \in 0..(Bands - 1), k % size = r, k < r PROVE FALSE
      <4>1. k \in Nat /\ k = size * 0 + k /\ k \in 0..(size - 1)
        BY <1>1, <3>3
      <4>2. k % size = k
        <5> HIDE DEF size
        <5> QED BY <1>1, <4>1, Quotient
      <4> QED BY <1>1, <3>3, <4>1, <4>2
    <3> QED BY <1>1, <3>1, <3>2, <3>3
  <2> QED BY <1>1, <2>1 DEF BandsDone
<1>4. CASE (\E r \in Ranks : HashFile(r) \/ Hashed(r) \/ DeleteHashResult(r)) \/ (CreateDirectory /\ 0 \in Ranks)
  <2>1. (\A r \in Ranks : pc[r] \in Early) \/ \A r \in Ranks : pc[r] \in Late
    BY <1>4 DEF HashFile, Hashed, CreateDirectory, DeleteHashResult, Stages, Early, Late
  <2>2. \A r \in Ranks : pc'[r] \in Early \cup Late
    BY <1>1, <1>4, <2>1 DEF HashFile, Hashed, CreateDirectory, DeleteHashResult, Goto, Early, Late
  <2> QED BY <1>2, <2>2 DEF Early, Late
<1>5. SUFFICES ASSUME UNCHANGED <<bins, hashes>>, NEW r \in Ranks, pc'[r] \in {"compare", "barrier"}, r \notin unread'
               PROVE  Done(r)'
  <2>1. UNCHANGED <<bins, hashes>> \/ Gather \/ (\E r \in Ranks : HashFile(r) \/ DeleteHashResult(r))
    <3> USE DEF hashVars
    <3>1. CreateDirectory \/ Broadcast => UNCHANGED <<bins, hashes>>
      BY DEF CreateDirectory, Broadcast
    <3>2. ASSUME NEW r \in Ranks, Hashed(r) \/ CompareBand(r) \/ MergePair(r) PROVE UNCHANGED <<bins, hashes>>
      BY <3>2 DEF Hashed, CompareBand, MergePair
    <3>3. ASSUME NEW r \in Ranks, FileMissing(r) \/ ReadFails(r) \/ Compared(r) \/ PassBarrier(r) PROVE UNCHANGED <<bins, hashes>>
      BY <3>3 DEF FileMissing, ReadFails, StopsReading, Compared, PassBarrier
    <3>4. ASSUME NEW r \in Ranks, Send(r) \/ SendReturns(r) \/ Receive(r) \/ ReceiveAborts(r) PROVE UNCHANGED <<bins, hashes>>
      BY <3>4 DEF Send, SendReturns, Receive, ReceiveAborts
    <3>5. ASSUME NEW r \in Ranks, LeaveTree(r) \/ GetBroadcast(r) \/ GenerateFiles(r)
          PROVE  UNCHANGED <<bins, hashes>>
      BY <3>5 DEF LeaveTree, GetBroadcast, GenerateFiles
    <3> QED BY <3>1, <3>2, <3>3, <3>4, <3>5, StepCases
  <2> QED BY <1>1, <1>3, <1>4, <2>1 DEF BandsDone
<1>6. \A k : Readable(r)' = Readable(r) /\ BandPairs(r, k)' = BandPairs(r, k)
  BY <1>1, <1>5, BandStatic
<1>7. ASSUME pc[r] \in {"compare", "barrier"}, r \notin unread, UNCHANGED <<band, unread, pc>>,
             joined \cup todo[r] \subseteq joined' \cup todo'[r], todo[r] = {} => todo'[r] = {}
      PROVE  Done(r)'
  <2>1. Done(r) /\ pc'[r] = pc[r] /\ band'[r] = band[r]
    BY <1>7 DEF BandsDone
  <2>2. ASSUME NEW k \in 0..(Bands - 1), k % size = r, k < band[r]
        PROVE  Readable(r)' = Docs /\ BandPairs(r, k)' \subseteq joined' \cup todo'[r]
    <3>1. Readable(r) = Docs /\ BandPairs(r, k) \subseteq joined \cup todo[r]
      BY <2>1, <2>2
    <3> QED BY <1>6, <1>7, <3>1
  <2> QED BY <1>1, <1>7, <2>1, <2>2
<1> USE <1>1, <1>5 DEF Goto, hashVars, compareVars, mergeVars, treeVars
<1>8. ASSUME NEW q \in Ranks, CompareBand(q) PROVE Done(r)'
  <2>1. pc[r] \in {"compare", "barrier"} /\ r \notin unread /\ joined' = joined /\ pc' = pc
    BY <1>8 DEF CompareBand
  <2>2. CASE q = r
    <3>1. /\ pc[r] = "compare" /\ todo[r] = {} /\ Readable(r) = Docs
          /\ todo'[r] = BandPairs(r, band[r]) /\ band'[r] = band[r] + size
      BY <1>8, <2>2 DEF CompareBand
    <3>2. band[r] % size = r /\ band[r] \in Nat
      BY <2>1 DEF BandsDone
    <3>3. band'[r] % size = r
      BY <3>1, <3>2, NextBand
    <3>4. ASSUME NEW k \in 0..(Bands - 1), k % size = r, k < band'[r]
          PROVE  Readable(r)' = Docs /\ BandPairs(r, k)' \subseteq joined' \cup todo'[r]
      <4>1. k < band[r] \/ k = band[r]
        BY <3>1, <3>2, <3>4, NextBand
      <4>2. CASE k < band[r]
        <5>1. BandPairs(r, k) \subseteq joined \cup todo[r]
          BY <2>1, <3>4, <4>2 DEF BandsDone
        <5> QED BY <1>6, <2>1, <3>1, <5>1
      <4>3. CASE k = band[r]
        BY <1>6, <2>1, <3>1, <4>3
      <4> QED BY <4>1, <4>2, <4>3
    <3> QED BY <2>1, <3>1, <3>3, <3>4
  <2>3. CASE q # r
    <3>1. band'[r] = band[r] /\ todo'[r] = todo[r]
      BY <1>8, <2>3 DEF CompareBand
    <3> QED BY <1>6, <2>1, <3>1 DEF BandsDone
  <2> QED BY <2>2, <2>3
<1>9. ASSUME NEW q \in Ranks, MergePair(q) PROVE Done(r)'
  BY <1>7, <1>9 DEF MergePair
<1>10. ASSUME NEW q \in Ranks, FileMissing(q) \/ ReadFails(q) PROVE Done(r)'
  <2>1. /\ q # r /\ pc[r] \in {"compare", "barrier"} /\ r \notin unread
        /\ band' = band /\ todo'[r] = todo[r] /\ pc'[r] = pc[r] /\ joined' = joined
    BY <1>10 DEF FileMissing, ReadFails, StopsReading
  <2> QED BY <1>6, <2>1 DEF BandsDone
<1>11. ASSUME NEW q \in Ranks, Compared(q) PROVE Done(r)'
  <2>1. /\ pc[r] \in {"compare", "barrier"} /\ r \notin unread /\ UNCHANGED <<band, todo, joined>>
        /\ pc'[r] = pc[r] \/ (todo[r] = {} /\ band[r] >= Bands)
    BY <1>11 DEF Compared
  <2> QED BY <1>6, <2>1 DEF BandsDone
<1>12. ASSUME UNCHANGED <<joined, compareVars>>, pc'[r] = pc[r] PROVE Done(r)'
  BY <1>6, <1>12 DEF BandsDone
<1>13. ASSUME NEW q \in Ranks, PassBarrier(q) \/ Send(q) \/ SendReturns(q) \/ ReceiveAborts(q) PROVE Done(r)'
  BY <1>12, <1>13 DEF PassBarrier, Send, SendReturns, ReceiveAborts
<1>14. ASSUME NEW q \in Ranks, Receive(q) \/ LeaveTree(q) \/ GetBroadcast(q) \/ GenerateFiles(q) PROVE Done(r)'
  <2>1. UNCHANGED <<joined, compareVars>> /\ pc'[r] = pc[r]
    BY <1>14 DEF Receive, LeaveTree, GetBroadcast, GenerateFiles
  <2> QED BY <1>12, <2>1
<1>15. ASSUME Broadcast PROVE Done(r)'
  <2>1. UNCHANGED <<joined, compareVars>> /\ pc'[r] = pc[r]
    BY <1>15 DEF Broadcast
  <2> QED BY <1>12, <2>1
<1>16. BandsDone' => Done(r)'
  BY DEF BandsDone
<1> QED BY <1>3, <1>4, <1>8, <1>9, <1>10, <1>11, <1>13, <1>14, <1>15, <1>16, StepCases

-----------------------------------------------------------------------------
(* The output.  A rank that has finished has written the roots of its files, *)
(* and none of them has been removed that does not look like a hash file.    *)
OutputRight ==
  /\ \A d \in output : \E r \in Ranks :
       pc[r] = "finished" /\ OwnsFile(r, FileOf[d]) /\ par[r][d] = d
  /\ \A r \in Ranks : pc[r] = "finished" =>
       \A d \in Docs : OwnsFile(r, FileOf[d]) /\ par[r][d] = d =>
         d \in output \/ (Offload /\ FileOf[d] \in BinFiles)

(* Every step keeps the output what the forests say.                        *)
LEMMA OutputStep ==
  ASSUME TypeInv, Stages, OutputRight, Next, Running'
  PROVE  OutputRight'
<1>1. /\ UNCHANGED setup /\ Ranks' = Ranks /\ Offload' = Offload /\ 0 \in Ranks
      /\ pc \in [Ranks -> Phases] /\ par \in [Ranks -> Trees(Docs)] /\ output \in SUBSET Docs
      /\ \A q, f : OwnsFile(q, f)' <=> OwnsFile(q, f)
  BY StepCases, Static, SizeFacts, RowsStatic DEF TypeInv
<1>2. ASSUME output' = output,
             \A r \in Ranks : /\ pc[r] = "finished" => pc'[r] = "finished" /\ par'[r] = par[r]
                              /\ pc'[r] = "finished" => pc[r] = "finished"
      PROVE  OutputRight'
  <2>1. ASSUME NEW d \in output
        PROVE  \E r \in Ranks : pc'[r] = "finished" /\ OwnsFile(r, FileOf[d]) /\ par'[r][d] = d
    <3>1. PICK r \in Ranks : pc[r] = "finished" /\ OwnsFile(r, FileOf[d]) /\ par[r][d] = d
      BY DEF OutputRight
    <3> QED BY <1>2, <3>1
  <2>2. ASSUME NEW r \in Ranks, pc'[r] = "finished", NEW d \in Docs, OwnsFile(r, FileOf[d]), par'[r][d] = d
        PROVE  d \in output \/ (Offload /\ FileOf[d] \in BinFiles)
    BY <1>2, <2>2 DEF OutputRight
  <2> QED BY <1>1, <1>2, <2>1, <2>2 DEF OutputRight
<1> USE <1>1 DEF Goto, hashVars, compareVars, mergeVars, treeVars
<1>3. Gather \/ CreateDirectory \/ Broadcast => OutputRight'
  BY <1>2 DEF Gather, CreateDirectory, Broadcast
<1>4. ASSUME NEW r \in Ranks, HashFile(r) \/ Hashed(r) \/ CompareBand(r) PROVE OutputRight'
  BY <1>2, <1>4 DEF HashFile, Hashed, CompareBand
<1>5. ASSUME NEW r \in Ranks, FileMissing(r) \/ ReadFails(r) \/ Compared(r) \/ PassBarrier(r) PROVE OutputRight'
  BY <1>2, <1>5 DEF FileMissing, ReadFails, StopsReading, Compared, PassBarrier
<1>6. ASSUME NEW r \in Ranks, Send(r) \/ SendReturns(r) \/ LeaveTree(r) \/ GetBroadcast(r) PROVE OutputRight'
  BY <1>2, <1>6 DEF Send, SendReturns, LeaveTree, GetBroadcast, InTree
<1>7. ASSUME NEW r \in Ranks, MergePair(r) PROVE OutputRight'
  <2>1. (\E q : par' = [par EXCEPT ![r] = q]) /\ output' = output /\ pc' = pc /\ pc[r] = "compare"
    BY <1>7 DEF MergePair
  <2> QED BY <1>2, <2>1
<1>8. ASSUME NEW r \in Ranks, Receive(r) PROVE OutputRight'
  <2>1. (\E q : par' = [par EXCEPT ![r] = q]) /\ output' = output /\ pc' = pc /\ pc[r] = "merge"
    BY <1>8 DEF Receive, InTree
  <2> QED BY <1>2, <2>1
<1>9. \A r \in Ranks : ~ReceiveAborts(r)
  BY DEF ReceiveAborts, Running
<1>10. ASSUME NEW r \in Ranks, DeleteHashResult(r) PROVE OutputRight'
  <2>1. /\ \A q \in Ranks : (pc'[q] = "finished" <=> pc[q] = "finished") /\ par'[q] = par[q]
        /\ output' = IF Offload THEN {d \in output : FileOf[d] \notin BinFiles} ELSE output
    BY <1>10 DEF DeleteHashResult
  <2>2. ASSUME NEW d \in output'
        PROVE  \E q \in Ranks : pc'[q] = "finished" /\ OwnsFile(q, FileOf[d]) /\ par'[q][d] = d
    <3>1. d \in output
      BY <2>1
    <3>2. PICK q \in Ranks : pc[q] = "finished" /\ OwnsFile(q, FileOf[d]) /\ par[q][d] = d
      BY <3>1 DEF OutputRight
    <3> QED BY <2>1, <3>2
  <2>3. ASSUME NEW q \in Ranks, pc'[q] = "finished", NEW d \in Docs, OwnsFile(q, FileOf[d]), par'[q][d] = d
        PROVE  d \in output' \/ (Offload /\ FileOf[d] \in BinFiles)
    <3>1. d \in output \/ (Offload /\ FileOf[d] \in BinFiles)
      BY <2>1, <2>3 DEF OutputRight
    <3> QED BY <2>1, <3>1
  <2> QED BY <2>2, <2>3 DEF OutputRight
<1>11. ASSUME NEW r \in Ranks, GenerateFiles(r) PROVE OutputRight'
  <2>1. /\ pc' = [pc EXCEPT ![r] = "finished"] /\ par' = par
        /\ output' = output \cup {d \in Docs : OwnsFile(r, FileOf[d]) /\ par[r][d] = d}
    BY <1>11 DEF GenerateFiles, OwnsFile
  <2>2. ASSUME NEW d \in output'
        PROVE  \E q \in Ranks : pc'[q] = "finished" /\ OwnsFile(q, FileOf[d]) /\ par'[q][d] = d
    <3>1. CASE d \in output
      <4>1. PICK q \in Ranks : pc[q] = "finished" /\ OwnsFile(q, FileOf[d]) /\ par[q][d] = d
        BY <3>1 DEF OutputRight
      <4> QED BY <2>1, <4>1
    <3>2. CASE d \notin output
      BY <2>1, <3>2
    <3> QED BY <3>1, <3>2
  <2>3. ASSUME NEW q \in Ranks, pc'[q] = "finished", NEW d \in Docs, OwnsFile(q, FileOf[d]), par'[q][d] = d
        PROVE  d \in output' \/ (Offload /\ FileOf[d] \in BinFiles)
    BY <2>1, <2>3 DEF OutputRight
  <2> QED BY <2>2, <2>3 DEF OutputRight
<1> QED BY <1>3, <1>4, <1>5, <1>6, <1>7, <1>8, <1>9, <1>10, <1>11, StepCases

-----------------------------------------------------------------------------
(* The inductive invariant.  Once the program has aborted, nothing is said   *)
(* of its tree.                                                              *)
IInv ==
  /\ TypeInv /\ Stages /\ LevelBound /\ AbortSharesNothing /\ CastShared
  /\ Hashing /\ Idle /\ Unmerged /\ PairsFine /\ BandsDone
  /\ Running => Tree /\ Whole /\ OutputRight

(* The invariant holds at the start.                                        *)
LEMMA InitInv == Init => IInv
<1> SUFFICES ASSUME Init PROVE IInv
  OBVIOUS
<1>1. TypeInv /\ Stages /\ Tree /\ Whole /\ Hashing
  BY InitTyped, InitStages, InitTree, InitWhole, InitHashing
<1>2. size \in Nat \ {0} /\ 0 \in Ranks
  BY SizeFacts DEF Init
<1>3. LevelBound /\ AbortSharesNothing /\ CastShared
  BY <1>2 DEF Init, LevelBound, AbortSharesNothing, CastShared, Late
<1>4. Idle /\ Unmerged /\ PairsFine /\ BandsDone
  BY DEF Init, Idle, Unmerged, PairsFine, BandsDone, FirstBand, InHashPhase
<1>5. OutputRight
  BY DEF Init, OutputRight
<1> QED BY <1>1, <1>3, <1>4, <1>5 DEF IInv

(* Every step keeps it.                                                     *)
LEMMA InvStep ==
  ASSUME IInv, Next
  PROVE  IInv'
<1>1. TypeInv' /\ Stages'
  BY TypeStep, StagesStep DEF IInv
<1>2. Running /\ Tree
  BY OnlyRunning DEF IInv
<1>3. LevelBound' /\ AbortSharesNothing' /\ CastShared'
  BY <1>2, LevelStep, AbortStep, CastStep DEF IInv
<1>4. Hashing' /\ Idle' /\ Unmerged' /\ PairsFine' /\ BandsDone'
  BY HashingStep, IdleStep, UnmergedStep, PairsFineStep, BandsStep DEF IInv
<1>5. Running' => Tree' /\ Whole' /\ OutputRight'
  BY <1>2, TreeStep, WholeStep, OutputStep DEF IInv
<1> QED BY <1>1, <1>3, <1>4, <1>5 DEF IInv

(* So it always holds.                                                      *)
LEMMA Inductive == Spec => []IInv
<1>1. IInv /\ UNCHANGED vars => IInv'
  <2> SUFFICES ASSUME IInv, UNCHANGED vars PROVE IInv'
    OBVIOUS
  <2> USE DEF vars, hashVars, compareVars, mergeVars, treeVars
  <2>1. UNCHANGED setup /\ Ranks' = Ranks /\ size' = size /\ Offload' = Offload
    BY Static
  <2>2. TypeInv' /\ Stages'
    BY <2>1 DEF IInv, TypeInv, Stages
  <2>3. LevelBound' /\ AbortSharesNothing' /\ CastShared'
    BY <2>1 DEF IInv, LevelBound, AbortSharesNothing, CastShared
  <2>4. Hashing'
    <3>1. Rows' = Rows /\ (\A x, g : RowsRight(x, g)' <=> RowsRight(x, g)) /\ \A q, g : OwnsFile(q, g)' <=> OwnsFile(q, g)
      BY <2>1, RowsStatic
    <3>2. \A q : StartIndex(q)' = StartIndex(q) /\ EndIndex(q)' = EndIndex(q)
      BY Static
    <3> QED BY <2>1, <3>1, <3>2 DEF IInv, Hashing, InHashPhase
  <2>5. Idle' /\ Unmerged' /\ PairsFine'
    BY <2>1 DEF IInv, Idle, Unmerged, PairsFine, InHashPhase
  <2>6. BandsDone'
    BY <2>1, BandStatic DEF IInv, BandsDone
  <2>7. Running' => Tree' /\ Whole'
    BY <2>1 DEF IInv, Running, Tree, Whole, Span, Gone, Left, Held
  <2>8. Running' => OutputRight'
    <3>1. \A q, g : OwnsFile(q, g)' <=> OwnsFile(q, g)
      BY <2>1, RowsStatic
    <3> QED BY <2>1, <3>1 DEF IInv, Running, OutputRight
  <2> QED BY <2>2, <2>3, <2>4, <2>5, <2>6, <2>7, <2>8 DEF IInv
<1>2. IInv /\ [Next]_vars => IInv'
  BY <1>1, InvStep
<1> QED BY InitInv, <1>2, PTL DEF Spec

-----------------------------------------------------------------------------
(* What the invariant says of the properties.                                *)

(* After the broadcast all forests have the roots of the one broadcast, and  *)
(* join exactly the merged pairs.                                            *)
LEMMA SameSets ==
  ASSUME IInv, NEW r \in Ranks, pc[r] \in Late
  PROVE  /\ cast \in Trees(Docs) /\ par[r] \in Trees(Docs) /\ Joins(par[r], joined)
         /\ \A d \in Docs : Root(par[r], d) = Root(cast, d)
<1>1. 0 \in Ranks /\ TypeInv /\ pc[0] \in Late
  BY SizeFacts DEF IInv, TypeInv, Stages
<1>2. Running
  BY DEF IInv, Stages, Running, Late
<1>3. Tree /\ Whole /\ CastShared
  BY <1>2 DEF IInv
<1>4. ~Left(0) /\ mail[0] = Nothing /\ \A q \in Ranks : q # 0 => Left(q) /\ mail[q] = Nothing
  BY <1>1, <1>3, Alone DEF Away, Gone
<1>5. \A S \in SUBSET Docs : Closed(joined, S) <=> Respects(par[0], S)
  BY <1>1, <1>3, <1>4 DEF Whole, Held
<1>6. /\ cast \in Trees(Docs) /\ par[0] = [d \in Docs |-> Root(cast, d)] /\ par[r] \in {par[0], cast}
  BY <1>1, <1>3 DEF CastShared
<1>7. /\ par[0] \in Trees(Docs) /\ \A d \in Docs : Root(par[0], d) = Root(cast, d)
      /\ \A S : Respects(par[0], S) <=> Respects(cast, S)
  BY <1>6, RootsTree
<1>8. DOMAIN par[r] = Docs
  BY <1>6, <1>7 DEF Trees
<1> QED BY <1>5, <1>6, <1>7, <1>8 DEF Joins

(* What it says of each property follows.                                   *)
LEMMA InvTyped == IInv => TypeOK
<1> SUFFICES ASSUME IInv PROVE TypeOK
  OBVIOUS
<1>1. TypeInv /\ LevelBound
  BY DEF IInv
<1>2. size \in Nat /\ \A r \in Ranks : level[r] \in Nat \ {0}
  BY <1>1, SizeFacts, LevelFacts DEF TypeInv
<1>3. \A r \in Ranks : level[r] \in 1..(2 * size)
  <2> HIDE DEF size
  <2> QED BY <1>1, <1>2 DEF LevelBound
<1>4. pc \in [Ranks -> {"create", "hash", "gather", "compare", "barrier", "merge", "sending",
                        "bcast", "barrier2", "write", "finished", "aborted"}]
  BY <1>1 DEF TypeInv, Phases
<1> QED BY <1>1, <1>3, <1>4 DEF TypeInv, TypeOK, Upper, Trees

(* Gathered rows are right.                                                 *)
LEMMA InvGathered == IInv => GatheredRight
<1> SUFFICES ASSUME IInv, NEW r \in Ranks, ~InHashPhase(r), NEW f \in Files \ unwritten
             PROVE  /\ sizes[r][f] = Cardinality(Lines(f))
                    /\ ~Offload => \A l \in Lines(f) : DocAt(f, l) \notin Short => hashes[r][f][l].text = DocAt(f, l)
  BY DEF GatheredRight
<1> QED BY DEF IInv, Hashing, RowsRight

(* Trees are the components of the joined pairs.                            *)
LEMMA InvMerged == IInv => MergedExactly
<1> SUFFICES ASSUME IInv, NEW r \in Ranks, pc[r] \in Late, NEW d \in Docs
             PROVE  {e \in Docs : Together(par[r], d, e)} = Linked(Docs, joined, d)
  BY DEF MergedExactly, Late
<1>1. par[r] \in [Docs -> Docs] /\ Acyclic(par[r]) /\ Joins(par[r], joined)
  BY SameSets DEF Trees
<1> QED BY <1>1, JoinsLinked

(* One document of each component is written.                               *)
LEMMA InvKept == IInv => OneOfEachKept
<1> SUFFICES ASSUME IInv, \A r \in Ranks : pc[r] = "finished", NEW d \in Docs
             PROVE  LET group == Linked(Docs, joined, d)
                    IN  \/ Cardinality(output \cap group) = 1
                        \/ output \cap group = {} /\ Offload /\ \E e \in group : FileOf[e] \in BinFiles
  BY DEF OneOfEachKept
<1> DEFINE group == Linked(Docs, joined, d)
           c == Root(cast, d)
<1>1. setup \in Setups /\ 0 \in Ranks
  BY SizeFacts DEF IInv, TypeInv
<1>2. OutputRight
  BY DEF IInv, Running
<1>3. \A r \in Ranks : /\ cast \in Trees(Docs) /\ par[r] \in Trees(Docs) /\ Joins(par[r], joined)
                       /\ \A e \in Docs : Root(par[r], e) = Root(cast, e)
  BY SameSets DEF Late
<1>4. cast \in [Docs -> Docs] /\ Acyclic(cast)
  BY <1>1, <1>3 DEF Trees
<1>5. c \in Docs /\ Root(cast, c) = c
  BY <1>4, RootFacts
<1>6. ASSUME NEW r \in Ranks, NEW e \in Docs PROVE par[r][e] = e <=> Root(cast, e) = e
  <2>1. par[r] \in [Docs -> Docs] /\ Acyclic(par[r])
    BY <1>3 DEF Trees
  <2> QED BY <1>3, <2>1, RootFacts
<1>7. group = {e \in Docs : Root(cast, e) = c}
  <2>1. par[0] \in [Docs -> Docs] /\ Acyclic(par[0]) /\ Joins(par[0], joined)
    BY <1>1, <1>3 DEF Trees
  <2>2. {e \in Docs : Together(par[0], d, e)} = group
    BY <2>1, JoinsLinked
  <2> QED BY <1>1, <1>3, <2>2 DEF Together
<1>8. output \cap group \subseteq {c}
  <2> SUFFICES ASSUME NEW e \in output, e \in group PROVE e = c
    OBVIOUS
  <2>1. PICK r \in Ranks : par[r][e] = e
    BY <1>2 DEF OutputRight
  <2> QED BY <1>6, <1>7, <2>1
<1>9. c \in output \/ (Offload /\ FileOf[c] \in BinFiles)
  <2>1. PICK r \in Ranks : OwnsFile(r, FileOf[c])
    BY <1>1, <1>5, FileOwner, DocsAre
  <2>2. par[r][c] = c
    BY <1>5, <1>6
  <2> QED BY <1>2, <1>5, <2>1, <2>2 DEF OutputRight
<1>10. c \in group
  BY <1>5, <1>7
<1> HIDE DEF group, c
<1>11. CASE c \in output
  <2>1. output \cap group = {c}
    BY <1>8, <1>10, <1>11
  <2> QED BY <2>1, FS_Singleton DEF group
<1>12. CASE c \notin output
  BY <1>8, <1>9, <1>10, <1>12 DEF group
<1> QED BY <1>11, <1>12

(* A bucket that was never full is compared as a whole.                      *)
LEMMA WholeBucket ==
  ASSUME setup \in Setups, NEW r \in Ranks, NEW k, NEW key,
         ~(Cardinality(Bucket(r, k, key)) >= MaxBucket(r))
  PROVE  Rest(r, k, key) = Bucket(r, k, key)
<1> DEFINE docs == Bucket(r, k, key)
           most == MaxBucket(r)
           n == Cardinality(docs)
<1>1. Len(FileOf) \in Nat /\ docs \in SUBSET (1..Len(FileOf))
  BY DocsAre DEF Bucket, Readable
<1>2. n \in Nat /\ \A x : Cardinality(UpToIn(docs, x)) \in Nat
  BY <1>1, CountUpTo
<1>3. \A d \in docs : Cardinality(UpToIn(docs, d)) \in 1..n
  BY <1>1, Numbering
<1>4. most \in Nat \ {0} /\ n < most
  <2>1. most \in Nat \ {0}
    BY SizeFacts
  <2> HIDE DEF most, docs
  <2> QED BY <1>2, <2>1 DEF most, docs
<1>5. Rest(r, k, key) = {d \in docs : Cardinality(UpToIn(docs, d)) > (n \div most) * most}
  BY DEF Rest, UpToIn
<1> HIDE DEF docs, most, n
<1>6. n \div most = 0
  <2>1. n = most * 0 + n /\ n \in 0..(most - 1)
    BY <1>2, <1>4
  <2> QED BY <1>2, <1>4, <2>1, Quotient
<1>7. (n \div most) * most = 0
  BY <1>4, <1>6
<1>8. \A d \in docs : Cardinality(UpToIn(docs, d)) > (n \div most) * most
  BY <1>2, <1>3, <1>7
<1> QED BY <1>5, <1>8 DEF docs

(* No pair of a band that was compared is missing.                          *)
LEMMA InvPairs == IInv => EveryPairJoined
<1> SUFFICES ASSUME IInv, unread = {}, \A r \in Ranks : pc[r] = "barrier", \A r \in Ranks : NumKey(r) = NumKey(0),
                    NEW p \in Similar, p[1] \notin Short, p[2] \notin Short,
                    NEW k \in 0..(Bands - 1), Key(k % size, k, p[1]) = Key(k % size, k, p[2]),
                    ~Crowded(k % size, k, p)
             PROVE  p \in joined
  BY DEF EveryPairJoined
<1>1. setup \in Setups /\ size \in Nat \ {0} /\ TypeInv /\ Hashing /\ BandsDone
  BY SizeFacts DEF IInv, TypeInv
<1>2. PICK r \in Ranks : r = k % size
  <2>1. k % size \in 0..(size - 1)
    BY <1>1, Divide
  <2> QED BY <2>1 DEF Ranks
<1>3. pc[r] = "barrier" /\ ~InHashPhase(r) /\ r \notin unread
  BY DEF InHashPhase
<1>4. k \in Nat /\ Bands \in Nat /\ k < Bands
  BY MpiAssumption
<1>5. todo[r] = {} /\ k < band[r]
  <2>1. todo[r] = {} /\ band[r] >= Bands /\ band[r] \in Nat
    BY <1>1, <1>3 DEF BandsDone, TypeInv
  <2> QED BY <1>4, <2>1
<1>6. Readable(r) = Docs /\ BandPairs(r, k) \subseteq joined
  <2>1. Readable(r) = Docs /\ BandPairs(r, k) \subseteq joined \cup todo[r]
    BY <1>1, <1>2, <1>3, <1>5 DEF BandsDone
  <2> QED BY <1>5, <2>1
<1>7. p \in Docs \X Docs /\ p[1] \in Docs /\ p[2] \in Docs /\ p[1] < p[2] /\ p = <<p[1], p[2]>>
  BY MpiAssumption
<1>8. PICK key : key = Key(r, k, p[1])
  OBVIOUS
<1>9. Key(r, k, p[2]) = key /\ ~Crowded(r, k, p)
  BY <1>2, <1>8
<1>10. p[1] \in Bucket(r, k, key) /\ p[2] \in Bucket(r, k, key)
  BY <1>6, <1>7, <1>8, <1>9 DEF Bucket
<1>11. /\ ~(Cardinality(Bucket(r, k, key)) >= MaxBucket(r))
       /\ ~(Cardinality(PairsIn(r, Rest(r, k, key))) > MaxBucket(r) * EdgeLimit)
  BY <1>8, <1>9 DEF Crowded
<1>12. Row(r, p[1]).text = p[1] /\ Row(r, p[2]).text = p[2]
  BY <1>1, <1>3, <1>6, <1>7, RowRight
<1>13. p \in PairsIn(r, Rest(r, k, key))
  <2>1. Rest(r, k, key) = Bucket(r, k, key)
    BY <1>1, <1>11, WholeBucket
  <2>2. Alike(p[1], p[2])
    BY <1>7 DEF Alike
  <2>3. p \in Bucket(r, k, key) \X Bucket(r, k, key)
    BY <1>7, <1>10
  <2> QED BY <1>7, <1>12, <2>1, <2>2, <2>3 DEF PairsIn
<1>14. p \in Merged(r, k, key)
  BY <1>11, <1>13 DEF Merged
<1>15. key \in KeysOf(r)
  <2> DEFINE n == NumKey(r)
             a == n + Chunk - 1
  <2>1. Row(r, p[1]) \in [text : Texts, mod : {NumKey(q) : q \in Ranks}]
    BY <1>1, <1>3, <1>6, <1>7, RowRight
  <2>2. Row(r, p[1]).mod = n /\ Row(r, p[1]).text \in Texts /\ n \in Nat \ {0} /\ Chunk \in Nat \ {0}
    BY <1>1, <2>1, SizeFacts, MpiAssumption
  <2>3. SumOf[k][Row(r, p[1]).text] \in Nat
    BY <1>4, <2>2, MpiAssumption
  <2>4. key \in 0..(n - 1)
    BY <1>8, <2>2, <2>3, Divide DEF Key
  <2>5. a \in Nat /\ n = a - Chunk + 1
    BY <2>2
  <2> HIDE DEF a, n
  <2>6. a \div Chunk \in Nat /\ a % Chunk \in 0..(Chunk - 1) /\ a = Chunk * (a \div Chunk) + (a % Chunk)
    BY <2>2, <2>5, Divide
  <2>7. n <= (a \div Chunk) * Chunk /\ (a \div Chunk) * Chunk \in Nat
    <3>1. Chunk * (a \div Chunk) = (a \div Chunk) * Chunk /\ Chunk * (a \div Chunk) \in Nat
      BY <2>2, <2>6
    <3> QED BY <2>2, <2>5, <2>6, <3>1
  <2>8. key \in 0..((a \div Chunk) * Chunk - 1)
    BY <2>2, <2>4, <2>7
  <2> QED BY <2>8 DEF KeysOf, a, n
<1>16. key \in {Key(r, k, d) : d \in Readable(r)}
  BY <1>6, <1>7, <1>8
<1> QED BY <1>6, <1>14, <1>15, <1>16 DEF BandPairs

-----------------------------------------------------------------------------
(* Type correctness: every array sent, received or broadcast maps documents  *)
(* to documents, and no rank's level passes twice the number of ranks.       *)
THEOREM TypeCorrect == Spec => []TypeOK
<1>1. IInv => TypeOK
  BY InvTyped
<1> QED BY <1>1, Inductive, PTL

(* After AllgatherFileSize and AllgatherHashResult every rank knows the      *)
(* length of every file that was hashed, and in memory has its rows in their *)
(* place, however the files are dealt to the ranks.                          *)
THEOREM PlacedRight == Spec => []GatheredRight
<1>1. IInv => GatheredRight
  BY InvGathered
<1> QED BY <1>1, Inductive, PTL

(* compare_lsh_cuda merges no documents that are not similar, unless one of  *)
(* them was too short to be hashed.                                          *)
THEOREM MergesAlike == Spec => []JoinedAlike
<1>1. IInv => JoinedAlike
  BY DEF IInv, PairsFine, Fine, JoinedAlike
<1> QED BY <1>1, Inductive, PTL

(* A hash file that lsh_cuda could not open ends every comparison before its *)
(* first merge.                                                              *)
THEOREM NeverInPart == Spec => []AllOrNothing
<1>1. IInv => AllOrNothing
  BY DEF IInv, Unmerged, AllOrNothing
<1> QED BY <1>1, Inductive, PTL

(* root() returns, for every rank and after any order of merges and messages. *)
THEOREM NoCycle == Spec => []Forests
<1>1. IInv => Forests
  BY DEF IInv, TypeInv, Trees, Forests
<1> QED BY <1>1, Inductive, PTL

(* merge_union and the broadcast lose no link and make none up, for any      *)
(* number of ranks that does not abort them.                                 *)
THEOREM TreeIsExact == Spec => []MergedExactly
<1>1. IInv => MergedExactly
  BY InvMerged
<1> QED BY <1>1, Inductive, PTL

(* generate_file keeps exactly one document of every group of duplicates,    *)
(* whichever ranks write its members; only delete_hash_result can remove it. *)
THEOREM OneKept == Spec => []OneOfEachKept
<1>1. IInv => OneOfEachKept
  BY InvKept
<1> QED BY <1>1, Inductive, PTL

(* The ranks' bands together cover every pair of similar documents with a    *)
(* common key, unless its buckets were filled up or have too many pairs.     *)
THEOREM NoPairMissed == Spec => []EveryPairJoined
<1>1. IInv => EveryPairJoined
  BY InvPairs
<1> QED BY <1>1, Inductive, PTL

(* merge_union aborts before anything has been broadcast or written.         *)
THEOREM AbortsUnshared == Spec => []AbortSharesNothing
<1>1. IInv => AbortSharesNothing
  BY DEF IInv
<1> QED BY <1>1, Inductive, PTL
=============================================================================
