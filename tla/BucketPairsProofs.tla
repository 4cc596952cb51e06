------------------------- MODULE BucketPairsProofs -------------------------
(* Theorems about BucketPairs: the comparison kernels and the reductions,   *)
(* for every size of block, number of hash values, parts and bucket.        *)
EXTENDS BucketPairs, ForestProofs, FiniteSetTheorems

-----------------------------------------------------------------------------
(* Arithmetic of tiles and blocks                                           *)

(* Documents and hash values in steps of a block.                           *)
LEMMA Division ==
  ASSUME NEW n \in Nat
  PROVE  /\ n \div Edge \in Nat /\ n % Edge \in Lanes
         /\ n = Edge * (n \div Edge) + (n % Edge)
  BY TileAssumption DEF Lanes

(* A document is the lane of its block.                                     *)
LEMMA PartsOf ==
  ASSUME NEW n \in Nat
  PROVE  DocOf(n \div Edge, n % Edge) = n
<1>1. \A a, l \in Int : DocOf(a, l) = Edge * a + l
  BY TileAssumption DEF DocOf
<1>2. n \div Edge \in Int /\ n % Edge \in Int
  BY TileAssumption
<1> QED BY <1>1, <1>2, Division

(* The block of a document is the one it is found in.                       *)
LEMMA BlockOf ==
  ASSUME NEW b \in Nat, NEW l \in Lanes
  PROVE  DocOf(b, l) \in Nat /\ DocOf(b, l) \div Edge = b
  BY TileAssumption, Z3 DEF DocOf, Lanes

(* The documents of a block come before those of the next.                  *)
LEMMA BlockOrder ==
  ASSUME NEW a \in Nat, NEW b \in Nat, a < b
  PROVE  Edge * (a + 1) <= Edge * b
  BY TileAssumption

(* The documents of a block come before those of a later one.               *)
LEMMA LaneOrder ==
  ASSUME NEW a \in Nat, NEW b \in Nat, a < b, NEW k \in Lanes, NEW l \in Lanes
  PROVE  DocOf(a, k) < DocOf(b, l)
<1>1. Edge * (a + 1) <= Edge * b
  BY BlockOrder
<1>2. Edge * (a + 1) = Edge * a + Edge /\ Edge * a = a * Edge /\ Edge * b = b * Edge
  BY TileAssumption
<1>3. Edge * a \in Nat /\ Edge * b \in Nat /\ Edge \in Nat /\ k < Edge
  BY TileAssumption DEF Lanes
<1> QED BY <1>1, <1>2, <1>3 DEF DocOf, Lanes

(* Tiles fill the signature.                                                *)
LEMMA NextTile ==
  ASSUME NEW a \in Nat, a % Edge = 0, a < NumHash
  PROVE  a + Edge <= NumHash /\ (a + Edge) % Edge = 0
<1> DEFINE k == a \div Edge
           q == NumHash \div Edge
<1>1. k \in Nat /\ q \in Nat /\ a = Edge * k /\ NumHash = Edge * q
  BY Division, TileAssumption
<1>2. k < q
  BY <1>1, TileAssumption
<1>3. Edge * (k + 1) <= Edge * q /\ Edge * (k + 1) = Edge * k + Edge
  BY <1>1, <1>2, BlockOrder, TileAssumption
<1>4. (Edge * (k + 1)) % Edge = 0
  BY <1>1, TileAssumption
<1> QED BY <1>1, <1>3, <1>4

(* The blocks cover the documents.                                          *)
LEMMA BlocksCover ==
  ASSUME NEW n \in Nat \ {0}
  PROVE  /\ (n + Edge - 1) \div Edge \in Nat \ {0}
         /\ \A d \in 0..(n - 1) : d \div Edge \in 0..((n + Edge - 1) \div Edge - 1)
  BY TileAssumption

(* What two signatures agree on grows tile by tile.                         *)
Same(f, g, n) == {h \in 0..(n - 1) : f[h] = g[h]}
SameTile(f, g, n) == {k \in Lanes : f[n + k] = g[n + k]}

(* The next tile adds what the signatures agree on in it.                   *)
LEMMA SameMore ==
  ASSUME NEW f, NEW g, NEW n \in Nat
  PROVE  Cardinality(Same(f, g, n + Edge)) =
           Cardinality(Same(f, g, n)) + Cardinality(SameTile(f, g, n))
<1> DEFINE A == Same(f, g, n)
           B == {h \in n..(n + Edge - 1) : f[h] = g[h]}
           K == SameTile(f, g, n)
           m == [k \in K |-> n + k]
<1>1. IsFiniteSet(A) /\ IsFiniteSet(B) /\ IsFiniteSet(K)
  <2>1. IsFiniteSet(0..(n - 1)) /\ IsFiniteSet(n..(n + Edge - 1)) /\ IsFiniteSet(Lanes)
    BY FS_Interval, TileAssumption DEF Lanes
  <2>2. A \subseteq 0..(n - 1) /\ B \subseteq n..(n + Edge - 1) /\ K \subseteq Lanes
    BY DEF Same, SameTile
  <2> QED BY <2>1, <2>2, FS_Subset
<1>2. Same(f, g, n + Edge) = A \cup B /\ A \cap B = {}
  BY TileAssumption DEF Same
<1>3. Cardinality(A \cup B) = Cardinality(A) + Cardinality(B)
  <2> HIDE DEF A, B
  <2>1. Cardinality(A \cup B) = Cardinality(A) + Cardinality(B) - Cardinality(A \cap B)
    BY <1>1, FS_Union
  <2>2. Cardinality(A \cap B) = 0
    BY <1>2, FS_EmptySet
  <2>3. Cardinality(A) \in Nat /\ Cardinality(B) \in Nat
    BY <1>1, FS_CardinalityType
  <2> QED BY <2>1, <2>2, <2>3
<1>4. Cardinality(B) = Cardinality(K)
  <2>1. m \in [K -> B] /\ \A k, l \in K : m[k] = m[l] => k = l
    BY TileAssumption DEF Lanes, SameTile
  <2>2. \A h \in B : h - n \in K /\ m[h - n] = h
    BY TileAssumption DEF Lanes, SameTile
  <2>3. m \in Bijection(K, B)
    BY <2>1, <2>2 DEF Bijection, Injection, Surjection, IsInjective
  <2> QED BY <1>1, <2>3, FS_Bijection DEF ExistsBijection
<1> QED BY <1>2, <1>3, <1>4

-----------------------------------------------------------------------------
(* The kernels.  The threads of a block are in the same round; the cells a  *)
(* thread has loaded hold values of the tile of this round, whose loading   *)
(* no thread starts before all have compared the last; and a counter counts *)
(* the values below this tile.                                              *)

CellType == Nat \cup {Garbage}
Grid == (0..(Blocks - 1)) \X (0..(Blocks - 1))

KernelTypes ==
  /\ kernel \in {"lsh", "similarity"} /\ sig \in Inputs /\ grid \in Grid
  /\ pc \in [Threads -> {"load", "loaded", "compare", "compared", "write", "returned"}]
  /\ t1 \in [Threads -> CellType] /\ t2 \in [Threads -> CellType]
  /\ cnt \in [Threads -> Nat]
  /\ matrix \in [Docs \X Docs -> Nat]
  /\ tile \in 0..NumHash /\ tile % Edge = 0

(* A thread that has returned while others load or compare returned before  *)
(* the first load.                                                          *)
Rounds ==
  /\ \A t, u \in Threads :
       /\ pc[t] \in {"load", "loaded"} => pc[u] \in {"load", "loaded", "returned"}
       /\ pc[t] \in {"compare", "compared"} => pc[u] \in {"compare", "compared", "returned"}
       /\ pc[t] = "write" => pc[u] \in {"write", "returned"}
       /\ pc[t] \notin {"write", "returned"} /\ pc[u] = "returned" => Returns(grid, u)
  /\ \A t \in Threads :
       /\ pc[t] \notin {"write", "returned"} => tile < NumHash
       /\ pc[t] = "write" => tile = NumHash
       /\ Returns(grid, t) => pc[t] = "returned"

Upto(t) == IF pc[t] = "compared" THEN tile + Edge ELSE tile
Bounded == \A t \in Threads : cnt[t] <= Upto(t) /\ (pc[t] = "returned" => cnt[t] = 0)

(* The thread that loads a cell of a tile, and the cell a thread loads      *)
Loader1(c) == IF kernel = "lsh" THEN <<c[2], c[1]>> ELSE c
Loader2(c) == <<c[2], c[1]>>
HasLoaded(t) == pc[t] \in {"loaded", "compare", "compared"}
Loaded ==
  \A c \in Threads :
    /\ HasLoaded(Loader1(c)) /\ DocOf(grid[1], c[1]) \in Docs =>
         t1[c] = sig[DocOf(grid[1], c[1])][tile + c[2]]
    /\ HasLoaded(Loader2(c)) /\ DocOf(grid[2], c[1]) \in Docs =>
         t2[c] = sig[DocOf(grid[2], c[1])][tile + c[2]]

(* The cells are all loaded unless a thread of the similarity kernel has    *)
(* returned early.                                                          *)
Whole == kernel = "lsh" \/ \A t \in Threads : ~Returns(grid, t)
AgreeBelow(i, j, n) == Same(sig[i], sig[j], n)
Counted ==
  Whole => \A t \in Threads :
    pc[t] # "returned" /\ DocI(t) \in Docs /\ DocJ(t) \in Docs =>
      cnt[t] = Cardinality(AgreeBelow(DocI(t), DocJ(t), Upto(t)))

(* The cell of a pair whose thread has ended is what it should be.          *)
Judged(p) ==
  /\ kernel = "lsh" => matrix[p] = IF Agree(p[1], p[2]) > Th THEN 1 ELSE 0
  /\ kernel = "similarity" /\ WholeBlock(p) => matrix[p] = Agree(p[1], p[2])
Before(b) == b[2] < grid[2] \/ (b[2] = grid[2] /\ b[1] < grid[1])
PairOf(b, t) == <<DocOf(b[1], t[1]), DocOf(b[2], t[2])>>
AllJudged ==
  \A b \in Grid, t \in Threads :
    /\ PairOf(b, t) \in Docs \X Docs /\ PairOf(b, t)[1] < PairOf(b, t)[2]
    /\ Before(b) \/ (b = grid /\ pc[t] = "returned")
    => Judged(PairOf(b, t))
LowerClear == \A p \in Docs \X Docs : p[1] >= p[2] => matrix[p] = 0

KInv == KernelTypes /\ Rounds /\ Bounded /\ Loaded /\ Counted /\ AllJudged /\ LowerClear

-----------------------------------------------------------------------------
(* What is in a bucket                                                      *)

(* A bucket has documents, each with a whole signature.                     *)
LEMMA Bucket ==
  ASSUME sig \in Inputs
  PROVE  /\ NumDocs \in Nat \ {0} /\ sig \in [Docs -> [0..(NumHash - 1) -> Nat]]
         /\ Blocks \in Nat \ {0} /\ Edge \in Nat \ {0} /\ NumHash \in Nat \ {0}
         /\ \A d \in Docs : d \div Edge \in 0..(Blocks - 1)
<1>1. IsFiniteSet(DOMAIN sig) /\ DOMAIN sig # {} /\ sig \in [Docs -> [0..(NumHash - 1) -> Nat]]
  BY TileAssumption DEF Docs, NumDocs
<1>2. NumDocs \in Nat \ {0}
  BY <1>1, FS_CardinalityType, FS_EmptySet DEF NumDocs
<1> QED BY <1>1, <1>2, BlocksCover, TileAssumption DEF Blocks, Docs

(* A thread is a pair of lanes, and each cell of a tile has its thread.     *)
LEMMA Pairs ==
  ASSUME NEW c \in Threads
  PROVE  /\ c = <<c[1], c[2]>> /\ c[1] \in Lanes /\ c[2] \in Lanes
         /\ Loader1(c) \in Threads /\ Loader2(c) \in Threads
         /\ Loader1(Loader1(c)) = c /\ Loader2(Loader2(c)) = c
  BY DEF Threads, Loader1, Loader2

(* Every thread of a block that compares other documents with later ones    *)
(* goes on.                                                                 *)
LEMMA Goes ==
  ASSUME KernelTypes, NEW b \in Grid, NEW t \in Threads,
         PairOf(b, t) \in Docs \X Docs, PairOf(b, t)[1] < PairOf(b, t)[2]
  PROVE  ~Returns(b, t)
<1>1. b[1] \in Nat /\ b[2] \in Nat /\ t[1] \in Lanes /\ t[2] \in Lanes
  BY DEF Grid, Threads
<1>2. DocOf(b[1], t[1]) \in Nat /\ DocOf(b[2], t[2]) \in Nat
  BY <1>1, BlockOf
<1>3. ~(b[2] < b[1])
  BY <1>1, <1>2, LaneOrder DEF PairOf
<1> QED BY <1>2, <1>3, Bucket DEF Returns, PairOf, KernelTypes, Docs

(* In a whole block above the diagonal every thread goes on.                *)
LEMMA WholeBlocksGo ==
  ASSUME KernelTypes, NEW b \in Grid, NEW t \in Threads,
         PairOf(b, t) \in Docs \X Docs, WholeBlock(PairOf(b, t)), kernel = "similarity",
         NEW u \in Threads
  PROVE  ~Returns(b, u)
<1>1. /\ b[1] \in Nat /\ b[2] \in Nat /\ t[1] \in Lanes /\ t[2] \in Lanes
      /\ u[1] \in Lanes /\ u[2] \in Lanes
  BY DEF Grid, Threads
<1>2. b[1] < b[2] /\ Edge * (b[2] + 1) <= NumDocs
  BY <1>1, BlockOf DEF WholeBlock, PairOf
<1>3. DocOf(b[1], u[1]) < DocOf(b[2], u[2])
  BY <1>1, <1>2, LaneOrder
<1>4. DocOf(b[2], u[2]) < Edge * (b[2] + 1)
  BY <1>1, TileAssumption DEF DocOf, Lanes
<1>5. NumDocs \in Nat /\ DocOf(b[1], u[1]) \in Nat /\ DocOf(b[2], u[2]) \in Nat
  BY <1>1, BlockOf, Bucket DEF KernelTypes
<1>6. Edge * (b[2] + 1) \in Nat
  BY <1>1, TileAssumption
<1> QED BY <1>2, <1>3, <1>4, <1>5, <1>6 DEF Returns
(* A block is launched.                                                     *)
Fresh ==
  /\ pc = Launched(grid) /\ tile = 0 /\ t1 = Unset /\ t2 = Unset
  /\ cnt = [t \in Threads |-> 0]
BeforeJudged ==
  \A b \in Grid, t \in Threads :
    PairOf(b, t) \in Docs \X Docs /\ PairOf(b, t)[1] < PairOf(b, t)[2] /\ Before(b)
      => Judged(PairOf(b, t))

(* Its threads have counted nothing, and those that return at once have no  *)
(* pair to judge.                                                           *)
LEMMA LaunchedRounds == KernelTypes /\ Fresh /\ BeforeJudged /\ LowerClear => KInv
<1> SUFFICES ASSUME KernelTypes, Fresh, BeforeJudged, LowerClear PROVE KInv
  OBVIOUS
<1> USE DEF Fresh
<1>1. \A t \in Threads : pc[t] = IF Returns(grid, t) THEN "returned" ELSE "load"
  BY DEF Launched
<1>2. Rounds
  BY <1>1, TileAssumption DEF Rounds
<1>3. Bounded
  BY <1>1 DEF Bounded, Upto
<1>4. Loaded
  BY <1>1, Pairs DEF Loaded, HasLoaded
<1>5. Counted
  <2>1. \A i, j : AgreeBelow(i, j, 0) = {}
    BY DEF AgreeBelow, Same
  <2> QED BY <1>1, <2>1, FS_EmptySet DEF Counted, Upto
<1>6. AllJudged
  BY <1>1, Goes DEF AllJudged, BeforeJudged, KernelTypes
<1> QED BY <1>2, <1>3, <1>4, <1>5, <1>6 DEF KInv

(* The first block.                                                         *)
LEMMA KernelStarts == KernelInit => KInv
<1> SUFFICES ASSUME KernelInit PROVE KInv
  OBVIOUS
<1>1. KernelTypes
  <2>1. sig \in Inputs /\ kernel \in {"lsh", "similarity"}
    BY DEF KernelInit
  <2>2. grid \in Grid
    BY <2>1, Bucket DEF KernelInit, Grid
  <2>3. pc \in [Threads -> {"load", "loaded", "compare", "compared", "write", "returned"}]
    BY DEF KernelInit, Launched
  <2>4. t1 \in [Threads -> CellType] /\ t2 \in [Threads -> CellType]
    BY DEF KernelInit, Unset, CellType
  <2>5. cnt \in [Threads -> Nat] /\ matrix \in [Docs \X Docs -> Nat]
    BY DEF KernelInit
  <2>6. tile \in 0..NumHash /\ tile % Edge = 0
    BY TileAssumption DEF KernelInit
  <2> QED BY <2>1, <2>2, <2>3, <2>4, <2>5, <2>6 DEF KernelTypes
<1>2. \A b \in Grid : ~Before(b)
  BY DEF KernelInit, Before, Grid
<1>3. LowerClear
  BY DEF KernelInit, LowerClear
<1>4. BeforeJudged
  BY <1>2 DEF BeforeJudged
<1>5. Fresh
  BY DEF KernelInit, Fresh
<1> QED BY <1>1, <1>3, <1>4, <1>5, LaunchedRounds

(* Cells that are not written stay as they should be, while no thread ends. *)
LEMMA JudgedStays ==
  ASSUME KInv, UNCHANGED <<kernel, sig, grid, matrix>>,
         \A t \in Threads : pc'[t] = "returned" => pc[t] = "returned"
  PROVE  AllJudged' /\ LowerClear'
<1>1. UNCHANGED <<NumDocs, Docs, Blocks, Grid>>
  BY DEF NumDocs, Docs, Blocks, Grid
<1>2. \A p : Judged(p)' <=> Judged(p)
  BY <1>1 DEF Judged, Agree, WholeBlock
<1>3. \A b : Before(b)' <=> Before(b)
  BY DEF Before
<1>4. AllJudged'
  BY <1>1, <1>2, <1>3 DEF KInv, AllJudged, PairOf, DocOf
<1>5. LowerClear'
  BY <1>1 DEF KInv, LowerClear
<1> QED BY <1>4, <1>5

(* The cells that a thread loads.                                           *)
LEMMA LoadedCells ==
  ASSUME KInv, NEW t \in Threads, LoadTile(t)
  PROVE  /\ t1' = IF DocOf(grid[1], Loader1(t)[1]) \in Docs
                    THEN [t1 EXCEPT ![Loader1(t)] = sig[DocOf(grid[1], Loader1(t)[1])][tile + Loader1(t)[2]]]
                    ELSE t1
         /\ t2' = IF DocOf(grid[2], Loader2(t)[1]) \in Docs
                    THEN [t2 EXCEPT ![Loader2(t)] = sig[DocOf(grid[2], Loader2(t)[1])][tile + Loader2(t)[2]]]
                    ELSE t2
<1>1. /\ grid[1] \in Nat /\ grid[2] \in Nat /\ t[1] \in Lanes /\ t[2] \in Lanes
      /\ kernel \in {"lsh", "similarity"} /\ sig \in Inputs /\ NumDocs \in Nat
  BY Bucket DEF KInv, KernelTypes, Grid, Threads
<1>2. \A l \in Lanes : \A g \in Nat : DocOf(g, l) \in Docs <=> DocOf(g, l) < NumDocs
  BY <1>1, BlockOf DEF Docs
<1>3. CASE kernel = "lsh"
  BY <1>1, <1>2, <1>3 DEF LoadTile, LoadLsh, Loader1, Loader2, DocOf
<1>4. CASE kernel = "similarity"
  <2>1. tile \in Nat /\ tile + Edge <= NumHash
    <3>1. tile < NumHash
      BY DEF LoadTile, KInv, Rounds
    <3>2. tile \in Nat /\ tile % Edge = 0
      BY TileAssumption DEF KInv, KernelTypes
    <3> QED BY <3>1, <3>2, NextTile
  <2>2. tile + t[1] < NumHash /\ tile + t[2] < NumHash
    BY <1>1, <2>1, TileAssumption DEF Lanes
  <2>3. ~Returns(grid, t)
    BY DEF LoadTile, KInv, Rounds
  <2>4. DocOf(grid[1], t[1]) \in Docs /\ DocOf(grid[2], t[2]) \in Docs
    BY <1>1, <1>2, <1>4, <2>3, BlockOf DEF Returns
  <2>5. Loader1(t) = t /\ Loader2(t) = <<t[2], t[1]>>
    BY <1>4 DEF Loader1, Loader2
  <2> QED BY <1>4, <2>2, <2>4, <2>5 DEF LoadTile, LoadSimilarity, DocI, DocJ
<1> QED BY <1>1, <1>3, <1>4
(* A thread loads its cells of the tiles, and no other thread's.            *)
LEMMA KernelLoads ==
  ASSUME KInv, NEW t \in Threads, LoadTile(t)
  PROVE  KInv'
<1>1. /\ pc[t] = "load" /\ pc' = [pc EXCEPT ![t] = "loaded"]
      /\ UNCHANGED <<kernel, sig, grid, tile, cnt, matrix>>
  BY DEF LoadTile, Goto
<1>2. /\ UNCHANGED <<NumDocs, Docs, Blocks, Grid>>
      /\ \A u : Returns(grid, u)' <=> Returns(grid, u)
      /\ \A u : Loader1(u)' = Loader1(u) /\ Loader2(u)' = Loader2(u)
  BY <1>1 DEF NumDocs, Docs, Blocks, Grid, Returns, Loader1, Loader2
<1>3. /\ pc \in [Threads -> {"load", "loaded", "compare", "compared", "write", "returned"}]
      /\ grid[1] \in Nat /\ grid[2] \in Nat /\ sig \in Inputs
      /\ t1 \in [Threads -> CellType] /\ t2 \in [Threads -> CellType]
      /\ tile \in Nat /\ tile % Edge = 0 /\ tile < NumHash
  <2>1. tile < NumHash
    BY <1>1 DEF KInv, Rounds
  <2>2. grid[1] \in Nat /\ grid[2] \in Nat
    BY DEF KInv, KernelTypes, Grid
  <2>3. tile \in Nat
    BY TileAssumption DEF KInv, KernelTypes
  <2> QED BY <2>1, <2>2, <2>3 DEF KInv, KernelTypes
<1>4. \A l \in Lanes : tile + l \in 0..(NumHash - 1)
  <2>1. tile + Edge <= NumHash
    BY <1>3, NextTile
  <2> QED BY <1>3, <2>1, TileAssumption DEF Lanes
<1>5. KernelTypes'
  <2>1. \A d \in Docs, l \in Lanes : sig[d][tile + l] \in CellType
    BY <1>3, <1>4, Bucket DEF CellType
  <2>2. t1' \in [Threads -> CellType] /\ t2' \in [Threads -> CellType]
    BY <1>3, <2>1, LoadedCells, Pairs
  <2> QED BY <1>1, <1>2, <1>3, <2>2 DEF KInv, KernelTypes
<1>6. Rounds'
  BY <1>1, <1>2, <1>3 DEF KInv, Rounds
<1>7. Bounded'
  BY <1>1, <1>3 DEF KInv, Bounded, Upto
<1>8. Loaded'
  <2> SUFFICES ASSUME NEW c \in Threads
               PROVE  /\ HasLoaded(Loader1(c))' /\ DocOf(grid[1], c[1]) \in Docs =>
                           t1'[c] = sig[DocOf(grid[1], c[1])][tile + c[2]]
                      /\ HasLoaded(Loader2(c))' /\ DocOf(grid[2], c[1]) \in Docs =>
                           t2'[c] = sig[DocOf(grid[2], c[1])][tile + c[2]]
    BY <1>1, <1>2 DEF Loaded, DocOf
  <2>1. \A u \in Threads : u # t => HasLoaded(u)' = HasLoaded(u)
    BY <1>1, <1>3 DEF HasLoaded
  <2>2. Loader1(c) \in Threads /\ Loader2(c) \in Threads
    BY Pairs
  <2>3. HasLoaded(Loader1(c))' <=> pc'[Loader1(c)] \in {"loaded", "compare", "compared"}
    BY <1>2 DEF HasLoaded
  <2>4. HasLoaded(Loader2(c))' <=> pc'[Loader2(c)] \in {"loaded", "compare", "compared"}
    BY <1>2 DEF HasLoaded
  <2>5. ASSUME pc'[Loader1(c)] \in {"loaded", "compare", "compared"}, DocOf(grid[1], c[1]) \in Docs
        PROVE  t1'[c] = sig[DocOf(grid[1], c[1])][tile + c[2]]
    <3>1. CASE Loader1(c) = t
      <4>1. c = Loader1(t)
        BY <3>1, Pairs
      <4> QED BY <2>5, <4>1, <1>3, LoadedCells, Pairs
    <3>2. CASE Loader1(c) # t
      <4>1. c # Loader1(t)
        BY <3>2, Pairs
      <4>2. t1'[c] = t1[c]
        BY <4>1, <1>3, LoadedCells
      <4>3. HasLoaded(Loader1(c))
        BY <2>5, <2>2, <3>2, <1>1, <1>3 DEF HasLoaded
      <4> QED BY <4>2, <4>3, <2>5 DEF KInv, Loaded
    <3> QED BY <3>1, <3>2
  <2>6. ASSUME pc'[Loader2(c)] \in {"loaded", "compare", "compared"}, DocOf(grid[2], c[1]) \in Docs
        PROVE  t2'[c] = sig[DocOf(grid[2], c[1])][tile + c[2]]
    <3>1. CASE Loader2(c) = t
      <4>1. c = Loader2(t)
        BY <3>1, Pairs
      <4> QED BY <2>6, <4>1, <1>3, LoadedCells, Pairs
    <3>2. CASE Loader2(c) # t
      <4>1. c # Loader2(t)
        BY <3>2, Pairs
      <4>2. t2'[c] = t2[c]
        BY <4>1, <1>3, LoadedCells
      <4>3. HasLoaded(Loader2(c))
        BY <2>6, <2>2, <3>2, <1>1, <1>3 DEF HasLoaded
      <4> QED BY <4>2, <4>3, <2>6 DEF KInv, Loaded
    <3> QED BY <3>1, <3>2
  <2> QED BY <2>3, <2>4, <2>5, <2>6
<1>9. Counted'
  <2>1. \A u \in Threads : Upto(u)' = Upto(u) /\ (pc'[u] # "returned" <=> pc[u] # "returned")
    BY <1>1, <1>3 DEF Upto
  <2>2. \A i, j, n : AgreeBelow(i, j, n)' = AgreeBelow(i, j, n)
    BY <1>1 DEF AgreeBelow
  <2> QED BY <1>1, <1>2, <2>1, <2>2 DEF KInv, Counted, Whole, DocI, DocJ, DocOf
<1>10. AllJudged' /\ LowerClear'
  BY <1>1, <1>3, JudgedStays
<1> QED BY <1>5, <1>6, <1>7, <1>8, <1>9, <1>10 DEF KInv
(* What stays when a step changes neither the bucket nor the block.         *)
LEMMA SameBlock ==
  ASSUME KernelTypes, UNCHANGED <<kernel, sig, grid>>
  PROVE  /\ UNCHANGED <<NumDocs, Docs, Blocks, Grid>>
         /\ \A u : Returns(grid, u)' <=> Returns(grid, u)
         /\ \A u : Loader1(u)' = Loader1(u) /\ Loader2(u)' = Loader2(u)
         /\ \A i, j, n : AgreeBelow(i, j, n)' = AgreeBelow(i, j, n)
         /\ \A u : DocI(u)' = DocI(u) /\ DocJ(u)' = DocJ(u)
         /\ Whole' <=> Whole
<1>1. UNCHANGED <<NumDocs, Docs, Blocks, Grid>>
  BY DEF NumDocs, Docs, Blocks, Grid
<1>2. \A u : Returns(grid, u)' <=> Returns(grid, u)
  BY <1>1 DEF Returns
<1>3. \A u : Loader1(u)' = Loader1(u) /\ Loader2(u)' = Loader2(u)
  BY DEF Loader1, Loader2
<1>4. \A i, j, n : AgreeBelow(i, j, n)' = AgreeBelow(i, j, n)
  BY DEF AgreeBelow
<1>5. \A u : DocI(u)' = DocI(u) /\ DocJ(u)' = DocJ(u)
  BY DEF DocI, DocJ, DocOf
<1>6. Whole' <=> Whole
  BY <1>2 DEF Whole
<1> QED BY <1>1, <1>2, <1>3, <1>4, <1>5, <1>6

(* What a running thread has to compare is loaded, in whole blocks.         *)
LEMMA RowsLoaded ==
  ASSUME KInv, Whole, NEW t \in Threads, pc[t] = "compare",
         DocI(t) \in Docs, DocJ(t) \in Docs, NEW k \in Lanes
  PROVE  /\ t1[<<t[1], k>>] = sig[DocI(t)][tile + k]
         /\ t2[<<t[2], k>>] = sig[DocJ(t)][tile + k]
<1>1. t[1] \in Lanes /\ t[2] \in Lanes /\ <<t[1], k>> \in Threads /\ <<t[2], k>> \in Threads
  BY DEF Threads
<1>2. \A u \in Threads : HasLoaded(u)
  <2> SUFFICES ASSUME NEW u \in Threads PROVE HasLoaded(u)
    OBVIOUS
  <2>1. pc[u] \in {"compare", "compared", "returned"}
    BY DEF KInv, Rounds
  <2>2. ~Returns(grid, t)
    BY DEF KInv, Rounds
  <2>3. ~Returns(grid, u)
    BY <2>2 DEF Whole, Returns
  <2>4. pc[u] # "returned"
    BY <2>3 DEF KInv, Rounds
  <2> QED BY <2>1, <2>4 DEF HasLoaded
<1>3. HasLoaded(Loader1(<<t[1], k>>)) /\ HasLoaded(Loader2(<<t[2], k>>))
  BY <1>1, <1>2, Pairs
<1> QED BY <1>1, <1>3 DEF KInv, Loaded, DocI, DocJ

(* A thread counts the equal values of a tile.                              *)
LEMMA KernelCompares ==
  ASSUME KInv, NEW t \in Threads, CompareTile(t)
  PROVE  KInv'
<1> DEFINE ks    == {k \in Lanes : kernel = "lsh" \/ tile + k < NumHash}
           wild  == {k \in ks : Garbage \in {t1[<<t[1], k>>], t2[<<t[2], k>>]}}
           equal == {k \in ks \ wild : t1[<<t[1], k>>] = t2[<<t[2], k>>]}
<1>1. /\ pc[t] = "compare" /\ pc' = [pc EXCEPT ![t] = "compared"]
      /\ UNCHANGED <<kernel, sig, grid, tile, t1, t2, matrix>>
  BY DEF CompareTile, Goto
<1>2. PICK m \in 0..Cardinality(wild) : cnt' = [cnt EXCEPT ![t] = @ + Cardinality(equal) + m]
  BY DEF CompareTile
<1>3. /\ pc \in [Threads -> {"load", "loaded", "compare", "compared", "write", "returned"}]
      /\ cnt \in [Threads -> Nat] /\ tile \in Nat /\ tile % Edge = 0 /\ tile < NumHash
      /\ sig \in Inputs
      /\ UNCHANGED <<NumDocs, Docs, Blocks, Grid>>
  <2>1. tile < NumHash
    BY <1>1 DEF KInv, Rounds
  <2>2. tile \in Nat
    BY TileAssumption DEF KInv, KernelTypes
  <2> QED BY <2>1, <2>2, <1>1, SameBlock DEF KInv, KernelTypes
<1>4. ks = Lanes
  <2>1. tile + Edge <= NumHash
    BY <1>3, NextTile
  <2> QED BY <1>3, <2>1, TileAssumption DEF Lanes
<1>5. /\ IsFiniteSet(wild) /\ IsFiniteSet(equal)
      /\ Cardinality(wild) \in Nat /\ Cardinality(equal) \in Nat
      /\ Cardinality(equal) + Cardinality(wild) <= Edge
  <2>1. IsFiniteSet(Lanes) /\ Cardinality(Lanes) = Edge
    BY FS_Interval, TileAssumption DEF Lanes
  <2>2. wild \subseteq Lanes /\ equal \subseteq Lanes /\ equal \cap wild = {}
    BY <1>4
  <2> HIDE DEF ks, wild, equal
  <2>3. IsFiniteSet(wild) /\ IsFiniteSet(equal) /\ equal \cup wild \subseteq Lanes
    BY <2>1, <2>2, FS_Subset
  <2>4. Cardinality(wild) \in Nat /\ Cardinality(equal) \in Nat
    BY <2>3, FS_CardinalityType
  <2>5. Cardinality(equal \cup wild) = Cardinality(equal) + Cardinality(wild) - Cardinality({})
    BY <2>2, <2>3, FS_Union
  <2>6. Cardinality(equal \cup wild) <= Edge
    BY <2>1, <2>3, FS_Subset
  <2> QED BY <2>3, <2>4, <2>5, <2>6, FS_EmptySet
<1>6. /\ m \in Nat /\ m <= Cardinality(wild)
      /\ cnt'[t] = cnt[t] + Cardinality(equal) + m
      /\ \A u \in Threads \ {t} : cnt'[u] = cnt[u]
      /\ cnt' \in [Threads -> Nat]
  <2> HIDE DEF ks, wild, equal
  <2>1. m \in Nat /\ m <= Cardinality(wild)
    BY <1>2, <1>5
  <2> QED BY <1>2, <1>3, <1>5, <2>1
<1>7. KernelTypes'
  BY <1>1, <1>3, <1>6 DEF KInv, KernelTypes
<1>8. Rounds'
  BY <1>1, <1>3, SameBlock DEF KInv, Rounds
<1>9. Bounded'
  <2> HIDE DEF ks, wild, equal
  <2>1. cnt[t] \in Nat /\ cnt[t] <= tile
    BY <1>1, <1>3 DEF KInv, Bounded, Upto
  <2>2. cnt'[t] <= tile + Edge
    BY <2>1, <1>3, <1>5, <1>6, TileAssumption
  <2>3. \A u \in Threads \ {t} : pc'[u] = pc[u]
    BY <1>1, <1>3
  <2>4. pc'[t] = "compared"
    BY <1>1, <1>3
  <2> QED BY <1>1, <1>6, <2>2, <2>3, <2>4 DEF KInv, Bounded, Upto
<1>10. Loaded'
  <2>1. \A u \in Threads : HasLoaded(u)' = HasLoaded(u)
    BY <1>1, <1>3 DEF HasLoaded
  <2>2. \A c \in Threads : HasLoaded(Loader1(c))' = HasLoaded(Loader1(c))
                           /\ HasLoaded(Loader2(c))' = HasLoaded(Loader2(c))
    <3> TAKE c \in Threads
    <3>1. Loader1(c) \in Threads /\ Loader2(c) \in Threads
          /\ Loader1(c)' = Loader1(c) /\ Loader2(c)' = Loader2(c)
      BY <1>1, Pairs, SameBlock DEF KInv
    <3> QED BY <1>1, <1>3, <3>1 DEF HasLoaded
  <2> QED BY <1>1, <1>3, <2>2 DEF KInv, Loaded, DocOf
<1>11. Counted'
  <2>1. ASSUME Whole, DocI(t) \in Docs, DocJ(t) \in Docs
        PROVE  cnt'[t] = Cardinality(AgreeBelow(DocI(t), DocJ(t), tile + Edge))
    <3> DEFINE f == sig[DocI(t)]
               g == sig[DocJ(t)]
    <3>1. \A k \in Lanes : t1[<<t[1], k>>] = f[tile + k] /\ t2[<<t[2], k>>] = g[tile + k]
      BY <1>1, <2>1, RowsLoaded
    <3>2. \A k \in Lanes : f[tile + k] \in Nat /\ g[tile + k] \in Nat
      <4>1. \A k \in Lanes : tile + k \in 0..(NumHash - 1)
        <5>1. tile + Edge <= NumHash
          BY <1>3, NextTile
        <5> QED BY <1>3, <5>1, TileAssumption DEF Lanes
      <4> QED BY <1>3, <2>1, <4>1, Bucket
    <3>3. wild = {}
      BY <1>4, <3>1, <3>2 DEF Garbage
    <3>4. equal = SameTile(f, g, tile)
      BY <1>4, <3>1, <3>3 DEF SameTile
    <3> HIDE DEF ks, wild, equal, f, g
    <3>5. m = 0
      BY <1>6, <3>3, FS_EmptySet
    <3>6. cnt[t] = Cardinality(Same(f, g, tile))
      BY <1>1, <2>1 DEF KInv, Counted, Upto, AgreeBelow, f, g
    <3>7. Cardinality(Same(f, g, tile + Edge)) = cnt[t] + Cardinality(equal)
      BY <1>3, <3>4, <3>6, SameMore
    <3>8. cnt'[t] = cnt[t] + Cardinality(equal)
      BY <1>3, <1>5, <1>6, <3>5
    <3> QED BY <3>7, <3>8 DEF AgreeBelow, f, g
  <2>2. \A u \in Threads \ {t} : Upto(u)' = Upto(u) /\ pc'[u] = pc[u]
    BY <1>1, <1>3 DEF Upto
  <2>3. Upto(t)' = tile + Edge
    BY <1>1, <1>3 DEF Upto
  <2> HIDE DEF ks, wild, equal
  <2> QED BY <1>1, <1>3, <1>6, <2>1, <2>2, <2>3, SameBlock DEF KInv, Counted
<1>12. AllJudged' /\ LowerClear'
  BY <1>1, <1>3, JudgedStays
<1> QED BY <1>7, <1>8, <1>9, <1>10, <1>11, <1>12 DEF KInv
(* The barrier after the loads.                                             *)
LEMMA KernelLoaded == KInv /\ TileLoaded => KInv'
<1> SUFFICES ASSUME KInv, TileLoaded PROVE KInv'
  OBVIOUS
<1>1. /\ \A u \in Threads : pc[u] \in {"loaded", "returned"}
      /\ \A u \in Threads : pc'[u] = IF pc[u] = "returned" THEN "returned" ELSE "compare"
      /\ pc' \in [Threads -> {"load", "loaded", "compare", "compared", "write", "returned"}]
      /\ UNCHANGED <<kernel, sig, grid, tile, t1, t2, cnt, matrix>>
  BY DEF TileLoaded, AllAt, AllGoto
<1>2. KernelTypes /\ UNCHANGED <<NumDocs, Docs, Blocks, Grid>>
  BY <1>1, SameBlock DEF KInv
<1>3. KernelTypes'
  BY <1>1, <1>2 DEF KernelTypes
<1>4. Rounds'
  BY <1>1, <1>2, SameBlock DEF KInv, Rounds
<1>5. Bounded' /\ \A u \in Threads : Upto(u)' = Upto(u)
  BY <1>1 DEF KInv, Bounded, Upto
<1>6. Loaded'
  <2>1. \A c \in Threads : (HasLoaded(Loader1(c))' <=> HasLoaded(Loader1(c)))
                           /\ (HasLoaded(Loader2(c))' <=> HasLoaded(Loader2(c)))
    <3> TAKE c \in Threads
    <3>1. Loader1(c) \in Threads /\ Loader2(c) \in Threads
          /\ Loader1(c)' = Loader1(c) /\ Loader2(c)' = Loader2(c)
      BY <1>1, <1>2, Pairs, SameBlock
    <3> QED BY <1>1, <3>1 DEF HasLoaded
  <2> QED BY <1>1, <1>2, <2>1 DEF KInv, Loaded, DocOf
<1>7. Counted'
  BY <1>1, <1>2, <1>5, SameBlock DEF KInv, Counted
<1>8. AllJudged' /\ LowerClear'
  BY <1>1, JudgedStays
<1> QED BY <1>3, <1>4, <1>5, <1>6, <1>7, <1>8 DEF KInv

(* The barrier after the comparison: the next tile, or the result.          *)
LEMMA KernelCompared == KInv /\ TileCompared => KInv'
<1> SUFFICES ASSUME KInv, TileCompared PROVE KInv'
  OBVIOUS
<1> DEFINE next == IF tile + Edge < NumHash THEN "load" ELSE "write"
<1>1. /\ \E u \in Threads : pc[u] = "compared"
      /\ \A u \in Threads : pc[u] \in {"compared", "returned"}
      /\ \A u \in Threads : pc'[u] = IF pc[u] = "returned" THEN "returned" ELSE next
      /\ pc' \in [Threads -> {"load", "loaded", "compare", "compared", "write", "returned"}]
      /\ tile' = tile + Edge
      /\ UNCHANGED <<kernel, sig, grid, t1, t2, cnt, matrix>>
  BY DEF TileCompared, AllAt, AllGoto
<1>2. KernelTypes /\ UNCHANGED <<NumDocs, Docs, Blocks, Grid>>
  BY <1>1, SameBlock DEF KInv
<1>3. /\ tile \in Nat /\ tile' \in 0..NumHash /\ tile' % Edge = 0
      /\ tile' < NumHash \/ tile' = NumHash
  <2>1. tile < NumHash /\ tile \in Nat /\ tile % Edge = 0
    BY <1>1, <1>2, TileAssumption DEF KInv, Rounds, KernelTypes
  <2>2. tile + Edge <= NumHash /\ (tile + Edge) % Edge = 0
    BY <2>1, NextTile
  <2> QED BY <1>1, <2>1, <2>2, TileAssumption
<1>4. KernelTypes'
  BY <1>1, <1>2, <1>3 DEF KernelTypes
<1>5. Rounds'
  <2>1. \A t \in Threads : Returns(grid, t) => pc[t] = "returned"
    BY DEF KInv, Rounds
  <2>2. \A u \in Threads : pc[u] = "returned" => Returns(grid, u)
    BY <1>1 DEF KInv, Rounds
  <2>3. next = "load" => tile' < NumHash
    BY <1>1
  <2>4. next = "write" => tile' = NumHash
    BY <1>1, <1>3
  <2> HIDE DEF next
  <2>5. next \in {"load", "write"}
    BY DEF next
  <2> QED BY <1>1, <1>2, <2>1, <2>2, <2>3, <2>4, <2>5, SameBlock DEF Rounds
<1>6. \A u \in Threads : pc[u] # "returned" => Upto(u)' = Upto(u)
  BY <1>1 DEF Upto
<1>7. Bounded'
  <2>1. \A u \in Threads : pc[u] = "returned" => cnt[u] = 0 /\ Upto(u)' = tile' /\ pc'[u] = "returned"
    BY <1>1 DEF KInv, Bounded, Upto
  <2>2. \A u \in Threads : pc[u] # "returned" => cnt[u] <= Upto(u) /\ pc'[u] # "returned"
    BY <1>1 DEF KInv, Bounded
  <2> QED BY <1>1, <1>3, <1>6, <2>1, <2>2 DEF Bounded
<1>8. Loaded'
  <2>1. \A c \in Threads : ~HasLoaded(Loader1(c))' /\ ~HasLoaded(Loader2(c))'
    <3> TAKE c \in Threads
    <3>1. Loader1(c) \in Threads /\ Loader2(c) \in Threads
          /\ Loader1(c)' = Loader1(c) /\ Loader2(c)' = Loader2(c)
      BY <1>1, <1>2, Pairs, SameBlock
    <3> QED BY <1>1, <3>1 DEF HasLoaded
  <2> QED BY <2>1 DEF Loaded
<1>9. Counted'
  BY <1>1, <1>2, <1>6, SameBlock DEF KInv, Counted
<1>10. AllJudged' /\ LowerClear'
  BY <1>1, JudgedStays
<1> QED BY <1>4, <1>5, <1>7, <1>8, <1>9, <1>10 DEF KInv
(* A counter that is written has counted the whole signature.               *)
LEMMA CountsAll ==
  ASSUME KInv, NEW t \in Threads, pc[t] = "write",
         PairOf(grid, t) \in Docs \X Docs,
         kernel = "lsh" \/ WholeBlock(PairOf(grid, t))
  PROVE  cnt[t] = Agree(DocI(t), DocJ(t))
<1>1. Whole
  BY WholeBlocksGo DEF KInv, KernelTypes, Whole
<1>2. DocI(t) \in Docs /\ DocJ(t) \in Docs /\ tile = NumHash
  BY DEF PairOf, DocI, DocJ, KInv, Rounds
<1>3. cnt[t] = Cardinality(Same(sig[DocI(t)], sig[DocJ(t)], NumHash))
  BY <1>1, <1>2 DEF KInv, Counted, Upto, AgreeBelow
<1> QED BY <1>3 DEF Agree, Same

(* A thread writes the cell of its pair and ends.                           *)
LEMMA KernelWrites ==
  ASSUME KInv, NEW t \in Threads, WriteResult(t)
  PROVE  KInv'
<1> DEFINE p == PairOf(grid, t)
           value == IF kernel = "similarity" THEN cnt[t] ELSE IF cnt[t] > Th THEN 1 ELSE 0
<1>1. /\ pc[t] = "write" /\ pc' = [pc EXCEPT ![t] = "returned"] /\ cnt' = [cnt EXCEPT ![t] = 0]
      /\ UNCHANGED <<kernel, sig, grid, tile, t1, t2>>
  BY DEF WriteResult, Goto
<1>2. KernelTypes /\ UNCHANGED <<NumDocs, Docs, Blocks, Grid>>
  BY <1>1, SameBlock DEF KInv
<1>3. /\ p = <<DocI(t), DocJ(t)>> /\ DocI(t) \in Nat /\ DocJ(t) \in Nat
      /\ p \in Docs \X Docs <=> DocI(t) < NumDocs /\ DocJ(t) < NumDocs
  <2>1. grid[1] \in Nat /\ grid[2] \in Nat /\ t[1] \in Lanes /\ t[2] \in Lanes /\ NumDocs \in Nat
    BY <1>2, Bucket DEF KernelTypes, Grid, Threads
  <2> QED BY <2>1, BlockOf DEF PairOf, DocI, DocJ, Docs
<1>4. matrix' = IF p \in Docs \X Docs /\ p[1] < p[2] THEN [matrix EXCEPT ![p] = value] ELSE matrix
  BY <1>3 DEF WriteResult
<1>5. /\ pc \in [Threads -> {"load", "loaded", "compare", "compared", "write", "returned"}]
      /\ cnt \in [Threads -> Nat] /\ matrix \in [Docs \X Docs -> Nat]
      /\ value \in Nat
  BY <1>2 DEF KernelTypes
<1> HIDE DEF p, value
<1>6. KernelTypes'
  <2>1. matrix' \in [Docs \X Docs -> Nat]
    BY <1>4, <1>5
  <2> QED BY <1>1, <1>2, <1>5, <2>1 DEF KernelTypes
<1>7. Rounds'
  <2>1. \A u \in Threads : pc[u] \in {"write", "returned"} /\ (u # t => pc'[u] = pc[u])
    BY <1>1, <1>5 DEF KInv, Rounds
  <2>2. pc'[t] = "returned"
    BY <1>1, <1>5
  <2>3. \A u \in Threads : pc'[u] \in {"write", "returned"}
    BY <2>1, <2>2
  <2>4. \A u \in Threads : pc'[u] = "write" => pc[u] = "write"
    BY <2>1, <2>2
  <2> QED BY <1>1, <1>2, <2>1, <2>2, <2>3, <2>4, SameBlock DEF KInv, Rounds
<1>8. Bounded'
  BY <1>1, <1>5 DEF KInv, Bounded, Upto, KernelTypes
<1>9. Loaded'
  <2>1. \A c \in Threads : ~HasLoaded(Loader1(c))' /\ ~HasLoaded(Loader2(c))'
    <3> TAKE c \in Threads
    <3>1. Loader1(c) \in Threads /\ Loader2(c) \in Threads
          /\ Loader1(c)' = Loader1(c) /\ Loader2(c)' = Loader2(c)
      BY <1>1, <1>2, Pairs, SameBlock
    <3>2. \A u \in Threads : pc'[u] \in {"write", "returned"}
      BY <1>1, <1>5 DEF KInv, Rounds
    <3> QED BY <1>1, <3>1, <3>2 DEF HasLoaded
  <2> QED BY <2>1 DEF Loaded
<1>10. Counted'
  <2>1. \A u \in Threads : pc'[u] # "returned" => pc'[u] = pc[u] /\ cnt'[u] = cnt[u] /\ Upto(u)' = Upto(u)
    BY <1>1, <1>5 DEF Upto
  <2> QED BY <1>1, <1>2, <2>1, SameBlock DEF KInv, Counted
<1>11. ASSUME p \in Docs \X Docs, p[1] < p[2] PROVE Judged(p)'
  <2>1. matrix'[p] = value
    BY <1>4, <1>5, <1>11
  <2>2. p' = p
    BY <1>1 DEF p, PairOf, DocOf
  <2>3. Agree(p[1], p[2])' = Agree(p[1], p[2]) /\ p[1] = DocI(t) /\ p[2] = DocJ(t)
    BY <1>1, <1>3, <2>2 DEF Agree
  <2>4. kernel = "lsh" => value = IF Agree(p[1], p[2]) > Th THEN 1 ELSE 0
    BY <1>1, <1>11, <2>3, CountsAll DEF value, p
  <2>5. kernel = "similarity" /\ WholeBlock(p) => value = Agree(p[1], p[2])
    BY <1>1, <1>11, <2>3, CountsAll DEF value, p
  <2>6. WholeBlock(p)' <=> WholeBlock(p)
    BY <1>1, <1>2 DEF WholeBlock, p, PairOf, DocOf
  <2> QED BY <1>1, <2>1, <2>2, <2>3, <2>4, <2>5, <2>6 DEF Judged
<1>12. AllJudged'
  <2> SUFFICES ASSUME NEW b \in Grid, NEW u \in Threads,
                      PairOf(b, u) \in Docs \X Docs, PairOf(b, u)[1] < PairOf(b, u)[2],
                      Before(b) \/ (b = grid /\ pc'[u] = "returned")
               PROVE  Judged(PairOf(b, u))'
    BY <1>1, <1>2 DEF AllJudged, PairOf, DocOf, Before
  <2>1. CASE PairOf(b, u) = p
    BY <1>1, <1>11, <2>1 DEF Judged, PairOf, DocOf, p
  <2>2. CASE PairOf(b, u) # p
    <3>1. u # t \/ b # grid
      BY <2>2 DEF p
    <3>2. b = grid /\ pc'[u] = "returned" => pc[u] = "returned"
      BY <1>1, <1>5, <3>1
    <3>3. Judged(PairOf(b, u))
      BY <3>2 DEF KInv, AllJudged
    <3>4. matrix'[PairOf(b, u)] = matrix[PairOf(b, u)]
      BY <1>4, <1>5, <2>2
    <3>5. /\ Agree(PairOf(b, u)[1], PairOf(b, u)[2])' = Agree(PairOf(b, u)[1], PairOf(b, u)[2])
          /\ WholeBlock(PairOf(b, u))' <=> WholeBlock(PairOf(b, u))
          /\ PairOf(b, u)' = PairOf(b, u)
      BY <1>1, <1>2 DEF Agree, WholeBlock, PairOf, DocOf
    <3> QED BY <1>1, <3>3, <3>4, <3>5 DEF Judged
  <2> QED BY <2>1, <2>2
<1>13. LowerClear'
  <2>1. \A q \in Docs \X Docs : q[1] >= q[2] => matrix'[q] = matrix[q]
    <3> SUFFICES ASSUME NEW q \in Docs \X Docs, q[1] >= q[2] PROVE matrix'[q] = matrix[q]
      OBVIOUS
    <3>1. CASE p \in Docs \X Docs /\ p[1] < p[2]
      <4>1. p # q
        BY <3>1, <1>2, Bucket DEF KernelTypes, Docs
      <4> QED BY <1>4, <1>5, <4>1
    <3>2. CASE ~(p \in Docs \X Docs /\ p[1] < p[2])
      BY <1>4, <3>2
    <3> QED BY <3>1, <3>2
  <2> QED BY <1>2, <2>1 DEF KInv, LowerClear
<1> QED BY <1>6, <1>7, <1>8, <1>9, <1>10, <1>12, <1>13 DEF KInv

(* The next block starts afresh: the last has ended.                        *)
LEMMA KernelNextBlock == KInv /\ NextBlock => KInv'
<1> SUFFICES ASSUME KInv, NextBlock PROVE KInv'
  OBVIOUS
<1>1. /\ \A t \in Threads : pc[t] = "returned"
      /\ grid # <<Blocks - 1, Blocks - 1>>
      /\ grid' = IF grid[1] + 1 < Blocks THEN <<grid[1] + 1, grid[2]>> ELSE <<0, grid[2] + 1>>
      /\ pc' = Launched(grid') /\ tile' = 0 /\ t1' = Unset /\ t2' = Unset
      /\ cnt' = [t \in Threads |-> 0]
      /\ UNCHANGED <<kernel, sig, matrix>>
  BY DEF NextBlock, BlockEnded, LastBlock
<1>2. KernelTypes /\ UNCHANGED <<NumDocs, Docs, Blocks, Grid>>
  BY <1>1 DEF KInv, NumDocs, Docs, Blocks, Grid
<1>3. Blocks \in Nat \ {0} /\ grid \in Grid
  BY <1>2, Bucket DEF KernelTypes
<1>4. grid' \in Grid
  BY <1>1, <1>3 DEF Grid
<1>5. \A b \in Grid : Before(b)' => Before(b) \/ b = grid
  BY <1>1, <1>3, <1>4 DEF Grid, Before
<1>6. Fresh'
  BY <1>1, <1>2 DEF Fresh, Launched, Returns
<1>7. KernelTypes'
  <2>1. pc' \in [Threads -> {"load", "loaded", "compare", "compared", "write", "returned"}]
    BY <1>1 DEF Launched
  <2>2. t1' \in [Threads -> CellType] /\ t2' \in [Threads -> CellType]
    BY <1>1 DEF Unset, CellType
  <2>3. tile' \in 0..NumHash /\ tile' % Edge = 0
    BY <1>1, TileAssumption
  <2> QED BY <1>1, <1>2, <1>4, <2>1, <2>2, <2>3 DEF KernelTypes
<1>8. LowerClear'
  BY <1>1, <1>2 DEF KInv, LowerClear
<1>9. \A q : Judged(q)' <=> Judged(q)
  BY <1>1, <1>2 DEF Judged, Agree, WholeBlock
<1>10. BeforeJudged'
  BY <1>1, <1>2, <1>5, <1>9 DEF KInv, AllJudged, BeforeJudged, PairOf, DocOf
<1> QED BY <1>6, <1>7, <1>8, <1>10, LaunchedRounds, PTL

(* Every step of a kernel keeps its invariant.                              *)
LEMMA KernelKeeps == KInv /\ [KernelNext]_kernelVars => KInv'
<1>1. KInv /\ UNCHANGED kernelVars => KInv'
  <2> SUFFICES ASSUME KInv, UNCHANGED kernelVars PROVE KInv'
    OBVIOUS
  <2>1. KernelTypes /\ UNCHANGED <<kernel, sig, grid, pc, tile, t1, t2, cnt, matrix>>
    BY DEF KInv, kernelVars
  <2>2. UNCHANGED <<NumDocs, Docs, Blocks, Grid>>
    BY <2>1, SameBlock
  <2>3. KernelTypes' /\ Rounds' /\ Bounded'
    BY <2>1, <2>2, SameBlock DEF KInv, KernelTypes, Rounds, Bounded, Upto
  <2>4. Loaded'
    BY <2>1, <2>2, SameBlock DEF KInv, Loaded, HasLoaded, DocOf, Loader1, Loader2
  <2>5. Counted'
    BY <2>1, <2>2, SameBlock DEF KInv, Counted, Upto
  <2>6. AllJudged' /\ LowerClear'
    BY <2>1, JudgedStays
  <2> QED BY <2>3, <2>4, <2>5, <2>6 DEF KInv
<1> QED BY <1>1, KernelLoads, KernelCompares, KernelWrites, KernelLoaded, KernelCompared,
           KernelNextBlock DEF KernelNext
-----------------------------------------------------------------------------
(* From the kernels to the host                                             *)

(* The host takes over when the kernel has ended; on the server's side it   *)
(* judges the counts of the kernel.                                         *)
HostReads ==
  /\ phase # "compare" => KernelEnded
  /\ kernel = "similarity" => phase \in {"compare", "merged"}
  /\ kernel = "similarity" /\ phase = "merged" =>
       pairs = {p \in Docs \X Docs : p[1] < p[2] /\ matrix[p] * 100 >= Percent * NumHash}

PairsInv == KInv /\ HostReads

(* The invariant holds at the start.                                        *)
LEMMA PairsInit == Init => PairsInv
  BY KernelStarts DEF Init, PairsInv, HostReads

(* Every step keeps it.                                                     *)
LEMMA PairsNext == PairsInv /\ [Next]_vars => PairsInv'
<1> SUFFICES ASSUME PairsInv, [Next]_vars PROVE PairsInv'
  OBVIOUS
<1>1. KInv'
  <2>1. [KernelNext]_kernelVars
    BY DEF Next, vars, Comparison, Reduce1, WarpReads, WarpWrites, NextRound, Reduce3,
           HostReadsList, HostReadsMatrix, NothingToMerge, HostReadsRatios
  <2> QED BY <2>1, KernelKeeps DEF PairsInv
<1>2. UNCHANGED kernelVars => (KernelEnded' <=> KernelEnded) /\ UNCHANGED Docs
  BY DEF kernelVars, KernelEnded, BlockEnded, LastBlock, Blocks, NumDocs, Docs
<1>3. HostReads'
  <2>1. CASE Comparison
    BY <2>1 DEF Comparison, PairsInv, HostReads
  <2>2. CASE UNCHANGED vars
    BY <2>2, <1>2 DEF vars, reduceVars, kernelVars, PairsInv, HostReads
  <2>3. CASE Reduce1
    BY <2>3, <1>2 DEF Reduce1, kernelVars, HostReads
  <2>4. CASE HostReadsRatios
    BY <2>4, <1>2 DEF HostReadsRatios, kernelVars, HostReads
  <2>5. ASSUME \/ \E w \in Warps : WarpReads(w) \/ WarpWrites(w)
               \/ NextRound
               \/ \E y \in PartIds : Reduce3(y)
               \/ HostReadsList \/ HostReadsMatrix \/ NothingToMerge
        PROVE  HostReads'
    <3>1. phase \in {"reduce2", "reduced"} /\ UNCHANGED kernelVars
          /\ phase' \in {"reduce2", "reduced", "merged"}
      BY <2>5 DEF WarpReads, WarpWrites, NextRound, AllWait, Reduce3, HostReadsList,
                  HostReadsMatrix, NothingToMerge
    <3>2. kernel # "similarity"
      BY <3>1 DEF PairsInv, HostReads
    <3> QED BY <3>1, <3>2, <1>2 DEF PairsInv, HostReads, kernelVars
  <2> QED BY <2>1, <2>2, <2>3, <2>4, <2>5 DEF Next
<1> QED BY <1>1, <1>3 DEF PairsInv

(* When the last block has ended every pair has been judged.                *)
LEMMA AllPairsJudged ==
  ASSUME KInv, KernelEnded, NEW p \in Docs \X Docs, p[1] < p[2]
  PROVE  Judged(p)
<1> DEFINE b == <<p[1] \div Edge, p[2] \div Edge>>
           t == <<p[1] % Edge, p[2] % Edge>>
<1>1. NumDocs \in Nat \ {0} /\ Edge \in Nat \ {0} /\ Blocks \in Nat \ {0}
      /\ \A d \in Docs : d \div Edge \in 0..(Blocks - 1)
  BY Bucket DEF KInv, KernelTypes
<1>2. p[1] \in Docs /\ p[2] \in Docs /\ p = <<p[1], p[2]>> /\ p[1] \in Nat /\ p[2] \in Nat
  BY <1>1 DEF Docs
<1>3. b \in Grid /\ t \in Threads
  BY <1>1, <1>2, Division DEF Grid, Threads
<1>4. DocOf(p[1] \div Edge, p[1] % Edge) = p[1] /\ DocOf(p[2] \div Edge, p[2] % Edge) = p[2]
  BY <1>2, PartsOf
<1>5. PairOf(b, t) = p
  BY <1>2, <1>4 DEF PairOf
<1>6. Before(b) \/ (b = grid /\ pc[t] = "returned")
  BY <1>1, <1>3 DEF KernelEnded, LastBlock, BlockEnded, Before, Grid
<1> HIDE DEF b, t
<1> QED BY <1>3, <1>5, <1>6 DEF KInv, AllJudged

(* So the matrix is right.                                                  *)
LEMMA MatrixIsExact == PairsInv => MatrixExact
<1> SUFFICES ASSUME PairsInv, kernel = "lsh", KernelEnded \/ phase # "compare"
             PROVE  Hit = SimilarPairs
  BY DEF MatrixExact
<1>1. KernelEnded
  BY DEF PairsInv, HostReads
<1>2. \A p \in Docs \X Docs : p[1] < p[2] => (matrix[p] = 1 <=> Agree(p[1], p[2]) > Th)
  BY <1>1, AllPairsJudged DEF PairsInv, Judged
<1>3. \A p \in Docs \X Docs : ~(p[1] < p[2]) => matrix[p] # 1
  <2>1. \A p \in Docs \X Docs : p[1] \in Int /\ p[2] \in Int
    BY Bucket DEF PairsInv, KInv, KernelTypes, Docs
  <2> QED BY <2>1 DEF PairsInv, KInv, LowerClear
<1> QED BY <1>2, <1>3 DEF Hit, SimilarPairs

(* compare_lsh_kernel judges every pair exactly: for every size of bucket,  *)
(* of block and of signature, in every order of the threads of a block.     *)
THEOREM LshMatrixIsExact == Spec => []MatrixExact
  BY MatrixIsExact, PairsInit, PairsNext, PTL DEF Spec

(* similarity_compare_kernel judges the pairs of whole blocks exactly,      *)
(* although it does not those of the others.                                *)
THEOREM WholeBlocksAreExact == Spec => []WholeBlocksExact
<1>1. PairsInv => WholeBlocksExact
  <2> SUFFICES ASSUME PairsInv, kernel = "similarity", phase = "merged",
                      NEW p \in Docs \X Docs, WholeBlock(p)
               PROVE  p \in pairs <=> Agree(p[1], p[2]) * 100 >= Percent * NumHash
    BY DEF WholeBlocksExact
  <2>1. KernelEnded /\ pairs = {q \in Docs \X Docs : q[1] < q[2] /\ matrix[q] * 100 >= Percent * NumHash}
    BY DEF PairsInv, HostReads
  <2>2. p[1] \in Nat /\ p[2] \in Nat
    BY Bucket DEF PairsInv, KInv, KernelTypes, Docs
  <2>3. p[1] < p[2]
    <3>1. p[1] \div Edge < p[2] \div Edge
      BY DEF WholeBlock
    <3>2. DocOf(p[1] \div Edge, p[1] % Edge) < DocOf(p[2] \div Edge, p[2] % Edge)
      BY <2>2, <3>1, Division, LaneOrder
    <3> QED BY <2>2, <3>2, PartsOf
  <2>4. matrix[p] = Agree(p[1], p[2])
    BY <2>1, <2>3, AllPairsJudged DEF PairsInv, Judged
  <2> QED BY <2>1, <2>3, <2>4
<1> QED BY <1>1, PairsInit, PairsNext, PTL DEF Spec

-----------------------------------------------------------------------------
(* Counting                                                                 *)

(* Sets with nothing in common are counted together by a sum.               *)
LEMMA Together2 ==
  ASSUME NEW A, NEW B, IsFiniteSet(A), IsFiniteSet(B), A \cap B = {}
  PROVE  /\ IsFiniteSet(A \cup B)
         /\ Cardinality(A) \in Nat /\ Cardinality(B) \in Nat
         /\ Cardinality(A \cup B) = Cardinality(A) + Cardinality(B)
<1>1. Cardinality(A \cap B) = 0
  BY FS_EmptySet
<1>2. Cardinality(A) \in Nat /\ Cardinality(B) \in Nat
  BY FS_CardinalityType
<1>3. /\ IsFiniteSet(A \cup B)
      /\ Cardinality(A \cup B) = Cardinality(A) + Cardinality(B) - Cardinality(A \cap B)
  BY FS_Union
<1> QED BY <1>1, <1>2, <1>3

(* The rank of an element: how many are ordered before it.                  *)
Prior(S, R, i) == {j \in S : <<j, i>> \in R}
Rank(S, R) == [i \in S |-> Cardinality(Prior(S, R, i))]
Strict(S, R) ==
  /\ \A i \in S : <<i, i>> \notin R
  /\ \A i, j \in S : i # j => <<i, j>> \in R \/ <<j, i>> \in R
  /\ \A i, j, k \in S : <<i, j>> \in R /\ <<j, k>> \in R => <<i, k>> \in R

(* In a strict total order the ranks are the numbers below the number of    *)
(* elements, each taken once.                                               *)
LEMMA RanksFill ==
  ASSUME NEW S, NEW R, IsFiniteSet(S), Strict(S, R)
  PROVE  /\ Rank(S, R) \in [S -> 0..(Cardinality(S) - 1)]
         /\ \A i, j \in S : Rank(S, R)[i] = Rank(S, R)[j] => i = j
         /\ \A n \in 0..(Cardinality(S) - 1) : \E i \in S : Rank(S, R)[i] = n
<1> DEFINE N == Cardinality(S)
           rank == Rank(S, R)
<1>1. N \in Nat
  BY FS_CardinalityType
<1>2. ASSUME NEW i \in S
      PROVE  /\ IsFiniteSet(Prior(S, R, i)) /\ rank[i] = Cardinality(Prior(S, R, i))
             /\ rank[i] \in Nat /\ rank[i] < N
  <2>1. Prior(S, R, i) \subseteq S \ {i}
    BY DEF Prior, Strict
  <2>2. IsFiniteSet(S \ {i}) /\ Cardinality(S \ {i}) = N - 1
    BY FS_RemoveElement
  <2>3. IsFiniteSet(Prior(S, R, i)) /\ Cardinality(Prior(S, R, i)) <= N - 1
    BY <2>1, <2>2, FS_Subset
  <2>4. Cardinality(Prior(S, R, i)) \in Nat
    BY <2>3, FS_CardinalityType
  <2> QED BY <1>1, <2>3, <2>4 DEF Rank
<1>3. ASSUME NEW i \in S, NEW j \in S, <<i, j>> \in R PROVE rank[i] < rank[j]
  <2>1. Prior(S, R, i) \cup {i} \subseteq Prior(S, R, j) /\ i \notin Prior(S, R, i)
    BY <1>3 DEF Prior, Strict
  <2>2. Cardinality(Prior(S, R, i) \cup {i}) = Cardinality(Prior(S, R, i)) + 1
    BY <1>2, <2>1, FS_AddElement
  <2>3. Cardinality(Prior(S, R, i) \cup {i}) <= Cardinality(Prior(S, R, j))
    BY <1>2, <2>1, FS_Subset
  <2> QED BY <1>2, <2>2, <2>3
<1>4. rank \in [S -> 0..(N - 1)]
  <2>1. \A i \in S : Cardinality(Prior(S, R, i)) \in 0..(N - 1)
    BY <1>1, <1>2
  <2> QED BY <2>1 DEF Rank
<1>5. ASSUME NEW i \in S, NEW j \in S, rank[i] = rank[j] PROVE i = j
  <2> SUFFICES ASSUME i # j PROVE FALSE
    OBVIOUS
  <2>1. <<i, j>> \in R \/ <<j, i>> \in R
    BY DEF Strict
  <2>2. rank[i] < rank[j] \/ rank[j] < rank[i]
    BY <1>3, <2>1
  <2>3. rank[i] \in Nat /\ rank[j] \in Nat
    BY <1>2
  <2> HIDE DEF rank
  <2> QED BY <1>5, <2>2, <2>3
<1> HIDE DEF rank, N
<1>6. rank \in Injection(S, 0..(N - 1))
  BY <1>4, <1>5 DEF Injection, IsInjective
<1>7. IsFiniteSet(0..(N - 1)) /\ Cardinality(0..(N - 1)) = N
  BY <1>1, FS_Interval
<1>8. rank \in Surjection(S, 0..(N - 1))
  <2>1. N = Cardinality(S)
    BY DEF N
  <2> QED BY <1>6, <1>7, <2>1, FS_Injection
<1>9. \A n \in 0..(N - 1) : \E i \in S : rank[i] = n
  BY <1>8 DEF Surjection
<1> QED BY <1>4, <1>5, <1>9 DEF rank, N

-----------------------------------------------------------------------------
(* Prefix sums.  H[z] is what thread z starts with; in the round of stride  *)
(* k, it has added up what the k threads up to it started with.             *)

LastOf(H, x, k) == UNION {H[z] : z \in {u \in 0..x : x < u + k}}
CountOf(H, x, k) == Cardinality(LastOf(H, x, k))
Through(H, x) == UNION {H[z] : z \in 0..x}

Apart(H, n, All) ==
  /\ IsFiniteSet(All)
  /\ \A x \in 0..(n - 1) : H[x] \subseteq All
  /\ \A x, z \in 0..(n - 1) : x # z => H[x] \cap H[z] = {}

(* A sum over twice as many is that sum and the one below.                  *)
LEMMA SpanDoubles ==
  ASSUME NEW n \in Nat, NEW H, NEW All, Apart(H, n, All),
         NEW x \in 0..(n - 1), NEW k \in Nat \ {0}
  PROVE  /\ IsFiniteSet(LastOf(H, x, k)) /\ CountOf(H, x, k) \in Nat
         /\ x >= k => CountOf(H, x, 2 * k) = CountOf(H, x, k) + CountOf(H, x - k, k)
         /\ x < k => CountOf(H, x, k) = Cardinality(Through(H, x))
         /\ x < k => CountOf(H, x, 2 * k) = CountOf(H, x, k)
         /\ CountOf(H, x, k) <= CountOf(H, x, 2 * k)
<1>1. ASSUME NEW y \in 0..(n - 1), NEW m \in Nat \ {0}
      PROVE  IsFiniteSet(LastOf(H, y, m)) /\ CountOf(H, y, m) \in Nat
  <2>1. LastOf(H, y, m) \subseteq All
    BY DEF LastOf, Apart
  <2> QED BY <2>1, FS_Subset, FS_CardinalityType DEF Apart, CountOf
<1>2. ASSUME x >= k
      PROVE  CountOf(H, x, 2 * k) = CountOf(H, x, k) + CountOf(H, x - k, k)
  <2>1. x - k \in 0..(n - 1)
    BY <1>2
  <2>2. LastOf(H, x, 2 * k) = LastOf(H, x, k) \cup LastOf(H, x - k, k)
    <3>1. {u \in 0..x : x < u + 2 * k} =
            {u \in 0..x : x < u + k} \cup {u \in 0..(x - k) : x - k < u + k}
      BY <1>2
    <3> QED BY <3>1 DEF LastOf
  <2>3. LastOf(H, x, k) \cap LastOf(H, x - k, k) = {}
    <3>1. \A u, v \in Nat : u <= x /\ x < u + k /\ v <= x - k =>
             u \in 0..(n - 1) /\ v \in 0..(n - 1) /\ u # v
      BY <2>1
    <3> QED BY <3>1 DEF LastOf, Apart
  <2> QED BY <1>1, <2>1, <2>2, <2>3, Together2 DEF CountOf
<1>3. ASSUME x < k
      PROVE  LastOf(H, x, k) = Through(H, x) /\ LastOf(H, x, 2 * k) = Through(H, x)
  <2>1. {u \in 0..x : x < u + k} = 0..x /\ {u \in 0..x : x < u + 2 * k} = 0..x
    BY <1>3
  <2> QED BY <2>1 DEF LastOf, Through
<1>4. CountOf(H, x, k) <= CountOf(H, x, 2 * k)
  <2>1. CASE x < k
    BY <1>1, <1>3, <2>1 DEF CountOf
  <2>2. CASE x >= k
    <3>1. x - k \in 0..(n - 1)
      BY <2>2
    <3> QED BY <1>1, <1>2, <2>2, <3>1
  <2> QED BY <2>1, <2>2
<1> QED BY <1>1, <1>2, <1>3, <1>4 DEF CountOf

(* A single thread's count.                                                 *)
LEMMA SpanOne ==
  ASSUME NEW n \in Nat, NEW H, NEW x \in 0..(n - 1)
  PROVE  CountOf(H, x, 1) = Cardinality(H[x])
<1>1. {u \in 0..x : x < u + 1} = {x}
  OBVIOUS
<1>2. LastOf(H, x, 1) = H[x]
  BY <1>1 DEF LastOf
<1> QED BY <1>2 DEF CountOf

-----------------------------------------------------------------------------
(* The scan of a block, which runs as a loop                                *)

Counts(y) == [x \in 0..(Warp - 1) |-> Cardinality(Hits(y, x))]
Scans == [k : Nat \ {0}, f : [0..(Warp - 1) -> Nat]]
RoundStep == [a \in Scans \X Nat |-> Round(a[1])]
ScanStart(y) == [k |-> 1, f |-> Counts(y)]
ScanRun(y, n) == CHOOSE f : Runs(f, Scans, ScanStart(y), RoundStep, n)

(* A round adds numbers and gives numbers.                                  *)
LEMMA RoundTypes ==
  ASSUME NEW r \in Scans
  PROVE  Round(r) \in Scans
<1>1. r.k \in Nat \ {0} /\ r.f \in [0..(Warp - 1) -> Nat]
  BY DEF Scans
<1>2. ASSUME NEW k \in Nat \ {0}, NEW f \in [0..(Warp - 1) -> Nat]
      PROVE  AddFrom(f, k) \in [0..(Warp - 1) -> Nat]
  <2>1. \A x \in 0..(Warp - 1) : x >= k => x - k \in 0..(Warp - 1)
    BY PairsAssumption
  <2>2. \A x \in 0..(Warp - 1) : (IF x >= k THEN f[x] + f[x - k] ELSE f[x]) \in Nat
    BY <2>1
  <2> QED BY <2>2 DEF AddFrom
<1>3. AddFrom(r.f, r.k) \in [0..(Warp - 1) -> Nat]
  BY <1>1, <1>2
<1> HIDE DEF Scans
<1>4. [k |-> 2 * r.k, f |-> AddFrom(r.f, r.k)] \in Scans
  BY <1>1, <1>3 DEF Scans
<1> QED BY <1>4 DEF Round

(* The rounds of Scan follow each other.                                    *)
LEMMA ScanLoops ==
  ASSUME NEW y, \A x \in 0..(Warp - 1) : Cardinality(Hits(y, x)) \in Nat
  PROVE  \E g : /\ g[0] = ScanStart(y) /\ Scan(y) = g[Warp].f
                /\ \A n \in Nat : g[n] \in Scans /\ g[n + 1] = Round(g[n])
<1> DEFINE start == ScanStart(y)
           F(f) == [n \in Nat |-> IF n = 0 THEN start ELSE Round(f[n - 1])]
           p == [n \in Nat |-> ScanRun(y, n)[n]]
<1>1. start \in Scans
  BY DEF ScanStart, Counts, Scans
<1>2. \A q \in Scans, n \in Nat : RoundStep[<<q, n>>] = Round(q) /\ Round(q) \in Scans
  BY RoundTypes DEF RoundStep
<1> HIDE DEF start
<1>3. ASSUME NEW n \in Nat PROVE Runs(ScanRun(y, n), Scans, start, RoundStep, n)
  <2>1. \A q \in Scans, k \in 1..n : RoundStep[<<q, k>>] \in Scans
    <3> TAKE q \in Scans, k \in 1..n
    <3>1. k \in Nat
      OBVIOUS
    <3> QED BY <1>2, <3>1
  <2>2. \E f : Runs(f, Scans, start, RoundStep, n)
    BY <1>1, <2>1, Recursion
  <2> QED BY <2>2 DEF ScanRun, start
<1>4. ASSUME NEW n \in Nat
      PROVE  p[n] \in Scans /\ p[n] = IF n = 0 THEN start ELSE Round(p[n - 1])
  <2>1. p[n] = ScanRun(y, n)[n] /\ p[n] \in Scans
    <3>1. n \in 0..n
      OBVIOUS
    <3> QED BY <1>3, <3>1 DEF Runs
  <2>2. CASE n = 0
    BY <1>3, <2>1, <2>2 DEF Runs
  <2>3. CASE n # 0
    <3>1. n - 1 \in Nat /\ n - 1 <= n /\ n \in 1..n /\ n - 1 \in 0..n
      BY <2>3
    <3>2. ScanRun(y, n)[n - 1] = ScanRun(y, n - 1)[n - 1]
      BY <1>3, <3>1, OneRun
    <3>3. Runs(ScanRun(y, n), Scans, start, RoundStep, n)
      BY <1>3
    <3>4. /\ ScanRun(y, n)[n - 1] \in Scans
          /\ ScanRun(y, n)[n] = RoundStep[<<ScanRun(y, n)[n - 1], n>>]
      BY <3>1, <3>3 DEF Runs
    <3>5. ScanRun(y, n)[n] = Round(ScanRun(y, n)[n - 1])
      BY <1>2, <3>4
    <3>6. p[n - 1] = ScanRun(y, n - 1)[n - 1]
      BY <3>1
    <3> HIDE DEF p
    <3> QED BY <2>1, <2>3, <3>2, <3>5, <3>6
  <2> QED BY <2>2, <2>3
<1>5. p = F(p)
  BY <1>4
<1> DEFINE g == CHOOSE f : f = F(f)
<1>6. g = F(g)
  <2> HIDE DEF p, F
  <2> QED BY <1>5
<1>7. \A n \in Nat : g[n] = IF n = 0 THEN start ELSE Round(g[n - 1])
  <2> HIDE DEF g
  <2> QED BY <1>6
<1>8. Scan(y) = g[Warp].f
  BY DEF Scan, start, ScanStart, Counts
<1> HIDE DEF g
<1>9. \A n \in Nat : g[n] \in Scans
  <2> DEFINE T == {n \in Nat : g[n] \notin Scans}
  <2> SUFFICES ASSUME T # {} PROVE FALSE
    OBVIOUS
  <2>1. PICK m \in T : \A k \in T : m <= k
    <3>1. T \in SUBSET Nat
      OBVIOUS
    <3> HIDE DEF T
    <3> QED BY <3>1, Least
  <2>2. m \in Nat /\ g[m] \notin Scans /\ m # 0
    BY <1>1, <1>7
  <2>3. m - 1 \in Nat /\ m - 1 \notin T
    <3>1. m - 1 \in Nat /\ ~(m <= m - 1)
      BY <2>2
    <3> HIDE DEF T
    <3> QED BY <2>1, <3>1
  <2>4. g[m - 1] \in Scans /\ g[m] = Round(g[m - 1])
    BY <1>7, <2>2, <2>3
  <2> QED BY <2>2, <2>4, RoundTypes
<1>10. g[0] = start /\ \A n \in Nat : g[n + 1] = Round(g[n])
  <2>1. \A n \in Nat : n + 1 \in Nat /\ n + 1 # 0 /\ (n + 1) - 1 = n
    OBVIOUS
  <2> QED BY <1>7, <2>1
<1> QED BY <1>8, <1>9, <1>10 DEF start

(* It adds up what the threads before have counted.                         *)
LaneHits(y) == [x \in 0..(Warp - 1) |-> Hits(y, x)]

(* One round keeps that.                                                    *)
LEMMA RoundAdds ==
  ASSUME NEW H, NEW All, Apart(H, Warp, All), NEW n \in Nat, NEW r \in Scans,
         r.k > n \/ r.k >= Warp, \A x \in 0..(Warp - 1) : r.f[x] = CountOf(H, x, r.k)
  PROVE  /\ Round(r).k > n + 1 \/ Round(r).k >= Warp
         /\ \A x \in 0..(Warp - 1) : Round(r).f[x] = CountOf(H, x, Round(r).k)
<1>1. r.k \in Nat \ {0} /\ r.f \in [0..(Warp - 1) -> Nat] /\ Warp \in Nat
  BY PairsAssumption DEF Scans
<1>2. CASE r.k >= Warp
  <2>1. Round(r) = r
    BY <1>1, <1>2 DEF Round
  <2> QED BY <1>2, <2>1
<1>3. CASE r.k < Warp
  <2>1. Round(r) = [k |-> 2 * r.k, f |-> AddFrom(r.f, r.k)]
    BY <1>3 DEF Round
  <2>2. Round(r).k = 2 * r.k /\ Round(r).f = AddFrom(r.f, r.k)
    BY <2>1
  <2>3. r.k > n
    BY <1>1, <1>3
  <2>4. 2 * r.k > n + 1
    BY <1>1, <2>3
  <2>5. ASSUME NEW x \in 0..(Warp - 1)
        PROVE  AddFrom(r.f, r.k)[x] = CountOf(H, x, 2 * r.k)
    <3>1. AddFrom(r.f, r.k)[x] = IF x >= r.k THEN r.f[x] + r.f[x - r.k] ELSE r.f[x]
      BY <1>1 DEF AddFrom
    <3>2. CASE x >= r.k
      <4>1. x - r.k \in 0..(Warp - 1)
        BY <1>1, <3>2
      <4>2. CountOf(H, x, 2 * r.k) = CountOf(H, x, r.k) + CountOf(H, x - r.k, r.k)
        BY <1>1, <3>2, SpanDoubles
      <4> QED BY <3>1, <3>2, <4>1, <4>2
    <3>3. CASE ~(x >= r.k)
      <4>1. x < r.k
        BY <1>1, <3>3
      <4>2. CountOf(H, x, 2 * r.k) = CountOf(H, x, r.k)
        BY <1>1, <4>1, SpanDoubles
      <4> QED BY <3>1, <3>3, <4>2
    <3> QED BY <3>2, <3>3
  <2> QED BY <2>2, <2>4, <2>5
<1> QED BY <1>1, <1>2, <1>3

(* So in the end there is the whole prefix sum.                             *)
LEMMA ScanAdds ==
  ASSUME NEW y, NEW All, Apart(LaneHits(y), Warp, All)
  PROVE  /\ Scan(y) \in [0..(Warp - 1) -> Nat]
         /\ \A x \in 0..(Warp - 1) : Scan(y)[x] = Cardinality(Through(LaneHits(y), x))
<1> DEFINE H == LaneHits(y)
<1>1. \A x \in 0..(Warp - 1) :
        /\ H[x] = Hits(y, x) /\ IsFiniteSet(H[x]) /\ Cardinality(Hits(y, x)) \in Nat
  <2> TAKE x \in 0..(Warp - 1)
  <2>1. H[x] = Hits(y, x) /\ H[x] \subseteq All /\ IsFiniteSet(All)
    BY DEF LaneHits, Apart
  <2>2. IsFiniteSet(H[x])
    BY <2>1, FS_Subset
  <2> HIDE DEF H
  <2> QED BY <2>1, <2>2, FS_CardinalityType
<1>2. PICK g : /\ g[0] = ScanStart(y) /\ Scan(y) = g[Warp].f
               /\ \A n \in Nat : g[n] \in Scans /\ g[n + 1] = Round(g[n])
  BY <1>1, ScanLoops
<1> DEFINE Good(n) == /\ g[n].k > n \/ g[n].k >= Warp
                      /\ \A x \in 0..(Warp - 1) : g[n].f[x] = CountOf(H, x, g[n].k)
<1>3. Good(0)
  <2>1. g[0].k = 1 /\ g[0].f = Counts(y)
    BY <1>2 DEF ScanStart
  <2>2. \A x \in 0..(Warp - 1) : Counts(y)[x] = CountOf(H, x, 1)
    <3> TAKE x \in 0..(Warp - 1)
    <3>1. CountOf(H, x, 1) = Cardinality(H[x])
      BY SpanOne, PairsAssumption
    <3> QED BY <1>1, <3>1 DEF Counts
  <2> HIDE DEF H
  <2> QED BY <2>1, <2>2
<1>4. ASSUME NEW n \in Nat, Good(n) PROVE Good(n + 1)
  <2>1. g[n] \in Scans /\ g[n + 1] = Round(g[n])
    BY <1>2
  <2> HIDE DEF H
  <2>2. Apart(H, Warp, All)
    BY DEF H
  <2> QED BY <1>4, <2>1, <2>2, RoundAdds
<1>5. Good(Warp)
  <2> HIDE DEF Good
  <2> DEFINE T == {n \in Nat : ~Good(n)}
  <2> SUFFICES ASSUME T # {} PROVE FALSE
    BY PairsAssumption
  <2>1. PICK m \in T : \A k \in T : m <= k
    <3>1. T \in SUBSET Nat
      OBVIOUS
    <3> HIDE DEF T
    <3> QED BY <3>1, Least
  <2>2. m \in Nat /\ ~Good(m) /\ m # 0
    BY <1>3
  <2>3. m - 1 \in Nat /\ m - 1 \notin T
    <3>1. m - 1 \in Nat /\ ~(m <= m - 1)
      BY <2>2
    <3> HIDE DEF T
    <3> QED BY <2>1, <3>1
  <2>4. Good(m - 1) /\ (m - 1) + 1 = m
    BY <2>2, <2>3
  <2>5. Good((m - 1) + 1)
    BY <1>4, <2>3, <2>4
  <2> QED BY <2>2, <2>4, <2>5
<1>6. g[Warp].k \in Nat \ {0} /\ g[Warp].k >= Warp /\ g[Warp].f \in [0..(Warp - 1) -> Nat]
  <2>1. g[Warp] \in Scans /\ Warp \in Nat
    BY <1>2, PairsAssumption
  <2> QED BY <1>5, <2>1 DEF Scans
<1>7. ASSUME NEW x \in 0..(Warp - 1) PROVE Scan(y)[x] = Cardinality(Through(H, x))
  <2>1. x < g[Warp].k
    BY <1>6, PairsAssumption
  <2>2. CountOf(H, x, g[Warp].k) = Cardinality(Through(H, x))
    <3> HIDE DEF H
    <3>1. Apart(H, Warp, All)
      BY DEF H
    <3> QED BY <1>6, <2>1, <3>1, SpanDoubles, PairsAssumption
  <2> QED BY <1>2, <1>5, <2>2
<1> QED BY <1>2, <1>6, <1>7

-----------------------------------------------------------------------------
(* The cells of the matrix in parts, words and lanes                        *)

(* Division by any number.                                                  *)
LEMMA Quotient ==
  ASSUME NEW n \in Nat, NEW d \in Nat \ {0}
  PROVE  /\ n \div d \in Nat /\ n % d \in 0..(d - 1)
         /\ n = d * (n \div d) + (n % d)
  OBVIOUS

(* A quotient and a remainder are the only ones.                            *)
LEMMA OneQuotient ==
  ASSUME NEW d \in Nat \ {0}, NEW a \in Nat, NEW b \in 0..(d - 1)
  PROVE  /\ a * d + b \in Nat
         /\ (a * d + b) \div d = a /\ (a * d + b) % d = b
  BY Z3

(* Greater multiples of greater numbers.                                    *)
LEMMA TimesMonotone ==
  ASSUME NEW a \in Nat, NEW b \in Nat, NEW s \in Nat, a <= b
  PROVE  s * a <= s * b /\ s * a \in Nat /\ s * b \in Nat
  OBVIOUS

(* At most one cell does not fill a word.                                   *)
LEMMA SquareMod ==
  ASSUME NEW n \in Nat
  PROVE  (n * n) % 4 \in {0, 1}
<1> DEFINE m == n \div 2
<1>1. m \in Nat /\ (n = 2 * m \/ n = 2 * m + 1)
  OBVIOUS
<1> HIDE DEF m
<1>2. m * m \in Nat
  BY <1>1
<1>3. CASE n = 2 * m
  <2>1. n * n = 4 * (m * m)
    BY <1>1, <1>3
  <2> QED BY <1>2, <2>1
<1>4. CASE n = 2 * m + 1
  <2>1. n * n = 4 * (m * m + m) + 1
    BY <1>1, <1>4
  <2>2. m * m + m \in Nat
    BY <1>1, <1>2
  <2> DEFINE q == m * m + m
  <2> HIDE DEF q
  <2>3. q \in Nat /\ n * n = 4 * q + 1
    BY <2>1, <2>2 DEF q
  <2> QED BY <2>3
<1> QED BY <1>1, <1>3, <1>4

(* The words of the matrix.                                                 *)
LEMMA TotalFacts ==
  ASSUME NumDocs \in Nat
  PROVE  /\ Total \in Nat /\ Total % 4 = 0 /\ NumDocs * NumDocs \in Nat
         /\ Total <= NumDocs * NumDocs /\ NumDocs * NumDocs <= Total + 1
<1> DEFINE s == NumDocs * NumDocs
<1>1. s \in Nat /\ s % 4 \in {0, 1}
  BY SquareMod
<1>2. Total = (s \div 4) * 4
  BY DEF Total
<1> HIDE DEF s
<1>3. Total \in Nat /\ Total % 4 = 0 /\ Total <= s /\ s <= Total + 1
  BY <1>1, <1>2
<1> QED BY <1>1, <1>3 DEF s

(* The parts begin at words, one after another, the first at the beginning; *)
(* the last ends at the end or behind it.                                   *)
LEMMA BoundFacts ==
  ASSUME NumDocs \in Nat
  PROVE  /\ \A y \in Nat : Bound(y) \in Nat /\ Bound(y) % 4 = 0
         /\ \A y, z \in Nat : y <= z => Bound(y) <= Bound(z)
         /\ Bound(0) = 0 /\ Bound(Parts) >= Total
<1> DEFINE S == (Total + Parts - 1) \div Parts
<1>1. Total \in Nat /\ Total % 4 = 0 /\ Parts \in Nat \ {0}
  BY TotalFacts, PairsAssumption
<1>2. S \in Nat /\ Parts * S >= Total
  <2>1. Total + Parts - 1 \in Nat
    BY <1>1
  <2>2. /\ S \in Nat /\ (Total + Parts - 1) % Parts \in 0..(Parts - 1)
        /\ Total + Parts - 1 = Parts * S + ((Total + Parts - 1) % Parts)
    BY <1>1, <2>1, Quotient
  <2>3. Parts * S \in Nat
    BY <1>1, <2>2
  <2> DEFINE r == (Total + Parts - 1) % Parts
             ps == Parts * S
  <2> HIDE DEF r, S, ps
  <2>4. r \in 0..(Parts - 1) /\ Total + Parts - 1 = ps + r /\ ps \in Nat
    BY <2>2, <2>3 DEF r, ps
  <2>5. ps >= Total
    BY <1>1, <2>4
  <2> QED BY <2>2, <2>5 DEF ps
<1>3. \A y : Bound(y) = ((S * y) \div 4) * 4
  BY DEF Bound
<1> HIDE DEF S
<1>4. ASSUME NEW m \in Nat
      PROVE  /\ (m \div 4) * 4 \in Nat /\ ((m \div 4) * 4) % 4 = 0
             /\ (m \div 4) * 4 <= m /\ m < (m \div 4) * 4 + 4
  OBVIOUS
<1>5. ASSUME NEW y \in Nat PROVE S * y \in Nat
  BY <1>2
<1>6. ASSUME NEW y \in Nat, NEW z \in Nat, y <= z PROVE Bound(y) <= Bound(z)
  <2>1. S * y <= S * z /\ S * y \in Nat /\ S * z \in Nat
    BY <1>2, <1>6, TimesMonotone
  <2>2. \A a, b \in Nat : a <= b => (a \div 4) * 4 <= (b \div 4) * 4
    OBVIOUS
  <2> QED BY <1>3, <2>1, <2>2
<1>7. Bound(0) = 0
  BY <1>2, <1>3
<1>8. Bound(Parts) >= Total
  <2>1. S * Parts \in Nat /\ S * Parts >= Total
    BY <1>1, <1>2
  <2>2. /\ Bound(Parts) \in Nat /\ Bound(Parts) % 4 = 0
        /\ S * Parts < Bound(Parts) + 4
    BY <1>3, <1>4, <2>1
  <2> DEFINE p == S * Parts
             q == Bound(Parts)
  <2> HIDE DEF p, q
  <2>3. p \in Nat /\ p >= Total /\ q \in Nat /\ q % 4 = 0 /\ p < q + 4
    BY <2>1, <2>2 DEF p, q
  <2>4. q >= Total
    BY <1>1, <2>3
  <2> QED BY <2>4 DEF q
<1>9. \A y \in Nat : Bound(y) \in Nat /\ Bound(y) % 4 = 0
  BY <1>3, <1>4, <1>5
<1> QED BY <1>6, <1>7, <1>8, <1>9

(* The ends are words, too.                                                 *)
LEMMA PartRange ==
  ASSUME NumDocs \in Nat, NEW y \in Nat
  PROVE  /\ FirstCell(y) \in Nat /\ FirstCell(y) % 4 = 0
         /\ EndCell(y) \in Nat /\ EndCell(y) % 4 = 0 /\ EndCell(y) <= Total
         /\ EndCell(y) <= Bound(y + 1)
<1>1. Total \in Nat /\ Total % 4 = 0
  BY TotalFacts
<1>2. Bound(y) \in Nat /\ Bound(y) % 4 = 0 /\ Bound(y + 1) \in Nat /\ Bound(y + 1) % 4 = 0
  BY BoundFacts
<1> QED BY <1>1, <1>2 DEF FirstCell, EndCell

PartCells(y) == FirstCell(y)..(EndCell(y) - 1)
LaneIn(y, i) == ((i - FirstCell(y)) \div 4) % Warp

(* Every cell that is reduced is in one part.                               *)
LEMMA OnePart ==
  ASSUME NumDocs \in Nat
  PROVE  /\ \A i \in 0..(Total - 1) : \E y \in PartIds : i \in PartCells(y)
         /\ \A y \in PartIds : PartCells(y) \subseteq 0..(Total - 1)
         /\ \A y, z \in PartIds : y # z => PartCells(y) \cap PartCells(z) = {}
<1>1. Total \in Nat /\ Parts \in Nat \ {0}
  BY TotalFacts, PairsAssumption
<1>2. ASSUME NEW i \in 0..(Total - 1) PROVE \E y \in PartIds : i \in PartCells(y)
  <2> DEFINE T == {z \in Nat : i < Bound(z + 1)}
  <2>1. Parts - 1 \in T
    <3>1. (Parts - 1) + 1 = Parts /\ Bound(Parts) >= Total /\ Bound(Parts) \in Nat
      BY <1>1, BoundFacts
    <3>2. i < Bound((Parts - 1) + 1)
      BY <1>1, <3>1
    <3> QED BY <1>1, <3>2
  <2>2. PICK m \in T : \A k \in T : m <= k
    <3>1. T \in SUBSET Nat /\ T # {}
      BY <2>1
    <3> HIDE DEF T
    <3> QED BY <3>1, Least
  <2>3. m \in PartIds /\ m \in Nat /\ i < Bound(m + 1)
    BY <1>1, <2>1, <2>2 DEF PartIds
  <2>4. Bound(m) <= i
    <3>1. CASE m = 0
      BY <1>1, <3>1, BoundFacts
    <3>2. CASE m # 0
      <4>1. m - 1 \in Nat /\ ~(m <= m - 1) /\ (m - 1) + 1 = m
        BY <2>3, <3>2
      <4>2. m - 1 \notin T
        <5> HIDE DEF T
        <5> QED BY <2>2, <4>1
      <4>3. ~(i < Bound((m - 1) + 1))
        BY <4>1, <4>2
      <4>4. Bound(m) \in Nat
        BY <2>3, BoundFacts
      <4> QED BY <4>1, <4>3, <4>4
    <3> QED BY <3>1, <3>2
  <2>5. Bound(m) \in Nat /\ Bound(m + 1) \in Nat
    BY <2>3, BoundFacts
  <2> HIDE DEF T
  <2>6. i \in PartCells(m)
    BY <1>1, <2>3, <2>4, <2>5 DEF PartCells, FirstCell, EndCell
  <2> QED BY <2>3, <2>6
<1>3. ASSUME NEW y \in PartIds PROVE PartCells(y) \subseteq 0..(Total - 1)
  <2>1. y \in Nat
    BY <1>1 DEF PartIds
  <2>2. FirstCell(y) \in Nat /\ EndCell(y) \in Nat /\ EndCell(y) <= Total
    BY <2>1, PartRange
  <2> QED BY <1>1, <2>2 DEF PartCells
<1>4. ASSUME NEW y \in PartIds, NEW z \in PartIds, y < z
      PROVE  PartCells(y) \cap PartCells(z) = {}
  <2>1. y \in Nat /\ z \in Nat /\ y + 1 \in Nat /\ y + 1 <= z
    BY <1>1, <1>4 DEF PartIds
  <2>2. EndCell(y) <= Bound(y + 1) /\ Bound(y + 1) <= FirstCell(z)
        /\ EndCell(y) \in Nat /\ Bound(y + 1) \in Nat /\ FirstCell(z) \in Nat
    BY <2>1, PartRange, BoundFacts DEF FirstCell
  <2> QED BY <2>2 DEF PartCells
<1>5. \A y, z \in PartIds : y # z => y < z \/ z < y
  BY <1>1 DEF PartIds
<1> QED BY <1>2, <1>3, <1>4, <1>5

(* The cells of a thread, as they are found in its words.                   *)
LEMMA HitsAre ==
  ASSUME NumDocs \in Nat, NEW y \in PartIds, NEW x \in 0..(Warp - 1)
  PROVE  Hits(y, x) = {i \in PartCells(y) : LaneIn(y, i) = x /\ matrix[Cell(i)] = 1}
<1>1. y \in Nat /\ Warp \in Nat \ {0}
  BY PairsAssumption DEF PartIds
<1> DEFINE f == FirstCell(y)
           e == EndCell(y)
<1>2. f \in Nat /\ f % 4 = 0 /\ e \in Nat /\ e % 4 = 0
  BY <1>1, PartRange
<1>3. ASSUME NEW w \in f..(e - 1), w % 4 = 0, NEW i \in w..(w + 3)
      PROVE  i \in f..(e - 1) /\ (i - f) \div 4 = (w - f) \div 4
  <2> HIDE DEF f, e
  <2> QED BY <1>2, <1>3
<1>4. ASSUME NEW i \in f..(e - 1)
      PROVE  /\ i - (i % 4) \in f..(e - 1) /\ (i - (i % 4)) % 4 = 0
             /\ i \in (i - (i % 4))..((i - (i % 4)) + 3)
             /\ (i - f) \div 4 = ((i - (i % 4)) - f) \div 4
  <2> HIDE DEF f, e
  <2>1. i \in Nat /\ i % 4 \in 0..3
    BY <1>2
  <2> DEFINE k == i \div 4
             g == f \div 4
  <2>2. k \in Nat /\ i = 4 * k + (i % 4) /\ g \in Nat /\ f = 4 * g
    BY <1>2, <2>1
  <2> DEFINE r == i % 4
  <2> HIDE DEF k, g, r
  <2>3. r \in 0..3 /\ i = 4 * k + r
    BY <2>1, <2>2 DEF r
  <2>4. i - r = 4 * k
    BY <2>2, <2>3
  <2>5. (i - r) % 4 = 0 /\ i \in (i - r)..((i - r) + 3) /\ i - r \in f..(e - 1)
    BY <1>2, <2>2, <2>3, <2>4
  <2>6. (i - f) \div 4 = k - g /\ ((i - r) - f) \div 4 = k - g
    BY <1>2, <2>2, <2>3, <2>4
  <2> QED BY <2>5, <2>6 DEF r
<1>5. WordsOf(y, x) = {w \in f..(e - 1) : w % 4 = 0 /\ ((w - f) \div 4) % Warp = x}
  BY DEF WordsOf
<1>6. Hits(y, x) = {i \in UNION {w..(w + 3) : w \in WordsOf(y, x)} : matrix[Cell(i)] = 1}
  BY DEF Hits
<1>7. PartCells(y) = f..(e - 1) /\ \A i : LaneIn(y, i) = ((i - f) \div 4) % Warp
  BY DEF PartCells, LaneIn
<1> HIDE DEF f, e
<1>8. ASSUME NEW i
      PROVE  i \in UNION {w..(w + 3) : w \in WordsOf(y, x)} <=>
               i \in f..(e - 1) /\ ((i - f) \div 4) % Warp = x
  <2>1. ASSUME NEW w \in WordsOf(y, x), i \in w..(w + 3)
        PROVE  i \in f..(e - 1) /\ ((i - f) \div 4) % Warp = x
    <3>1. w \in f..(e - 1) /\ w % 4 = 0 /\ ((w - f) \div 4) % Warp = x
      BY <1>5, <2>1
    <3>2. i \in f..(e - 1) /\ (i - f) \div 4 = (w - f) \div 4
      BY <1>3, <2>1, <3>1
    <3> QED BY <3>1, <3>2
  <2>2. ASSUME i \in f..(e - 1), ((i - f) \div 4) % Warp = x
        PROVE  \E w \in WordsOf(y, x) : i \in w..(w + 3)
    <3>1. i - (i % 4) \in WordsOf(y, x)
      BY <1>4, <1>5, <2>2
    <3> QED BY <1>4, <2>2, <3>1
  <2> QED BY <2>1, <2>2
<1> QED BY <1>6, <1>7, <1>8

-----------------------------------------------------------------------------
(* The cells that hold a one, by part and in the order of the list          *)

AllHits == {i \in 0..(Total - 1) : matrix[Cell(i)] = 1}
PartHits == [y \in PartIds |-> {i \in PartCells(y) : matrix[Cell(i)] = 1}]

(* Each is in one part.                                                     *)
LEMMA PartsApart ==
  ASSUME NumDocs \in Nat
  PROVE  /\ Apart(PartHits, Parts, AllHits)
         /\ Through(PartHits, Parts - 1) = AllHits
<1>1. Total \in Nat /\ Parts \in Nat \ {0} /\ PartIds = 0..(Parts - 1)
  BY TotalFacts, PairsAssumption DEF PartIds
<1>2. IsFiniteSet(AllHits)
  <2>1. IsFiniteSet(0..(Total - 1))
    BY <1>1, FS_Interval
  <2>2. AllHits \subseteq 0..(Total - 1)
    BY DEF AllHits
  <2> QED BY <2>1, <2>2, FS_Subset
<1>3. \A y \in PartIds : PartHits[y] = {i \in PartCells(y) : matrix[Cell(i)] = 1}
  BY DEF PartHits
<1>4. \A y \in PartIds : PartHits[y] \subseteq AllHits
  BY <1>3, OnePart DEF AllHits
<1>5. \A y, z \in PartIds : y # z => PartHits[y] \cap PartHits[z] = {}
  BY <1>3, OnePart
<1>6. \A i \in AllHits : \E y \in PartIds : i \in PartHits[y]
  BY <1>3, OnePart DEF AllHits
<1>7. Through(PartHits, Parts - 1) = AllHits
  <2>1. Through(PartHits, Parts - 1) = UNION {PartHits[z] : z \in PartIds}
    BY <1>1 DEF Through
  <2> QED BY <1>4, <1>6, <2>1
<1> QED BY <1>1, <1>2, <1>4, <1>5, <1>7 DEF Apart

(* Each cell of a part is in one lane.                                      *)
LEMMA LanesApart ==
  ASSUME NumDocs \in Nat, NEW y \in PartIds
  PROVE  /\ Apart(LaneHits(y), Warp, AllHits)
         /\ Through(LaneHits(y), Warp - 1) = PartHits[y]
<1>1. Warp \in Nat \ {0}
  BY PairsAssumption
<1>2. \A x \in 0..(Warp - 1) :
        LaneHits(y)[x] = {i \in PartHits[y] : LaneIn(y, i) = x}
  BY HitsAre DEF LaneHits, PartHits
<1>3. PartHits[y] \subseteq AllHits /\ IsFiniteSet(AllHits)
  <2>1. y \in 0..(Parts - 1)
    BY DEF PartIds
  <2> QED BY <2>1, PartsApart DEF Apart
<1>4. \A i \in PartHits[y] : LaneIn(y, i) \in 0..(Warp - 1)
  <2> TAKE i \in PartHits[y]
  <2>1. i \in PartCells(y)
    BY DEF PartHits
  <2>2. FirstCell(y) \in Nat /\ EndCell(y) \in Nat
    BY PartRange, PairsAssumption DEF PartIds
  <2>3. i - FirstCell(y) \in Nat
    BY <2>1, <2>2 DEF PartCells
  <2>4. (i - FirstCell(y)) \div 4 \in Nat
    BY <2>3
  <2> QED BY <1>1, <2>4 DEF LaneIn
<1>5. Through(LaneHits(y), Warp - 1) = UNION {LaneHits(y)[z] : z \in 0..(Warp - 1)}
  BY DEF Through
<1>6. Through(LaneHits(y), Warp - 1) = PartHits[y]
  <2> DEFINE H == LaneHits(y)
             P == PartHits[y]
  <2>1. \A x \in 0..(Warp - 1) : H[x] = {i \in P : LaneIn(y, i) = x}
    BY <1>2
  <2>2. Through(H, Warp - 1) = UNION {H[z] : z \in 0..(Warp - 1)}
    BY <1>5
  <2>3. \A i \in P : LaneIn(y, i) \in 0..(Warp - 1)
    BY <1>4
  <2> HIDE DEF H, P
  <2>4. \A i \in P : i \in H[LaneIn(y, i)]
    BY <2>1, <2>3
  <2>5. \A z \in 0..(Warp - 1) : H[z] \subseteq P
    BY <2>1
  <2>6. Through(H, Warp - 1) = P
    BY <2>2, <2>3, <2>4, <2>5
  <2> QED BY <2>6 DEF H, P
<1>7. /\ \A x \in 0..(Warp - 1) : LaneHits(y)[x] \subseteq AllHits
      /\ \A x, z \in 0..(Warp - 1) : x # z => LaneHits(y)[x] \cap LaneHits(y)[z] = {}
  BY <1>2, <1>3
<1> QED BY <1>3, <1>6, <1>7 DEF Apart

(* The list has the parts one after another, in each part the lanes, and in *)
(* each lane the last cell first.                                           *)
PartAt(i) == CHOOSE y \in PartIds : i \in PartCells(y)
Later(y, z, a, b, i, j) == y < z \/ (y = z /\ (a < b \/ (a = b /\ j < i)))
Order ==
  {p \in AllHits \X AllHits :
     Later(PartAt(p[1]), PartAt(p[2]), LaneIn(PartAt(p[1]), p[1]), LaneIn(PartAt(p[2]), p[2]),
           p[1], p[2])}

(* The part of a cell, and its lane.                                        *)
LEMMA Placed ==
  ASSUME NumDocs \in Nat
  PROVE  /\ \A i \in AllHits : /\ PartAt(i) \in PartIds /\ i \in PartHits[PartAt(i)]
                               /\ LaneIn(PartAt(i), i) \in 0..(Warp - 1)
                               /\ i \in Hits(PartAt(i), LaneIn(PartAt(i), i))
         /\ \A y \in PartIds : \A i \in PartHits[y] : i \in AllHits /\ PartAt(i) = y
         /\ \A y \in PartIds, x \in 0..(Warp - 1) : \A i \in Hits(y, x) :
              i \in AllHits /\ PartAt(i) = y /\ LaneIn(y, i) = x /\ i \in PartHits[y]
<1>1. ASSUME NEW i \in AllHits
      PROVE  PartAt(i) \in PartIds /\ i \in PartHits[PartAt(i)]
  <2>1. \E y \in PartIds : i \in PartCells(y)
    BY OnePart DEF AllHits
  <2>2. PartAt(i) \in PartIds /\ i \in PartCells(PartAt(i))
    BY <2>1 DEF PartAt
  <2> QED BY <2>2 DEF PartHits, AllHits
<1>2. ASSUME NEW y \in PartIds, NEW i \in PartHits[y]
      PROVE  i \in AllHits /\ PartAt(i) = y
  <2>1. i \in PartCells(y) /\ matrix[Cell(i)] = 1
    BY DEF PartHits
  <2>2. i \in AllHits
    BY <2>1, OnePart DEF AllHits
  <2>3. PartAt(i) \in PartIds /\ i \in PartCells(PartAt(i))
    BY <1>1, <2>2 DEF PartHits
  <2> QED BY <2>1, <2>2, <2>3, OnePart
<1>3. ASSUME NEW y \in PartIds, NEW x \in 0..(Warp - 1), NEW i \in Hits(y, x)
      PROVE  LaneIn(y, i) = x /\ i \in PartHits[y]
  BY HitsAre DEF PartHits
<1>4. ASSUME NEW i \in AllHits
      PROVE  /\ LaneIn(PartAt(i), i) \in 0..(Warp - 1)
             /\ i \in Hits(PartAt(i), LaneIn(PartAt(i), i))
  <2> DEFINE y == PartAt(i)
  <2>1. y \in PartIds /\ i \in PartHits[y]
    BY <1>1
  <2> HIDE DEF y
  <2>2. \E x \in 0..(Warp - 1) : i \in LaneHits(y)[x]
    <3>1. i \in UNION {LaneHits(y)[z] : z \in 0..(Warp - 1)}
      BY <2>1, LanesApart DEF Through
    <3> QED BY <3>1
  <2>3. PICK x \in 0..(Warp - 1) : i \in LaneHits(y)[x]
    BY <2>2
  <2>4. i \in Hits(y, x)
    BY <2>3 DEF LaneHits
  <2>5. LaneIn(y, i) = x
    BY <1>3, <2>1, <2>4
  <2> QED BY <2>4, <2>5 DEF y
<1> QED BY <1>1, <1>2, <1>3, <1>4

(* It is an order.                                                          *)
LEMMA OrderIsStrict ==
  ASSUME NumDocs \in Nat
  PROVE  Strict(AllHits, Order)
<1> DEFINE y(i) == PartAt(i)
           a(i) == LaneIn(PartAt(i), i)
<1>1. \A i, j : <<i, j>> \in Order <=>
        i \in AllHits /\ j \in AllHits /\ Later(y(i), y(j), a(i), a(j), i, j)
  BY DEF Order
<1>2. \A i \in AllHits : y(i) \in Int /\ a(i) \in Int /\ i \in Int
  BY Placed, TotalFacts DEF AllHits, PartIds
<1> HIDE DEF y, a
<1> QED BY <1>1, <1>2 DEF Strict, Later

(* The rank of a cell, from what the scans give.                            *)
LEMMA EntryRank ==
  ASSUME NumDocs \in Nat, NEW y \in PartIds, NEW x \in 0..(Warp - 1), NEW i \in Hits(y, x)
  PROVE  LET upto == {j \in Hits(y, x) : j <= i} IN
         /\ i \in AllHits
         /\ Cardinality(Prior(AllHits, Order, i)) =
              Cardinality(Through(PartHits, y)) - Cardinality(PartHits[y])
                + Cardinality(Through(LaneHits(y), x)) - Cardinality(upto)
         /\ Cardinality(Through(PartHits, y)) \in Nat /\ Cardinality(PartHits[y]) \in Nat
         /\ Cardinality(Through(LaneHits(y), x)) \in Nat /\ Cardinality(upto) \in Nat
         /\ Cardinality(upto) <= Cardinality(Through(LaneHits(y), x))
<1> DEFINE A == Through(PartHits, y)
           B == PartHits[y]
           C == Through(LaneHits(y), x)
           D == {j \in Hits(y, x) : j <= i}
<1>1. PartIds = 0..(Parts - 1) /\ Parts \in Nat /\ y \in 0..y /\ x \in 0..x
  BY PairsAssumption DEF PartIds
<1>2. i \in AllHits /\ PartAt(i) = y /\ LaneIn(y, i) = x
  BY Placed
<1>3. \A j \in A : j \in AllHits /\ PartAt(j) <= y
  <2>1. \A z \in 0..y : z \in PartIds /\ z <= y
    BY <1>1
  <2> QED BY <2>1, Placed DEF Through
<1>4. \A j \in AllHits : PartAt(j) <= y => j \in A
  <2> SUFFICES ASSUME NEW j \in AllHits, PartAt(j) <= y PROVE j \in A
    OBVIOUS
  <2>1. PartAt(j) \in 0..y /\ j \in PartHits[PartAt(j)]
    BY <1>1, Placed
  <2> QED BY <2>1 DEF Through
<1>5. \A j : j \in B <=> j \in AllHits /\ PartAt(j) = y
  BY Placed
<1>6. \A z \in 0..x : z \in 0..(Warp - 1) /\ LaneHits(y)[z] = Hits(y, z)
  BY PairsAssumption DEF LaneHits
<1>7. \A j : j \in C <=> j \in AllHits /\ PartAt(j) = y /\ LaneIn(y, j) <= x
  <2>1. ASSUME NEW j \in C PROVE j \in AllHits /\ PartAt(j) = y /\ LaneIn(y, j) <= x
    <3>1. PICK z \in 0..x : j \in LaneHits(y)[z]
      BY DEF Through
    <3>2. j \in AllHits /\ PartAt(j) = y /\ LaneIn(y, j) = z
      BY <1>6, <3>1, Placed
    <3> QED BY <3>2
  <2>2. ASSUME NEW j \in AllHits, PartAt(j) = y, LaneIn(y, j) <= x PROVE j \in C
    <3>1. LaneIn(y, j) \in 0..x /\ j \in Hits(y, LaneIn(y, j))
      BY <2>2, Placed, PairsAssumption
    <3>2. j \in LaneHits(y)[LaneIn(y, j)]
      BY <1>6, <3>1
    <3> QED BY <3>1, <3>2 DEF Through
  <2> QED BY <2>1, <2>2
<1>8. \A j : j \in D <=> j \in AllHits /\ PartAt(j) = y /\ LaneIn(y, j) = x /\ j <= i
  BY Placed
<1>9. \A j \in AllHits : j \in Int /\ PartAt(j) \in Int /\ LaneIn(PartAt(j), j) \in Int
  BY Placed, TotalFacts DEF AllHits, PartIds
<1>10. Prior(AllHits, Order, i) = (A \ B) \cup (C \ D)
  <2> HIDE DEF A, B, C, D
  <2>1. \A j \in AllHits :
          <<j, i>> \in Order <=>
            Later(PartAt(j), y, LaneIn(PartAt(j), j), x, j, i)
    BY <1>2 DEF Order
  <2>2. ASSUME NEW j \in AllHits
        PROVE  <<j, i>> \in Order <=> j \in (A \ B) \cup (C \ D)
    <3>1. j \in A <=> PartAt(j) <= y
      BY <1>3, <1>4
    <3>2. y \in Int /\ x \in Int /\ i \in Int /\ j \in Int /\ PartAt(j) \in Int
          /\ LaneIn(PartAt(j), j) \in Int
      BY <1>2, <1>9
    <3> QED BY <1>5, <1>7, <1>8, <2>1, <3>1, <3>2 DEF Later
  <2>3. (A \ B) \cup (C \ D) \subseteq AllHits
    BY <1>3, <1>7
  <2> QED BY <2>2, <2>3 DEF Prior
<1>11. IsFiniteSet(A) /\ IsFiniteSet(B) /\ IsFiniteSet(C) /\ IsFiniteSet(D)
  <2>1. IsFiniteSet(AllHits)
    BY PartsApart DEF Apart
  <2>2. A \subseteq AllHits /\ B \subseteq AllHits /\ C \subseteq AllHits /\ D \subseteq AllHits
    BY <1>3, <1>5, <1>7, <1>8
  <2> HIDE DEF A, B, C, D
  <2> QED BY <2>1, <2>2, FS_Subset
<1>12. B \subseteq A /\ D \subseteq C /\ (A \ B) \cap (C \ D) = {}
  <2>1. \A j \in B : j \in A
    BY <1>1, <1>4, <1>5
  <2> HIDE DEF A, B, C, D
  <2>2. \A j \in D : j \in C
    BY <1>2, <1>7, <1>8, <1>9
  <2> QED BY <1>5, <1>7, <2>1, <2>2
<1> HIDE DEF A, B, C, D
<1>13. /\ IsFiniteSet(A \ B) /\ Cardinality(A \ B) = Cardinality(A) - Cardinality(B)
       /\ IsFiniteSet(C \ D) /\ Cardinality(C \ D) = Cardinality(C) - Cardinality(D)
  <2>1. A \cap B = B /\ C \cap D = D
    BY <1>12
  <2>2. IsFiniteSet(A \ B) /\ Cardinality(A \ B) = Cardinality(A) - Cardinality(A \cap B)
    BY <1>11, FS_Difference
  <2>3. IsFiniteSet(C \ D) /\ Cardinality(C \ D) = Cardinality(C) - Cardinality(C \cap D)
    BY <1>11, FS_Difference
  <2> QED BY <2>1, <2>2, <2>3
<1>14. /\ Cardinality(A) \in Nat /\ Cardinality(B) \in Nat
       /\ Cardinality(C) \in Nat /\ Cardinality(D) \in Nat
  BY <1>11, FS_CardinalityType
<1>15. Cardinality(D) <= Cardinality(C)
  BY <1>11, <1>12, FS_Subset
<1>16. Cardinality((A \ B) \cup (C \ D)) = Cardinality(A \ B) + Cardinality(C \ D)
  BY <1>12, <1>13, Together2
<1>17. Cardinality(Prior(AllHits, Order, i)) =
         Cardinality(A) - Cardinality(B) + Cardinality(C) - Cardinality(D)
  BY <1>10, <1>13, <1>14, <1>16
<1> QED BY <1>2, <1>14, <1>15, <1>17 DEF A, B, C, D

-----------------------------------------------------------------------------
(* What a block of the third reduction writes, and where                    *)

PlaceOf == Rank(AllHits, Order)

(* Where the sum before its part is right, a cell is written at its rank;   *)
(* and where it is too high, at least at a place of the list.               *)
LEMMA WrittenAtRank ==
  ASSUME NumDocs \in Nat, NEW y \in PartIds, buf[y] \in Nat,
         buf[y] >= Cardinality(Through(PartHits, y))
  PROVE  /\ buf[y] = Cardinality(Through(PartHits, y)) =>
              Written(y) = {<<PlaceOf[i], i>> : i \in PartHits[y]}
         /\ {e[1] : e \in Written(y)} \subseteq Nat
<1> DEFINE upto(x, i) == {j \in Hits(y, x) : j <= i}
           place(x, i) == (Scan(y)[x] + buf[y] - Scan(y)[Warp - 1]) - Cardinality(upto(x, i))
<1>1. \A e : e \in Written(y) <=>
               \E x \in 0..(Warp - 1) : \E i \in Hits(y, x) : e = <<place(x, i), i>>
  <2> DEFINE entries(x) == {<<place(x, i), i>> : i \in Hits(y, x)}
  <2>1. Written(y) = UNION {entries(x) : x \in 0..(Warp - 1)}
    BY DEF Written
  <2> HIDE DEF place
  <2>2. \A x, e : e \in entries(x) <=> \E i \in Hits(y, x) : e = <<place(x, i), i>>
    OBVIOUS
  <2> HIDE DEF entries
  <2> QED BY <2>1, <2>2
<1>2. Warp - 1 \in 0..(Warp - 1)
  BY PairsAssumption
<1>3. \A x \in 0..(Warp - 1) : Scan(y)[x] = Cardinality(Through(LaneHits(y), x))
  BY LanesApart, ScanAdds
<1>4. Scan(y)[Warp - 1] = Cardinality(PartHits[y])
  BY <1>2, <1>3, LanesApart
<1>5. ASSUME NEW x \in 0..(Warp - 1), NEW i \in Hits(y, x)
      PROVE  /\ i \in AllHits /\ i \in PartHits[y] /\ place(x, i) \in Nat
             /\ buf[y] = Cardinality(Through(PartHits, y)) => place(x, i) = PlaceOf[i]
  <2> DEFINE a == Cardinality(Through(PartHits, y))
             b == Cardinality(PartHits[y])
             c == Cardinality(Through(LaneHits(y), x))
             d == Cardinality(upto(x, i))
             r == Cardinality(Prior(AllHits, Order, i))
  <2>1. /\ i \in AllHits /\ r = a - b + c - d
        /\ a \in Nat /\ b \in Nat /\ c \in Nat /\ d \in Nat /\ d <= c
    BY EntryRank
  <2>2. i \in PartHits[y]
    BY Placed
  <2>3. PlaceOf[i] = r
    BY <2>1 DEF PlaceOf, Rank
  <2>4. b <= a
    <3>1. PartHits[y] \subseteq Through(PartHits, y)
      <4>1. y \in 0..y
        BY PairsAssumption DEF PartIds
      <4> QED BY <4>1 DEF Through
    <3>2. IsFiniteSet(Through(PartHits, y))
      <4>1. \A z \in 0..y : z \in 0..(Parts - 1)
        BY PairsAssumption DEF PartIds
      <4>2. Through(PartHits, y) \subseteq AllHits /\ IsFiniteSet(AllHits)
        BY <4>1, PartsApart DEF Through, Apart
      <4> QED BY <4>2, FS_Subset
    <3> QED BY <3>1, <3>2, FS_Subset
  <2>5. place(x, i) = (c + buf[y] - b) - d
    BY <1>3, <1>4
  <2> HIDE DEF a, b, c, d, r, place
  <2>6. buf[y] \in Nat /\ buf[y] >= a
    BY DEF a
  <2>7. place(x, i) \in Nat
    BY <2>1, <2>4, <2>5, <2>6
  <2>8. buf[y] = a => place(x, i) = r
    BY <2>1, <2>5
  <2> QED BY <2>1, <2>2, <2>3, <2>7, <2>8 DEF a
<1> HIDE DEF place
<1>6. {e[1] : e \in Written(y)} \subseteq Nat
  BY <1>1, <1>5
<1>7. ASSUME buf[y] = Cardinality(Through(PartHits, y))
      PROVE  Written(y) = {<<PlaceOf[i], i>> : i \in PartHits[y]}
  <2>1. ASSUME NEW e \in Written(y) PROVE \E i \in PartHits[y] : e = <<PlaceOf[i], i>>
    BY <1>1, <1>5, <1>7
  <2>2. ASSUME NEW i \in PartHits[y] PROVE <<PlaceOf[i], i>> \in Written(y)
    <3>1. \E x \in 0..(Warp - 1) : i \in Hits(y, x)
      BY Placed
    <3>2. PICK x \in 0..(Warp - 1) : i \in Hits(y, x)
      BY <3>1
    <3>3. place(x, i) = PlaceOf[i]
      BY <1>5, <1>7, <3>2
    <3> QED BY <1>1, <3>2, <3>3
  <2> QED BY <2>1, <2>2
<1> QED BY <1>6, <1>7

(* Ranks are taken once each.                                               *)
LEMMA Places ==
  ASSUME NumDocs \in Nat
  PROVE  /\ IsFiniteSet(AllHits) /\ Cardinality(AllHits) \in Nat
         /\ \A i \in AllHits : PlaceOf[i] \in 0..(Cardinality(AllHits) - 1)
         /\ \A i, j \in AllHits : PlaceOf[i] = PlaceOf[j] => i = j
         /\ \A n \in 0..(Cardinality(AllHits) - 1) : \E i \in AllHits : PlaceOf[i] = n
<1>1. IsFiniteSet(AllHits)
  BY PartsApart DEF Apart
<1> QED BY <1>1, OrderIsStrict, RanksFill, FS_CardinalityType DEF PlaceOf

(* A cell and a pair of documents are the same.                             *)
LEMMA CellsArePairs ==
  ASSUME NumDocs \in Nat \ {0}, \A p \in Docs \X Docs : p[1] >= p[2] => matrix[p] = 0
  PROVE  /\ Hit = {Cell(i) : i \in AllHits}
         /\ Cardinality(Hit) = Cardinality(AllHits)
<1> DEFINE n == NumDocs
<1>1. n \in Nat \ {0} /\ n * n \in Nat /\ Total \in Nat /\ Total <= n * n /\ n * n <= Total + 1
  BY TotalFacts
<1>2. ASSUME NEW i \in 0..(Total - 1)
      PROVE  Cell(i) \in Docs \X Docs /\ i = Cell(i)[1] * n + Cell(i)[2]
  <2>1. i \in Nat /\ i < n * n
    BY <1>1
  <2>2. i \div n \in Nat /\ i % n \in 0..(n - 1) /\ i = n * (i \div n) + (i % n)
    BY <1>1, <2>1, Quotient
  <2>3. i \div n < n
    <3> SUFFICES ASSUME n <= i \div n PROVE FALSE
      BY <1>1, <2>2
    <3>1. n * n <= n * (i \div n)
      BY <1>1, <2>2, TimesMonotone
    <3> DEFINE a == n * n
               b == n * (i \div n)
               c == i % n
    <3>2. b \in Nat
      BY <1>1, <2>2
    <3> HIDE DEF a, b, c
    <3>3. a \in Nat /\ b \in Nat /\ c \in Nat /\ i < a /\ i = b + c /\ a <= b
      BY <1>1, <2>1, <2>2, <3>1, <3>2 DEF a, b, c
    <3> QED BY <2>1, <3>3
  <2>4. Cell(i) = <<i \div n, i % n>>
    BY DEF Cell
  <2>5. n * (i \div n) = (i \div n) * n
    BY <1>1, <2>2
  <2>6. i \div n \in Docs /\ i % n \in Docs
    BY <1>1, <2>2, <2>3 DEF Docs
  <2> HIDE DEF n
  <2> QED BY <2>2, <2>4, <2>5, <2>6
<1>3. ASSUME NEW p \in Docs \X Docs, matrix[p] = 1
      PROVE  p[1] * n + p[2] \in AllHits /\ Cell(p[1] * n + p[2]) = p
  <2>1. p[1] \in 0..(n - 1) /\ p[2] \in 0..(n - 1) /\ p = <<p[1], p[2]>>
    BY DEF Docs
  <2>2. p[1] + 2 <= n
    <3>1. ~(p[1] >= p[2])
      BY <1>3
    <3> QED BY <1>1, <2>1, <3>1
  <2> DEFINE i == p[1] * n + p[2]
  <2>3. i \in Nat /\ i \div n = p[1] /\ i % n = p[2]
    BY <1>1, <2>1, OneQuotient
  <2>4. i < Total
    <3>1. n * (p[1] + 2) <= n * n
      BY <1>1, <2>1, <2>2, TimesMonotone
    <3>2. n * (p[1] + 2) = p[1] * n + n + n /\ p[1] * n \in Nat
      BY <1>1, <2>1
    <3> DEFINE q == p[1] * n
               s == n * n
    <3> HIDE DEF q, s
    <3>3. q \in Nat /\ s \in Nat /\ q + n + n <= s /\ s <= Total + 1
      BY <1>1, <3>1, <3>2 DEF q, s
    <3>4. q + p[2] < Total
      BY <1>1, <2>1, <3>3
    <3> QED BY <3>4 DEF q
  <2>5. Cell(i) = <<i \div n, i % n>>
    BY DEF Cell
  <2> HIDE DEF i
  <2>6. Cell(i) = p
    BY <2>1, <2>3, <2>5
  <2>7. i \in AllHits
    BY <1>1, <1>3, <2>3, <2>4, <2>6 DEF AllHits
  <2> QED BY <2>6, <2>7 DEF i
<1>4. \A i \in AllHits : i \in 0..(Total - 1) /\ matrix[Cell(i)] = 1
  BY DEF AllHits
<1> HIDE DEF n
<1>5. Hit = {Cell(i) : i \in AllHits}
  BY <1>2, <1>3, <1>4 DEF Hit
<1>6. Cardinality(Hit) = Cardinality(AllHits)
  <2> DEFINE f == [i \in AllHits |-> Cell(i)]
  <2>1. f \in [AllHits -> Hit] /\ \A p \in Hit : \E i \in AllHits : f[i] = p
    BY <1>5
  <2>2. \A i, j \in AllHits : f[i] = f[j] => i = j
    <3> SUFFICES ASSUME NEW i \in AllHits, NEW j \in AllHits, Cell(i) = Cell(j) PROVE i = j
      OBVIOUS
    <3>1. i = Cell(i)[1] * n + Cell(i)[2] /\ j = Cell(j)[1] * n + Cell(j)[2]
      BY <1>2, <1>4
    <3> QED BY <3>1
  <2>3. f \in Bijection(AllHits, Hit)
    <3> HIDE DEF f
    <3> QED BY <2>1, <2>2 DEF Bijection, Injection, Surjection, IsInjective
  <2>4. IsFiniteSet(AllHits)
    BY <1>1, PartsApart DEF Apart, n
  <2> QED BY <2>3, <2>4, FS_Bijection DEF ExistsBijection
<1> QED BY <1>5, <1>6
-----------------------------------------------------------------------------
(* The reductions                                                           *)

Exact(a, b) == a >= b /\ (~raced => a = b)
Swapped(i) == <<i % NumDocs, i \div NumDocs>>

ReduceTypes ==
  /\ phase \in {"compare", "reduce2", "reduced", "merged"}
  /\ sums \in [PartIds -> Nat] /\ seen \in [PartIds -> Nat] /\ buf \in [PartIds -> Nat]
  /\ stride \in Nat \ {0} /\ wpc \in [Warps -> {"read", "write", "wait"}]
  /\ left \subseteq PartIds /\ DOMAIN output \subseteq Nat

(* What is still as it was at the start.                                    *)
Untouched ==
  /\ phase = "compare" => stride = 1 /\ \A w \in Warps : wpc[w] = "read"
  /\ phase \in {"compare", "reduce2"} => left = PartIds /\ output = <<>>
  /\ phase # "merged" => pairs = {}

(* In the second reduction, the sums of a warp are those of this round or,  *)
(* when it has written, of the next.                                        *)
Scanning ==
  kernel = "lsh" /\ phase = "reduce2" =>
    \A x \in PartIds :
      LET w == x \div Warp IN
      /\ wpc[w] # "wait" => Exact(sums[x], CountOf(PartHits, x, stride))
      /\ wpc[w] = "write" /\ x >= stride => Exact(seen[x], CountOf(PartHits, x, 2 * stride))
      /\ wpc[w] = "wait" => Exact(sums[x], CountOf(PartHits, x, 2 * stride))

Summed ==
  kernel = "lsh" /\ phase \in {"reduced", "merged"} =>
    /\ buf = sums
    /\ \A x \in PartIds : Exact(sums[x], Cardinality(Through(PartHits, x)))

(* What the blocks of the third reduction that have run have written.       *)
Done == {i \in AllHits : PartAt(i) \notin left}
Filled ==
  kernel = "lsh" /\ phase = "reduced" /\ ~raced =>
    /\ DOMAIN output = {PlaceOf[i] : i \in Done}
    /\ \A i \in Done : output[PlaceOf[i]] = Swapped(i)

ReadOff ==
  kernel = "lsh" /\ phase = "merged" /\ ~raced /\ ReduceCnt <= MaxPairs =>
    pairs = {Swapped(i) : i \in AllHits}

ListInv == ReduceTypes /\ Untouched /\ Scanning /\ Summed /\ Filled /\ ReadOff

-----------------------------------------------------------------------------
(* Nothing of this changes after the comparison.                            *)
LEMMA HitsStay ==
  ASSUME UNCHANGED <<sig, matrix>>
  PROVE  /\ UNCHANGED PartHits /\ UNCHANGED AllHits /\ UNCHANGED NumDocs
         /\ UNCHANGED PlaceOf /\ \A i : PartAt(i)' = PartAt(i) /\ Swapped(i)' = Swapped(i)
<1>1. NumDocs' = NumDocs
  BY DEF NumDocs
<1>2. Total' = Total
  BY <1>1 DEF Total
<1>3. \A i : Cell(i)' = Cell(i)
  BY <1>1 DEF Cell
<1>4. \A y : PartCells(y)' = PartCells(y) /\ FirstCell(y)' = FirstCell(y)
  BY <1>2 DEF PartCells, FirstCell, EndCell, Bound
<1>5. AllHits' = AllHits
  BY <1>2, <1>3 DEF AllHits
<1>6. PartHits' = PartHits
  BY <1>3, <1>4 DEF PartHits
<1>7. \A i : PartAt(i)' = PartAt(i)
  BY <1>4 DEF PartAt
<1>8. \A y, i : LaneIn(y, i)' = LaneIn(y, i)
  BY <1>4 DEF LaneIn
<1>9. Order' = Order
  BY <1>5, <1>7, <1>8 DEF Order
<1>10. PlaceOf' = PlaceOf
  BY <1>5, <1>9 DEF PlaceOf
<1>11. \A i : Swapped(i)' = Swapped(i)
  BY <1>1 DEF Swapped
<1> QED BY <1>1, <1>5, <1>6, <1>7, <1>10, <1>11

(* Greater numbers have greater quotients.                                  *)
LEMMA QuotientMonotone ==
  ASSUME NEW m \in Nat, NEW n \in Nat, m <= n, NEW d \in Nat \ {0}
  PROVE  m \div d <= n \div d
<1> DEFINE a == m \div d
           b == n \div d
           r == m % d
           s == n % d
<1>1. /\ a \in Nat /\ r \in 0..(d - 1) /\ m = d * a + r
      /\ b \in Nat /\ s \in 0..(d - 1) /\ n = d * b + s
  BY Quotient
<1> SUFFICES ASSUME b < a PROVE FALSE
  BY <1>1
<1> HIDE DEF a, b, r, s
<1>2. b + 1 \in Nat /\ b + 1 <= a
  BY <1>1
<1>3. d * (b + 1) <= d * a /\ d * (b + 1) \in Nat /\ d * a \in Nat
  BY <1>1, <1>2, TimesMonotone
<1>4. d * (b + 1) = d * b + d /\ d * b \in Nat
  BY <1>1
<1> DEFINE da == d * a
           db == d * b
<1>5. da \in Nat /\ db \in Nat /\ db + d <= da /\ m = da + r /\ n = db + s
  BY <1>1, <1>3, <1>4
<1> HIDE DEF da, db
<1> QED BY <1>1, <1>5

(* The warp of a thread.                                                    *)
LEMMA WarpOf ==
  ASSUME NEW x \in PartIds
  PROVE  /\ x \div Warp \in Warps
         /\ \A w \in Warps : x \in LanesOf(w) <=> x \div Warp = w
<1>1. x \in Nat /\ Parts - 1 \in Nat /\ x <= Parts - 1 /\ Warp \in Nat \ {0}
  BY PairsAssumption DEF PartIds
<1>2. x \div Warp <= (Parts - 1) \div Warp
  BY <1>1, QuotientMonotone
<1>3. x \div Warp \in Nat /\ (Parts - 1) \div Warp \in Nat
  BY <1>1, Quotient
<1> QED BY <1>2, <1>3 DEF Warps, LanesOf

(* Sums of this round, of this one and the next, and of all before.         *)
LEMMA Sums ==
  ASSUME NumDocs \in Nat, NEW x \in PartIds, NEW k \in Nat \ {0}
  PROVE  /\ x \in Nat /\ x < Parts /\ (x >= k => x - k \in PartIds)
         /\ CountOf(PartHits, x, k) \in Nat /\ CountOf(PartHits, x, 2 * k) \in Nat
         /\ x >= k => CountOf(PartHits, x, 2 * k) =
                        CountOf(PartHits, x, k) + CountOf(PartHits, x - k, k)
         /\ x < k => CountOf(PartHits, x, 2 * k) = CountOf(PartHits, x, k)
         /\ x < k => CountOf(PartHits, x, k) = Cardinality(Through(PartHits, x))
         /\ CountOf(PartHits, x, k) <= CountOf(PartHits, x, 2 * k)
<1>1. x \in 0..(Parts - 1) /\ Parts \in Nat \ {0} /\ 2 * k \in Nat \ {0}
  BY PairsAssumption DEF PartIds
<1>2. Apart(PartHits, Parts, AllHits)
  BY PartsApart
<1> QED BY <1>1, <1>2, SpanDoubles DEF PartIds

ListContext == PairsInv /\ ListInv /\ NumDocs \in Nat \ {0}

(* The blocks of the first reduction count what is in their parts.          *)
LEMMA ListReduce1 == ListContext /\ Reduce1 => ListInv'
<1> SUFFICES ASSUME ListContext, Reduce1 PROVE ListInv'
  OBVIOUS
<1>1. /\ phase = "compare" /\ phase' = "reduce2" /\ kernel = "lsh"
      /\ buf' = [y \in PartIds |-> Scan(y)[Warp - 1]] /\ sums' = buf'
      /\ UNCHANGED <<kernel, sig, matrix, stride, wpc, seen, left, output, pairs, raced>>
  BY DEF Reduce1, kernelVars
<1>2. ReduceTypes /\ Untouched /\ NumDocs \in Nat
  BY DEF ListContext, ListInv
<1>3. ASSUME NEW y \in PartIds
      PROVE  /\ Scan(y)[Warp - 1] = CountOf(PartHits, y, 1)
             /\ CountOf(PartHits, y, 1) \in Nat
  <2>1. Scan(y)[Warp - 1] = Cardinality(Through(LaneHits(y), Warp - 1))
    <3>1. Warp - 1 \in 0..(Warp - 1)
      BY PairsAssumption
    <3> QED BY <1>2, <3>1, LanesApart, ScanAdds
  <2>2. Through(LaneHits(y), Warp - 1) = PartHits[y]
    BY <1>2, LanesApart
  <2>3. CountOf(PartHits, y, 1) = Cardinality(PartHits[y])
    BY SpanOne, PairsAssumption DEF PartIds
  <2> QED BY <1>2, <2>1, <2>2, <2>3, Sums
<1>4. \A x \in PartIds : sums'[x] = CountOf(PartHits, x, 1)
  BY <1>1, <1>3
<1>5. ReduceTypes'
  <2>1. buf' \in [PartIds -> Nat]
    BY <1>1, <1>3
  <2> QED BY <1>1, <1>2, <2>1 DEF ReduceTypes
<1>6. Untouched'
  BY <1>1, <1>2 DEF Untouched
<1>7. Scanning'
  <2>1. PartHits' = PartHits
    BY <1>1, HitsStay
  <2>2. stride' = 1 /\ \A w \in Warps : wpc'[w] = "read"
    BY <1>1, <1>2 DEF Untouched
  <2>3. \A x \in PartIds : x \div Warp \in Warps
    BY WarpOf
  <2>4. \A x \in PartIds : CountOf(PartHits, x, 1) \in Nat
    BY <1>3
  <2> QED BY <1>4, <2>1, <2>2, <2>3, <2>4 DEF Scanning, Exact
<1>8. Summed' /\ Filled' /\ ReadOff'
  BY <1>1 DEF Summed, Filled, ReadOff
<1> QED BY <1>5, <1>6, <1>7, <1>8 DEF ListInv

(* A warp reads sums of this round, or of the next, which are greater.      *)
LEMMA ListReads == ASSUME ListContext, NEW v \in Warps, WarpReads(v) PROVE ListInv'
<1>1. /\ phase = "reduce2" /\ phase' = "reduce2" /\ wpc[v] = "read"
      /\ seen' = [x \in PartIds |-> IF x \in LanesOf(v) /\ x >= stride
                                      THEN sums[x] + sums[x - stride] ELSE seen[x]]
      /\ raced' = (raced \/ \E x \in LanesOf(v) :
                     /\ x >= 2 * stride
                     /\ (x - stride) \div Warp # v /\ wpc[(x - stride) \div Warp] = "wait")
      /\ wpc' = [wpc EXCEPT ![v] = "write"]
      /\ UNCHANGED <<kernel, sig, matrix, sums, stride, buf, left, output, pairs>>
  BY DEF WarpReads, kernelVars
<1>2. ReduceTypes /\ Untouched /\ Scanning /\ NumDocs \in Nat
  BY DEF ListContext, ListInv
<1>3. /\ sums \in [PartIds -> Nat] /\ seen \in [PartIds -> Nat] /\ stride \in Nat \ {0}
      /\ wpc \in [Warps -> {"read", "write", "wait"}]
  BY <1>2 DEF ReduceTypes
<1>4. ASSUME NEW x \in PartIds
      PROVE  x \div Warp \in Warps /\ (x \in LanesOf(v) <=> x \div Warp = v)
  BY WarpOf
<1>5. ReduceTypes'
  <2>1. \A x \in PartIds : x >= stride => x - stride \in PartIds
    BY <1>2, <1>3, Sums
  <2>2. seen' \in [PartIds -> Nat]
    <3>1. \A x \in PartIds : (IF x \in LanesOf(v) /\ x >= stride
                                THEN sums[x] + sums[x - stride] ELSE seen[x]) \in Nat
      BY <1>3, <2>1
    <3> HIDE DEF Through
    <3> QED BY <1>1, <3>1
  <2>3. wpc' \in [Warps -> {"read", "write", "wait"}]
    BY <1>1, <1>3
  <2> QED BY <1>1, <1>2, <2>2, <2>3 DEF ReduceTypes
<1>6. Untouched'
  BY <1>1, <1>2 DEF Untouched
<1>7. ASSUME kernel = "lsh", NEW x \in PartIds, x \div Warp = v, x >= stride
      PROVE  /\ seen'[x] >= CountOf(PartHits, x, 2 * stride)
             /\ ~raced' => seen'[x] = CountOf(PartHits, x, 2 * stride)
  <2> DEFINE z == x - stride
             u == z \div Warp
  <2>1. /\ z \in PartIds /\ x \in Nat /\ CountOf(PartHits, x, stride) \in Nat
        /\ CountOf(PartHits, x, 2 * stride) = CountOf(PartHits, x, stride) + CountOf(PartHits, z, stride)
    BY <1>2, <1>3, <1>7, Sums
  <2>2. u \in Warps
    BY <1>4, <2>1
  <2>3. seen'[x] = sums[x] + sums[z]
    BY <1>1, <1>4, <1>7
  <2>4. Exact(sums[x], CountOf(PartHits, x, stride))
    BY <1>1, <1>2, <1>7 DEF Scanning
  <2>5. /\ CountOf(PartHits, z, stride) \in Nat /\ CountOf(PartHits, z, 2 * stride) \in Nat
        /\ z < stride => CountOf(PartHits, z, 2 * stride) = CountOf(PartHits, z, stride)
        /\ CountOf(PartHits, z, stride) <= CountOf(PartHits, z, 2 * stride)
    BY <1>2, <1>3, <2>1, Sums
  <2>6. sums[z] >= CountOf(PartHits, z, stride) /\ (~raced' => sums[z] = CountOf(PartHits, z, stride))
    <3>1. CASE wpc[u] # "wait"
      <4>1. Exact(sums[z], CountOf(PartHits, z, stride))
        BY <1>1, <1>2, <1>7, <2>1, <3>1 DEF Scanning
      <4> QED BY <1>1, <4>1 DEF Exact
    <3>2. CASE wpc[u] = "wait"
      <4>1. Exact(sums[z], CountOf(PartHits, z, 2 * stride))
        BY <1>1, <1>2, <1>7, <2>1, <3>2 DEF Scanning
      <4>2. sums[z] \in Nat
        BY <1>3, <2>1
      <4>3. u # v
        BY <1>1, <3>2
      <4>4. ~raced' => z < stride
        <5> SUFFICES ASSUME ~raced', ~(z < stride) PROVE FALSE
          OBVIOUS
        <5>1. x \in LanesOf(v) /\ x >= 2 * stride
          BY <1>3, <1>4, <1>7, <2>1
        <5> QED BY <1>1, <3>2, <4>3, <5>1
      <4>5. ~raced' => ~raced
        BY <1>1
      <4> HIDE DEF z, u
      <4> QED BY <2>5, <4>1, <4>2, <4>4, <4>5 DEF Exact
    <3> QED BY <3>1, <3>2
  <2>7. sums[x] \in Nat /\ sums[z] \in Nat /\ (~raced' => ~raced)
    BY <1>1, <1>3, <2>1
  <2> HIDE DEF z, u
  <2> QED BY <2>1, <2>3, <2>4, <2>5, <2>6, <2>7 DEF Exact
<1>8. Scanning'
  <2>1. PartHits' = PartHits
    BY <1>1, HitsStay
  <2>2. ASSUME kernel = "lsh", NEW x \in PartIds, wpc'[x \div Warp] # "wait"
        PROVE  Exact(sums[x], CountOf(PartHits, x, stride))'
    <3>1. wpc[x \div Warp] # "wait"
      BY <1>1, <1>3, <1>4, <2>2
    <3>2. Exact(sums[x], CountOf(PartHits, x, stride))
      BY <1>1, <1>2, <2>2, <3>1 DEF Scanning
    <3> QED BY <1>1, <2>1, <3>2 DEF Exact
  <2>3. ASSUME kernel = "lsh", NEW x \in PartIds, wpc'[x \div Warp] = "write", x >= stride
        PROVE  Exact(seen[x], CountOf(PartHits, x, 2 * stride))'
    <3>1. CASE x \div Warp = v
      BY <1>1, <1>7, <2>1, <2>3, <3>1 DEF Exact
    <3>2. CASE x \div Warp # v
      <4>1. wpc[x \div Warp] = "write" /\ seen'[x] = seen[x]
        BY <1>1, <1>3, <1>4, <2>3, <3>2
      <4>2. Exact(seen[x], CountOf(PartHits, x, 2 * stride))
        BY <1>1, <1>2, <2>3, <4>1 DEF Scanning
      <4> QED BY <1>1, <2>1, <4>1, <4>2 DEF Exact
    <3> QED BY <3>1, <3>2
  <2>4. ASSUME kernel = "lsh", NEW x \in PartIds, wpc'[x \div Warp] = "wait"
        PROVE  Exact(sums[x], CountOf(PartHits, x, 2 * stride))'
    <3>1. wpc[x \div Warp] = "wait"
      BY <1>1, <1>3, <1>4, <2>4
    <3>2. Exact(sums[x], CountOf(PartHits, x, 2 * stride))
      BY <1>1, <1>2, <2>4, <3>1 DEF Scanning
    <3> QED BY <1>1, <2>1, <3>2 DEF Exact
  <2> QED BY <1>1, <2>2, <2>3, <2>4 DEF Scanning
<1>9. Summed' /\ Filled' /\ ReadOff'
  BY <1>1 DEF Summed, Filled, ReadOff
<1> QED BY <1>5, <1>6, <1>8, <1>9 DEF ListInv

-----------------------------------------------------------------------------
(* What it has read, a warp writes.                                         *)
LEMMA ListWrites == ASSUME ListContext, NEW v \in Warps, WarpWrites(v) PROVE ListInv'
<1>1. /\ phase = "reduce2" /\ phase' = "reduce2" /\ wpc[v] = "write"
      /\ sums' = [x \in PartIds |-> IF x \in LanesOf(v) /\ x >= stride THEN seen[x] ELSE sums[x]]
      /\ wpc' = [wpc EXCEPT ![v] = "wait"]
      /\ UNCHANGED <<kernel, sig, matrix, seen, stride, buf, left, output, pairs, raced>>
  BY DEF WarpWrites, kernelVars
<1>2. ReduceTypes /\ Untouched /\ Scanning /\ NumDocs \in Nat
  BY DEF ListContext, ListInv
<1>3. /\ sums \in [PartIds -> Nat] /\ seen \in [PartIds -> Nat] /\ stride \in Nat \ {0}
      /\ wpc \in [Warps -> {"read", "write", "wait"}]
  BY <1>2 DEF ReduceTypes
<1>4. ASSUME NEW x \in PartIds
      PROVE  x \div Warp \in Warps /\ (x \in LanesOf(v) <=> x \div Warp = v)
  BY WarpOf
<1>5. ReduceTypes'
  <2>1. sums' \in [PartIds -> Nat]
    BY <1>1, <1>3
  <2>2. wpc' \in [Warps -> {"read", "write", "wait"}]
    BY <1>1, <1>3
  <2> QED BY <1>1, <1>2, <2>1, <2>2 DEF ReduceTypes
<1>6. Untouched'
  BY <1>1, <1>2 DEF Untouched
<1>7. Scanning'
  <2>1. PartHits' = PartHits
    BY <1>1, HitsStay
  <2>2. ASSUME kernel = "lsh", NEW x \in PartIds, x \div Warp = v
        PROVE  wpc'[x \div Warp] = "wait" /\ Exact(sums[x], CountOf(PartHits, x, 2 * stride))'
    <3>1. x \in LanesOf(v) /\ wpc'[v] = "wait"
      BY <1>1, <1>3, <1>4, <2>2
    <3>2. CASE x >= stride
      <4>1. Exact(seen[x], CountOf(PartHits, x, 2 * stride)) /\ sums'[x] = seen[x]
        BY <1>1, <1>2, <2>2, <3>1, <3>2 DEF Scanning
      <4> QED BY <1>1, <2>1, <2>2, <3>1, <4>1 DEF Exact
    <3>3. CASE ~(x >= stride)
      <4>1. Exact(sums[x], CountOf(PartHits, x, stride)) /\ sums'[x] = sums[x]
        BY <1>1, <1>2, <2>2, <3>1, <3>3 DEF Scanning
      <4>2. x < stride
        BY <1>2, <1>3, <3>3, Sums
      <4>3. CountOf(PartHits, x, 2 * stride) = CountOf(PartHits, x, stride)
        BY <1>2, <1>3, <4>2, Sums
      <4> QED BY <1>1, <2>1, <2>2, <3>1, <4>1, <4>3 DEF Exact
    <3> QED BY <3>2, <3>3
  <2>3. ASSUME kernel = "lsh", NEW x \in PartIds, x \div Warp # v
        PROVE  LET w == x \div Warp IN
               /\ wpc'[w] # "wait" => Exact(sums[x], CountOf(PartHits, x, stride))'
               /\ wpc'[w] = "write" /\ x >= stride =>
                    Exact(seen[x], CountOf(PartHits, x, 2 * stride))'
               /\ wpc'[w] = "wait" => Exact(sums[x], CountOf(PartHits, x, 2 * stride))'
    <3>1. wpc'[x \div Warp] = wpc[x \div Warp] /\ sums'[x] = sums[x] /\ seen'[x] = seen[x]
      BY <1>1, <1>3, <1>4, <2>3
    <3>2. LET w == x \div Warp IN
          /\ wpc[w] # "wait" => Exact(sums[x], CountOf(PartHits, x, stride))
          /\ wpc[w] = "write" /\ x >= stride => Exact(seen[x], CountOf(PartHits, x, 2 * stride))
          /\ wpc[w] = "wait" => Exact(sums[x], CountOf(PartHits, x, 2 * stride))
      BY <1>1, <1>2, <2>3 DEF Scanning
    <3> QED BY <1>1, <2>1, <3>1, <3>2 DEF Exact
  <2> QED BY <1>1, <2>2, <2>3 DEF Scanning
<1>8. Summed' /\ Filled' /\ ReadOff'
  BY <1>1 DEF Summed, Filled, ReadOff
<1> QED BY <1>5, <1>6, <1>7, <1>8 DEF ListInv

(* At the barrier every sum is one of the next round, in the end of all.    *)
LEMMA ListRound == ListContext /\ NextRound => ListInv'
<1> SUFFICES ASSUME ListContext, NextRound PROVE ListInv'
  OBVIOUS
<1>1. /\ phase = "reduce2" /\ (\A w \in Warps : wpc[w] = "wait") /\ stride' = 2 * stride
      /\ UNCHANGED <<kernel, sig, matrix, sums, seen, left, output, pairs, raced>>
  BY DEF NextRound, AllWait, kernelVars
<1>2. ReduceTypes /\ Untouched /\ Scanning /\ NumDocs \in Nat
  BY DEF ListContext, ListInv
<1>3. stride \in Nat \ {0} /\ sums \in [PartIds -> Nat]
  BY <1>2 DEF ReduceTypes
<1>4. PartHits' = PartHits
  BY <1>1, HitsStay
<1>5. ASSUME kernel = "lsh", NEW x \in PartIds
      PROVE  Exact(sums[x], CountOf(PartHits, x, 2 * stride))
  <2>1. x \div Warp \in Warps
    BY WarpOf
  <2> QED BY <1>1, <1>2, <1>5, <2>1 DEF Scanning
<1>6. CASE 2 * stride < Parts
  <2>1. wpc' = [w \in Warps |-> "read"] /\ UNCHANGED <<phase, buf>>
    BY <1>6 DEF NextRound
  <2>2. ReduceTypes'
    BY <1>1, <1>2, <1>3, <2>1 DEF ReduceTypes
  <2>3. Untouched'
    BY <1>1, <1>2, <2>1 DEF Untouched
  <2>4. Scanning'
    <3>1. \A x \in PartIds : wpc'[x \div Warp] = "read"
      BY <2>1, WarpOf
    <3> QED BY <1>1, <1>4, <1>5, <3>1 DEF Scanning, Exact
  <2>5. Summed' /\ Filled' /\ ReadOff'
    BY <1>1, <2>1 DEF Summed, Filled, ReadOff
  <2> QED BY <2>2, <2>3, <2>4, <2>5 DEF ListInv
<1>7. CASE ~(2 * stride < Parts)
  <2>1. buf' = sums /\ phase' = "reduced" /\ UNCHANGED wpc
    BY <1>7 DEF NextRound
  <2>2. ReduceTypes'
    BY <1>1, <1>2, <1>3, <2>1 DEF ReduceTypes
  <2>3. Untouched'
    BY <1>1, <1>2, <2>1 DEF Untouched
  <2>4. Scanning' /\ ReadOff'
    BY <2>1 DEF Scanning, ReadOff
  <2>5. Summed'
    <3>1. ASSUME NEW x \in PartIds
          PROVE  CountOf(PartHits, x, 2 * stride) = Cardinality(Through(PartHits, x))
      <4>1. 2 * stride \in Nat \ {0}
        BY <1>3
      <4>2. x \in Nat /\ x < Parts
        BY <1>2, <1>3, Sums
      <4>3. x < 2 * stride
        BY <1>3, <1>7, <4>2, PairsAssumption
      <4> QED BY <1>2, <4>1, <4>3, Sums
    <3> QED BY <1>1, <1>4, <1>5, <2>1, <3>1 DEF Summed, Exact
  <2>6. Filled'
    <3>1. left' = PartIds /\ output' = <<>>
      BY <1>1, <1>2 DEF Untouched
    <3>2. Done' = {}
      <4>1. \A i \in AllHits : PartAt(i) \in PartIds
        BY <1>2, Placed
      <4>2. AllHits' = AllHits /\ \A i : PartAt(i)' = PartAt(i)
        BY <1>1, HitsStay
      <4> QED BY <3>1, <4>1, <4>2 DEF Done
    <3>3. DOMAIN output' = {}
      BY <3>1
    <3> QED BY <3>2, <3>3 DEF Filled
  <2> QED BY <2>2, <2>3, <2>4, <2>5, <2>6 DEF ListInv
<1> QED BY <1>6, <1>7

(* A block of the third reduction writes the cells of its part.             *)
LEMMA ListReduce3 == ASSUME ListContext, NEW y \in PartIds, Reduce3(y) PROVE ListInv'
<1>1. /\ phase = "reduced" /\ y \in left /\ left' = left \ {y}
      /\ output' = [id \in DOMAIN output \cup {e[1] : e \in Written(y)} |->
                      IF \E e \in Written(y) : e[1] = id
                        THEN LET i == (CHOOSE e \in Written(y) : e[1] = id)[2]
                             IN  <<i % NumDocs, i \div NumDocs>>
                        ELSE output[id]]
      /\ UNCHANGED <<kernel, sig, matrix, phase, sums, stride, wpc, seen, buf, pairs, raced>>
  BY DEF Reduce3, kernelVars
<1>2. ReduceTypes /\ Untouched /\ Summed /\ Filled /\ NumDocs \in Nat
  BY DEF ListContext, ListInv
<1>3. kernel = "lsh"
  BY <1>1 DEF ListContext, PairsInv, HostReads, KInv, KernelTypes
<1>4. /\ buf[y] \in Nat /\ buf[y] >= Cardinality(Through(PartHits, y))
      /\ ~raced => buf[y] = Cardinality(Through(PartHits, y))
  BY <1>1, <1>2, <1>3 DEF Summed, Exact, ReduceTypes
<1>5. DOMAIN output' = DOMAIN output \cup {e[1] : e \in Written(y)}
  BY <1>1
<1>6. ReduceTypes'
  <2>1. DOMAIN output' \subseteq Nat
    BY <1>2, <1>4, <1>5, WrittenAtRank DEF ReduceTypes
  <2> QED BY <1>1, <1>2, <2>1 DEF ReduceTypes
<1>7. Untouched' /\ Scanning' /\ ReadOff'
  BY <1>1, <1>2 DEF Untouched, Scanning, ReadOff
<1>8. Summed'
  <2>1. PartHits' = PartHits
    BY <1>1, HitsStay
  <2> QED BY <1>1, <1>2, <2>1 DEF Summed, Exact
<1>9. ASSUME ~raced
      PROVE  /\ DOMAIN output' = {PlaceOf[i] : i \in Done}'
             /\ \A i \in Done' : output'[PlaceOf[i]'] = Swapped(i)'
  <2>1. /\ AllHits' = AllHits /\ PlaceOf' = PlaceOf
        /\ \A i : PartAt(i)' = PartAt(i) /\ Swapped(i)' = Swapped(i)
    BY <1>1, HitsStay
  <2>2. Written(y) = {<<PlaceOf[i], i>> : i \in PartHits[y]}
    BY <1>2, <1>4, <1>9, WrittenAtRank
  <2>3. \A i : i \in PartHits[y] <=> i \in AllHits /\ PartAt(i) = y
    BY <1>2, Placed
  <2>4. \A i, j \in AllHits : PlaceOf[i] = PlaceOf[j] => i = j
    BY <1>2, Places
  <2>5. Done' = Done \cup PartHits[y]
    BY <1>1, <2>1, <2>3 DEF Done
  <2>6. DOMAIN output = {PlaceOf[i] : i \in Done} /\ \A i \in Done : output[PlaceOf[i]] = Swapped(i)
    BY <1>1, <1>2, <1>3, <1>9 DEF Filled
  <2>7. {e[1] : e \in Written(y)} = {PlaceOf[i] : i \in PartHits[y]}
    <3>1. ASSUME NEW e \in Written(y) PROVE e[1] \in {PlaceOf[i] : i \in PartHits[y]}
      <4>1. PICK i \in PartHits[y] : e = <<PlaceOf[i], i>>
        BY <2>2
      <4> QED BY <4>1
    <3>2. ASSUME NEW i \in PartHits[y] PROVE PlaceOf[i] \in {e[1] : e \in Written(y)}
      <4>1. <<PlaceOf[i], i>> \in Written(y) /\ <<PlaceOf[i], i>>[1] = PlaceOf[i]
        BY <2>2
      <4> QED BY <4>1
    <3> QED BY <3>1, <3>2
  <2>8. DOMAIN output' = {PlaceOf[i] : i \in Done'}
    BY <1>5, <2>5, <2>6, <2>7
  <2>9. ASSUME NEW i \in Done' PROVE output'[PlaceOf[i]] = Swapped(i)
    <3>1. PlaceOf[i] \in DOMAIN output' /\ i \in AllHits
      BY <2>3, <2>5, <2>8 DEF Done
    <3>2. CASE i \in PartHits[y]
      <4> DEFINE d == CHOOSE e \in Written(y) : e[1] = PlaceOf[i]
      <4>1. <<PlaceOf[i], i>> \in Written(y)
        BY <2>2, <3>2
      <4>2. d \in Written(y) /\ d[1] = PlaceOf[i]
        BY <4>1
      <4>3. PICK j \in PartHits[y] : d = <<PlaceOf[j], j>>
        BY <2>2, <4>2
      <4>4. j = i
        BY <2>3, <2>4, <3>1, <4>2, <4>3
      <4>5. output'[PlaceOf[i]] = <<d[2] % NumDocs, d[2] \div NumDocs>>
        BY <1>1, <1>5, <3>1, <4>1
      <4> HIDE DEF d
      <4> QED BY <4>3, <4>4, <4>5 DEF Swapped
    <3>3. CASE i \notin PartHits[y]
      <4>1. i \in Done
        BY <2>5, <3>3
      <4>2. ~ \E e \in Written(y) : e[1] = PlaceOf[i]
        <5> SUFFICES ASSUME NEW e \in Written(y), e[1] = PlaceOf[i] PROVE FALSE
          OBVIOUS
        <5>1. PICK j \in PartHits[y] : e = <<PlaceOf[j], j>>
          BY <2>2
        <5>2. i = j
          BY <2>3, <2>4, <3>1, <5>1
        <5> QED BY <3>3, <5>1, <5>2
      <4>3. output'[PlaceOf[i]] = output[PlaceOf[i]]
        BY <1>1, <1>5, <3>1, <4>2
      <4> QED BY <2>6, <4>1, <4>3
    <3> QED BY <3>2, <3>3
  <2> QED BY <2>1, <2>8, <2>9
<1>10. Filled'
  BY <1>1, <1>9 DEF Filled
<1> QED BY <1>6, <1>7, <1>8, <1>10 DEF ListInv

(* All the counts together.                                                 *)
LEMMA CountsAllHits ==
  ASSUME ListContext, kernel = "lsh", phase \in {"reduced", "merged"}
  PROVE  /\ Exact(ReduceCnt, Cardinality(AllHits))
         /\ ReduceCnt \in Nat /\ Cardinality(AllHits) \in Nat
<1>1. Parts - 1 \in PartIds
  BY PairsAssumption DEF PartIds
<1>2. sums \in [PartIds -> Nat] /\ Exact(sums[Parts - 1], Cardinality(Through(PartHits, Parts - 1)))
  BY <1>1 DEF ListContext, ListInv, Summed, ReduceTypes
<1>3. Through(PartHits, Parts - 1) = AllHits /\ Cardinality(AllHits) \in Nat
  BY PartsApart, Places DEF ListContext
<1> QED BY <1>1, <1>2, <1>3 DEF ReduceCnt

(* The host reads the list.                                                 *)
LEMMA ListHost ==
  ListContext /\ (HostReadsList \/ HostReadsMatrix \/ NothingToMerge) => ListInv'
<1> SUFFICES ASSUME ListContext, HostReadsList \/ HostReadsMatrix \/ NothingToMerge
             PROVE  ListInv'
  OBVIOUS
<1>1. /\ phase = "reduced" /\ phase' = "merged"
      /\ UNCHANGED <<kernel, sig, matrix, sums, stride, wpc, seen, buf, left, output, raced>>
  BY DEF HostReadsList, HostReadsMatrix, NothingToMerge, kernelVars, reduceVars
<1>2. ReduceTypes /\ Untouched /\ Summed /\ Filled /\ NumDocs \in Nat
  BY DEF ListContext, ListInv
<1>3. ReduceTypes' /\ Untouched' /\ Scanning' /\ Filled'
  BY <1>1, <1>2 DEF ReduceTypes, Untouched, Scanning, Filled
<1>4. PartHits' = PartHits /\ AllHits' = AllHits /\ \A i : Swapped(i)' = Swapped(i)
  BY <1>1, HitsStay
<1>5. Summed'
  BY <1>1, <1>2, <1>4 DEF Summed, Exact
<1>6. ASSUME kernel = "lsh", ~raced, ReduceCnt <= MaxPairs
      PROVE  pairs' = {Swapped(i) : i \in AllHits}
  <2>1. ReduceCnt = Cardinality(AllHits) /\ ReduceCnt \in Nat
    BY <1>1, <1>6, CountsAllHits DEF Exact
  <2>2. CASE HostReadsList
    <3>1. Done = AllHits
      BY <2>2 DEF HostReadsList, Done
    <3>2. DOMAIN output = {PlaceOf[i] : i \in AllHits}
          /\ \A i \in AllHits : output[PlaceOf[i]] = Swapped(i)
      BY <1>1, <1>2, <1>6, <3>1 DEF Filled
    <3>3. /\ \A i \in AllHits : PlaceOf[i] \in 0..(ReduceCnt - 1)
          /\ \A n \in 0..(ReduceCnt - 1) : \E i \in AllHits : PlaceOf[i] = n
      BY <1>2, <2>1, Places
    <3>4. pairs' = {IF id \in DOMAIN output THEN output[id] ELSE Leftover : id \in 0..(ReduceCnt - 1)}
      BY <2>2 DEF HostReadsList
    <3>5. \A id \in 0..(ReduceCnt - 1) : id \in DOMAIN output
      BY <3>2, <3>3
    <3>6. pairs' = {output[id] : id \in 0..(ReduceCnt - 1)}
      BY <3>4, <3>5
    <3> QED BY <3>2, <3>3, <3>6
  <2>3. CASE HostReadsMatrix
    BY <1>6, <2>1, <2>3, PairsAssumption DEF HostReadsMatrix
  <2>4. CASE NothingToMerge
    <3>1. pairs' = {} /\ ReduceCnt = 0
      BY <1>2, <2>4 DEF NothingToMerge, reduceVars, Untouched
    <3>2. AllHits = {}
      BY <1>2, <2>1, <3>1, Places, FS_EmptySet
    <3> QED BY <3>1, <3>2
  <2> QED BY <2>2, <2>3, <2>4
<1>7. ReadOff'
  <2>1. ReduceCnt' = ReduceCnt
    BY <1>1 DEF ReduceCnt
  <2> QED BY <1>1, <1>4, <1>6, <2>1 DEF ReadOff
<1> QED BY <1>3, <1>5, <1>7 DEF ListInv

-----------------------------------------------------------------------------
(* All of the invariant                                                     *)

ReduceInv == PairsInv /\ ListInv

(* It holds at the start.                                                   *)
LEMMA ReduceInit == Init => ReduceInv
<1> SUFFICES ASSUME Init PROVE ListInv
  BY PairsInit DEF ReduceInv
<1>1. /\ phase = "compare" /\ sums = [x \in PartIds |-> 0] /\ stride = 1
      /\ wpc = [w \in Warps |-> "read"] /\ seen = [x \in PartIds |-> 0]
      /\ buf = [x \in PartIds |-> 0] /\ left = PartIds /\ output = <<>> /\ pairs = {}
  BY DEF Init
<1>2. DOMAIN output = {}
  BY <1>1
<1>3. ReduceTypes
  BY <1>1, <1>2 DEF ReduceTypes
<1>4. Untouched
  BY <1>1 DEF Untouched
<1>5. Scanning /\ Summed /\ Filled /\ ReadOff
  BY <1>1 DEF Scanning, Summed, Filled, ReadOff
<1> QED BY <1>3, <1>4, <1>5 DEF ListInv

(* While the kernels compare, nothing is reduced; on the server's side      *)
(* nothing ever is.                                                         *)
LEMMA ListCompares == ListContext /\ Comparison => ListInv'
<1> SUFFICES ASSUME ListContext, Comparison PROVE ListInv'
  OBVIOUS
<1>1. phase = "compare" /\ UNCHANGED <<phase, sums, stride, wpc, seen, buf, left, output, pairs, raced>>
  BY DEF Comparison, reduceVars
<1>2. ReduceTypes /\ Untouched
  BY DEF ListContext, ListInv
<1>3. ReduceTypes' /\ Untouched'
  BY <1>1, <1>2 DEF ReduceTypes, Untouched
<1>4. Scanning' /\ Summed' /\ Filled' /\ ReadOff'
  BY <1>1 DEF Scanning, Summed, Filled, ReadOff
<1> QED BY <1>3, <1>4 DEF ListInv

(* The host of the server reads the matrix.                                 *)
LEMMA ListRatios == ListContext /\ HostReadsRatios => ListInv'
<1> SUFFICES ASSUME ListContext, HostReadsRatios PROVE ListInv'
  OBVIOUS
<1>1. /\ phase = "compare" /\ phase' = "merged" /\ kernel' = "similarity"
      /\ UNCHANGED <<sums, stride, wpc, seen, buf, left, output, raced>>
  BY DEF HostReadsRatios, kernelVars
<1>2. ReduceTypes /\ Untouched
  BY DEF ListContext, ListInv
<1>3. ReduceTypes' /\ Untouched'
  BY <1>1, <1>2 DEF ReduceTypes, Untouched
<1>4. Scanning' /\ Summed' /\ Filled' /\ ReadOff'
  BY <1>1 DEF Scanning, Summed, Filled, ReadOff
<1> QED BY <1>3, <1>4 DEF ListInv

(* When nothing changes.                                                    *)
LEMMA ListStays == ListContext /\ UNCHANGED vars => ListInv'
<1> SUFFICES ASSUME ListContext, UNCHANGED vars PROVE ListInv'
  OBVIOUS
<1>1. UNCHANGED <<kernel, sig, matrix, phase, sums, stride, wpc, seen, buf, left, output, pairs, raced>>
  BY DEF vars, kernelVars, reduceVars
<1>2. /\ PartHits' = PartHits /\ AllHits' = AllHits /\ PlaceOf' = PlaceOf
      /\ \A i : PartAt(i)' = PartAt(i) /\ Swapped(i)' = Swapped(i)
  BY <1>1, HitsStay
<1>3. ReduceTypes' /\ Untouched'
  BY <1>1 DEF ListContext, ListInv, ReduceTypes, Untouched
<1>4. Scanning'
  BY <1>1, <1>2 DEF ListContext, ListInv, Scanning, Exact
<1>5. Summed'
  BY <1>1, <1>2 DEF ListContext, ListInv, Summed, Exact
<1>6. Filled'
  <2>1. Done' = Done
    BY <1>1, <1>2 DEF Done
  <2>2. {PlaceOf[i] : i \in Done}' = {PlaceOf[i] : i \in Done}
    BY <1>2, <2>1
  <2> QED BY <1>1, <1>2, <2>1, <2>2 DEF ListContext, ListInv, Filled
<1>7. ReadOff'
  BY <1>1, <1>2 DEF ListContext, ListInv, ReadOff, ReduceCnt
<1> QED BY <1>3, <1>4, <1>5, <1>6, <1>7 DEF ListInv

(* Every step keeps it.                                                     *)
LEMMA ReduceNext == ReduceInv /\ [Next]_vars => ReduceInv'
<1> SUFFICES ASSUME ReduceInv, [Next]_vars PROVE ListInv'
  BY PairsNext DEF ReduceInv
<1>1. ListContext
  BY Bucket DEF ListContext, ReduceInv, PairsInv, KInv, KernelTypes
<1> QED BY <1>1, ListCompares, ListReduce1, ListReads, ListWrites, ListRound, ListReduce3,
           ListHost, ListRatios, ListStays DEF Next

(* The type invariant, for every size of bucket, of block and of signature: *)
(* barriers keep the threads of a block in one round, no counter exceeds    *)
(* the hash values, and nothing below the diagonal is written.              *)
THEOREM TypeCorrect == Spec => []TypeOK
<1>1. ReduceInv => TypeOK
  <2> SUFFICES ASSUME ReduceInv PROVE TypeOK
    OBVIOUS
  <2>1. KernelTypes /\ Rounds /\ Bounded /\ LowerClear /\ ReduceTypes
    BY DEF ReduceInv, PairsInv, KInv, ListInv
  <2>2. ASSUME NEW t \in Threads PROVE cnt[t] \in 0..NumHash
    <3>1. cnt[t] \in Nat /\ cnt[t] <= Upto(t) /\ tile \in 0..NumHash /\ tile % Edge = 0
      BY <2>1 DEF KernelTypes, Bounded
    <3>2. CASE pc[t] = "compared"
      <4>1. tile < NumHash
        BY <2>1, <3>2 DEF Rounds
      <4>2. tile \in Nat /\ NumHash \in Nat /\ Edge \in Nat
        BY <3>1, TileAssumption
      <4>3. tile + Edge <= NumHash
        BY <3>1, <4>1, <4>2, NextTile
      <4> QED BY <3>1, <3>2, <4>2, <4>3 DEF Upto
    <3>3. CASE pc[t] # "compared"
      BY <3>1, <3>3, TileAssumption DEF Upto
    <3> QED BY <3>2, <3>3
  <2>3. \A t \in Threads : pc[t] = "compare" =>
          \A u \in Threads : pc[u] \in {"compare", "compared", "returned"}
    BY <2>1 DEF Rounds
  <2> QED BY <2>1, <2>2, <2>3 DEF TypeOK, KernelTypes, LowerClear, Grid, ReduceTypes
<1> QED BY <1>1, ReduceInit, ReduceNext, PTL DEF Spec

(* The host merges exactly the pairs of the matrix, whatever the order of   *)
(* the warps and blocks, unless they are too many or a warp was overtaken;  *)
(* and they are never counted too low.                                      *)
THEOREM ListIsExact == Spec => []ListExact
<1>1. ReduceInv => ListExact
  <2> SUFFICES ASSUME ReduceInv, kernel = "lsh", phase = "merged"
               PROVE  /\ ReduceCnt >= Cardinality(Hit)
                      /\ ~raced /\ ReduceCnt <= MaxPairs =>
                           /\ pairs = {<<p[2], p[1]>> : p \in SimilarPairs}
                           /\ ReduceCnt = Cardinality(SimilarPairs)
    BY DEF ListExact
  <2>1. ListContext
    BY Bucket DEF ListContext, ReduceInv, PairsInv, KInv, KernelTypes
  <2>2. Hit = {Cell(i) : i \in AllHits} /\ Cardinality(Hit) = Cardinality(AllHits)
    BY <2>1, CellsArePairs DEF ListContext, PairsInv, KInv, LowerClear
  <2>3. Exact(ReduceCnt, Cardinality(AllHits))
    BY <2>1, CountsAllHits
  <2>4. Hit = SimilarPairs
    BY MatrixIsExact DEF ReduceInv, MatrixExact
  <2>5. ASSUME ~raced, ReduceCnt <= MaxPairs
        PROVE  pairs = {<<p[2], p[1]>> : p \in Hit}
    <3>1. pairs = {Swapped(i) : i \in AllHits}
      BY <2>5 DEF ReduceInv, ListInv, ReadOff
    <3>2. \A i : Cell(i)[1] = i \div NumDocs /\ Cell(i)[2] = i % NumDocs
      BY DEF Cell
    <3>3. \A i : Swapped(i) = <<Cell(i)[2], Cell(i)[1]>>
      BY <3>2 DEF Swapped
    <3> QED BY <2>2, <3>1, <3>3
  <2> QED BY <2>2, <2>3, <2>4, <2>5 DEF Exact
<1> QED BY <1>1, ReduceInit, ReduceNext, PTL DEF Spec
=============================================================================
