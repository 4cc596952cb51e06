---------------------------- MODULE TileKernels ----------------------------
(***************************************************************************)
(* The two CUDA kernels that compare signatures pairwise: the block-wise   *)
(* compare_lsh_kernel of src/lsh.cu and similarity_compare_kernel of       *)
(* src/fed/crypto_cuda.cu.  A block of Edge x Edge threads loads a tile of *)
(* signatures into shared memory, meets at a barrier, counts the equal     *)
(* values of the tile, and meets at a barrier again before the next tile.  *)
(* Documents are numbered from 0, as in the code.                          *)
(***************************************************************************)
EXTENDS Integers, FiniteSets

CONSTANTS
  Edge,      \* BLOCK_SIZE and TILE_SIZE, 32 in the code
  NumHash,   \* num_hash
  Percent,   \* the threshold, in percent
  Inputs     \* signatures of a bucket: [0..n-1 -> [0..NumHash-1 -> Nat]]

(* 128 hash values are four whole tiles.                                    *)
ASSUME TileAssumption ==
  /\ Edge \in Nat \ {0} /\ NumHash \in Nat \ {0} /\ NumHash % Edge = 0
  /\ Percent \in Nat
  /\ \A s \in Inputs :
       /\ IsFiniteSet(DOMAIN s) /\ DOMAIN s # {}
       /\ s \in [0..(Cardinality(DOMAIN s) - 1) -> [0..(NumHash - 1) -> Nat]]

VARIABLES
  kernel,  \* which of the two runs
  sig,     \* the signatures it was given
  grid,    \* <<blockIdx.x, blockIdx.y>> of the block that runs
  pc,      \* where each of its threads is
  tile,    \* first hash value of the tile
  t1, t2,  \* the tiles in shared memory
  cnt,     \* match_count of each thread
  matrix   \* the result: 0 or 1 (lsh), or a number of matches (similarity)

kernelVars == <<kernel, sig, grid, pc, tile, t1, t2, cnt, matrix>>

NumDocs == Cardinality(DOMAIN sig)
Docs    == 0..(NumDocs - 1)
Lanes   == 0..(Edge - 1)
Threads == Lanes \X Lanes     \* <<threadIdx.x, threadIdx.y>>, or <<dx, dy>>
Blocks  == (NumDocs + Edge - 1) \div Edge

(* Stands for what shared memory holds before a thread has written it.      *)
Garbage == -1
Unset   == [c \in Threads |-> Garbage]

DocOf(g, lane) == g * Edge + lane
DocI(t) == DocOf(grid[1], t[1])
DocJ(t) == DocOf(grid[2], t[2])

(* compare_lsh_kernel returns a block as a whole; the similarity kernel     *)
(* returns thread by thread, before the first load.                         *)
Returns(g, t) ==
  \/ kernel = "lsh" /\ g[2] < g[1]
  \/ /\ kernel = "similarity"
     /\ \/ DocOf(g[1], t[1]) >= NumDocs \/ DocOf(g[2], t[2]) >= NumDocs
        \/ DocOf(g[1], t[1]) >= DocOf(g[2], t[2])
Launched(g) == [t \in Threads |-> IF Returns(g, t) THEN "returned" ELSE "load"]

KernelInit ==
  /\ kernel \in {"lsh", "similarity"}
  /\ sig \in Inputs
  /\ grid = <<0, 0>> /\ tile = 0
  /\ pc = Launched(grid)
  /\ t1 = Unset /\ t2 = Unset
  /\ cnt = [t \in Threads |-> 0]
  /\ matrix = [p \in Docs \X Docs |-> 0]   \* cudaMemset

Goto(t, s) == pc' = [pc EXCEPT ![t] = s]

(* compare_lsh_kernel: thread <<dx, dy>> loads value dx of the dy-th        *)
(* document of both blocks.                                                 *)
LoadLsh(t) ==
  LET cell == <<t[2], t[1]>>
      i == grid[1] * Edge + t[2]
      j == grid[2] * Edge + t[2]
  IN  /\ t1' = IF i < NumDocs THEN [t1 EXCEPT ![cell] = sig[i][tile + t[1]]] ELSE t1
      /\ t2' = IF j < NumDocs THEN [t2 EXCEPT ![cell] = sig[j][tile + t[1]]] ELSE t2

(* similarity_compare_kernel: thread <<x, y>> loads value y of its document *)
(* i and value x of its document j.                                         *)
LoadSimilarity(t) ==
  /\ t1' = IF tile + t[2] < NumHash THEN [t1 EXCEPT ![t] = sig[DocI(t)][tile + t[2]]] ELSE t1
  /\ t2' = IF tile + t[1] < NumHash
             THEN [t2 EXCEPT ![<<t[2], t[1]>>] = sig[DocJ(t)][tile + t[1]]] ELSE t2

(* Mutant: no barrier between the loads and the comparison.                 *)
LoadUnsynchronised(t) ==
  /\ pc[t] = "load"
  /\ IF kernel = "lsh" THEN LoadLsh(t) ELSE LoadSimilarity(t)
  /\ Goto(t, "compare")
  /\ UNCHANGED <<kernel, sig, grid, tile, cnt, matrix>>

LoadTile(t) ==
  /\ pc[t] = "load"
  /\ IF kernel = "lsh" THEN LoadLsh(t) ELSE LoadSimilarity(t)
  /\ Goto(t, "loaded")
  /\ UNCHANGED <<kernel, sig, grid, tile, cnt, matrix>>

(* Each thread compares one row of each tile.  A cell nobody has loaded may *)
(* be equal to the other or not.                                            *)
CompareTile(t) ==
  LET ks    == {k \in Lanes : kernel = "lsh" \/ tile + k < NumHash}
      wild  == {k \in ks : Garbage \in {t1[<<t[1], k>>], t2[<<t[2], k>>]}}
      equal == {k \in ks \ wild : t1[<<t[1], k>>] = t2[<<t[2], k>>]}
  IN  /\ pc[t] = "compare"
      /\ \E m \in 0..Cardinality(wild) :
           cnt' = [cnt EXCEPT ![t] = @ + Cardinality(equal) + m]
      /\ Goto(t, "compared")
      /\ UNCHANGED <<kernel, sig, grid, tile, t1, t2, matrix>>

(* __syncthreads waits for the threads of the block that have not returned. *)
AllAt(s) == \E t \in Threads : pc[t] = s /\ \A u \in Threads : pc[u] \in {s, "returned"}
AllGoto(s) == pc' = [t \in Threads |-> IF pc[t] = "returned" THEN "returned" ELSE s]

(* Mutant: the barrier waits for every thread of the block.                 *)
AllThreadsLoaded ==
  /\ \A t \in Threads : pc[t] = "loaded"
  /\ AllGoto("compare")
  /\ UNCHANGED <<kernel, sig, grid, tile, t1, t2, cnt, matrix>>

TileLoaded ==
  /\ AllAt("loaded")
  /\ AllGoto("compare")
  /\ UNCHANGED <<kernel, sig, grid, tile, t1, t2, cnt, matrix>>

TileCompared ==
  /\ AllAt("compared")
  /\ tile' = tile + Edge
  /\ AllGoto(IF tile + Edge < NumHash THEN "load" ELSE "write")
  /\ UNCHANGED <<kernel, sig, grid, t1, t2, cnt, matrix>>

(* th = num_hash * _th, cut to an integer.                                  *)
Th == (NumHash * Percent) \div 100

(* A thread that has written its result ends, and its counter with it.      *)
(* Mutant: the lower half of a diagonal block is written too.               *)
WriteBothHalves(t) ==
  /\ pc[t] = "write"
  /\ matrix' = IF DocI(t) < NumDocs /\ DocJ(t) < NumDocs
                 THEN [matrix EXCEPT ![<<DocI(t), DocJ(t)>>] =
                         IF kernel = "similarity" THEN cnt[t] ELSE IF cnt[t] > Th THEN 1 ELSE 0]
                 ELSE matrix
  /\ Goto(t, "returned")
  /\ cnt' = [cnt EXCEPT ![t] = 0]
  /\ UNCHANGED <<kernel, sig, grid, tile, t1, t2>>

WriteResult(t) ==
  /\ pc[t] = "write"
  /\ matrix' = IF DocI(t) < NumDocs /\ DocJ(t) < NumDocs /\ DocI(t) < DocJ(t)
                 THEN [matrix EXCEPT ![<<DocI(t), DocJ(t)>>] =
                         IF kernel = "similarity" THEN cnt[t] ELSE IF cnt[t] > Th THEN 1 ELSE 0]
                 ELSE matrix
  /\ Goto(t, "returned")
  /\ cnt' = [cnt EXCEPT ![t] = 0]
  /\ UNCHANGED <<kernel, sig, grid, tile, t1, t2>>

BlockEnded == \A t \in Threads : pc[t] = "returned"
LastBlock  == grid = <<Blocks - 1, Blocks - 1>>
KernelEnded == BlockEnded /\ LastBlock

(* Blocks have no memory in common and write different cells of the result: *)
(* they are run one after another.                                          *)
NextBlock ==
  /\ BlockEnded /\ ~LastBlock
  /\ grid' = IF grid[1] + 1 < Blocks THEN <<grid[1] + 1, grid[2]>> ELSE <<0, grid[2] + 1>>
  /\ pc' = Launched(grid')
  /\ tile' = 0 /\ t1' = Unset /\ t2' = Unset
  /\ cnt' = [t \in Threads |-> 0]
  /\ UNCHANGED <<kernel, sig, matrix>>

KernelNext ==
  \/ \E t \in Threads : LoadTile(t) \/ CompareTile(t) \/ WriteResult(t)
  \/ TileLoaded \/ TileCompared \/ NextBlock
=============================================================================
