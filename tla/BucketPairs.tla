---------------------------- MODULE BucketPairs ----------------------------
(***************************************************************************)
(* From the signatures of a bucket to the list of its pairs.  On the MPI   *)
(* side (compare_lsh_cuda) the matrix of compare_lsh_kernel is counted and *)
(* compacted by reduce_compare_result1, 2 and 3, and the host merges the   *)
(* pairs of the list; on the server's side (gpu_calculate_similarity) the  *)
(* host reads the matrix.  A cell of the matrix is a byte, and the         *)
(* reductions read it in words of four.                                    *)
(***************************************************************************)
EXTENDS TileKernels

CONSTANTS
  Parts,     \* REDUCE_BLOCK: blocks of the first reduction, threads of the second
  Warp,      \* REDUCE_THREAD: threads that run in lockstep
  MaxPairs   \* max_bucket * REDUCE_EDGE_TH

ASSUME PairsAssumption == Parts \in Nat \ {0} /\ Warp \in Nat \ {0} /\ MaxPairs \in Nat

VARIABLES
  phase,   \* the kernel that runs, or the host
  sums,    \* prefix_sum of reduce_compare_result2
  stride,  \* k of its loop
  wpc,     \* where its warps are
  seen,    \* what the threads of a warp have read, until they write
  buf,     \* cuda_reduce_buf
  left,    \* blocks of reduce_compare_result3 that are still to run
  output,  \* cuda_reduce_result, as far as this bucket has written it
  pairs,   \* the pairs the host takes from it
  raced    \* history: a warp has read what another changed in the same round

reduceVars == <<sums, stride, wpc, seen, buf, left, output, pairs, raced>>
vars == <<kernelVars, phase, reduceVars>>

PartIds == 0..(Parts - 1)
Warps   == 0..((Parts - 1) \div Warp)
LanesOf(w) == {x \in PartIds : x \div Warp = w}

Init ==
  /\ KernelInit
  /\ phase = "compare"
  /\ sums = [x \in PartIds |-> 0] /\ stride = 1
  /\ wpc = [w \in Warps |-> "read"] /\ seen = [x \in PartIds |-> 0]
  /\ buf = [x \in PartIds |-> 0] /\ left = PartIds /\ output = <<>>
  /\ pairs = {} /\ raced = FALSE

Comparison ==
  /\ phase = "compare"
  /\ KernelNext
  /\ UNCHANGED <<phase, reduceVars>>

-----------------------------------------------------------------------------
(* The cells a block reduces, and the words of each of its threads          *)

Total == ((NumDocs * NumDocs) \div 4) * 4
Bound(y) == (((((Total + Parts - 1) \div Parts) * y) \div 4)) * 4

FirstCell(y) == Bound(y)
EndCell(y)  == IF Bound(y + 1) > Total THEN Total ELSE Bound(y + 1)

Cell(i)  == <<i \div NumDocs, i % NumDocs>>
WordsOf(y, x) == {i \in FirstCell(y)..(EndCell(y) - 1) : i % 4 = 0 /\ ((i - FirstCell(y)) \div 4) % Warp = x}
Hits(y, x) == {i \in UNION {w..(w + 3) : w \in WordsOf(y, x)} : matrix[Cell(i)] = 1}

(* The scan of a block: with one warp, every thread has read before any     *)
(* writes.  The loop needs no more rounds than there are threads.           *)
AddFrom(f, k) == [x \in DOMAIN f |-> IF x >= k THEN f[x] + f[x - k] ELSE f[x]]
Round(r) == IF r.k < Warp THEN [k |-> 2 * r.k, f |-> AddFrom(r.f, r.k)] ELSE r
Scan(y) ==
  LET start == [k |-> 1, f |-> [x \in 0..(Warp - 1) |-> Cardinality(Hits(y, x))]]
      after[n \in Nat] == IF n = 0 THEN start ELSE Round(after[n - 1])
  IN  after[Warp].f

(* reduce_compare_result1: each block stores its count.                     *)
Reduce1 ==
  /\ phase = "compare" /\ kernel = "lsh" /\ KernelEnded
  /\ buf' = [y \in PartIds |-> Scan(y)[Warp - 1]]
  /\ sums' = buf'
  /\ phase' = "reduce2"
  /\ UNCHANGED <<kernelVars, stride, wpc, seen, left, output, pairs, raced>>

-----------------------------------------------------------------------------
(* reduce_compare_result2: one block of several warps scans in place, with  *)
(* a barrier only at the end of each round.                                 *)

WarpReads(w) ==
  /\ phase = "reduce2" /\ wpc[w] = "read"
  /\ seen' = [x \in PartIds |->
                IF x \in LanesOf(w) /\ x >= stride THEN sums[x] + sums[x - stride] ELSE seen[x]]
  /\ raced' = (raced \/ \E x \in LanesOf(w) :
                 /\ x >= 2 * stride
                 /\ (x - stride) \div Warp # w /\ wpc[(x - stride) \div Warp] = "wait")
  /\ wpc' = [wpc EXCEPT ![w] = "write"]
  /\ UNCHANGED <<kernelVars, phase, sums, stride, buf, left, output, pairs>>

WarpWrites(w) ==
  /\ phase = "reduce2" /\ wpc[w] = "write"
  /\ sums' = [x \in PartIds |-> IF x \in LanesOf(w) /\ x >= stride THEN seen[x] ELSE sums[x]]
  /\ wpc' = [wpc EXCEPT ![w] = "wait"]
  /\ UNCHANGED <<kernelVars, phase, stride, seen, buf, left, output, pairs, raced>>

AllWait == phase = "reduce2" /\ \A w \in Warps : wpc[w] = "wait"

(* Mutant: the loop ends a round early.                                     *)
NextRoundShort ==
  /\ AllWait
  /\ stride' = 2 * stride
  /\ IF 4 * stride < Parts
       THEN /\ wpc' = [w \in Warps |-> "read"]
            /\ UNCHANGED <<phase, buf>>
       ELSE /\ buf' = sums /\ phase' = "reduced"
            /\ UNCHANGED wpc
  /\ UNCHANGED <<kernelVars, sums, seen, left, output, pairs, raced>>

NextRound ==
  /\ AllWait
  /\ stride' = 2 * stride
  /\ IF 2 * stride < Parts
       THEN /\ wpc' = [w \in Warps |-> "read"]
            /\ UNCHANGED <<phase, buf>>
       ELSE /\ buf' = sums /\ phase' = "reduced"
            /\ UNCHANGED wpc
  /\ UNCHANGED <<kernelVars, sums, seen, left, output, pairs, raced>>

ReduceCnt == sums[Parts - 1]

-----------------------------------------------------------------------------
(* reduce_compare_result3: a thread writes its pairs from its prefix sum    *)
(* downwards, column first.                                                 *)

Written(y) ==
  LET top(x) == Scan(y)[x] + buf[y] - Scan(y)[Warp - 1]
      upto(x, i) == {j \in Hits(y, x) : j <= i}
      entries(x) == {<<top(x) - Cardinality(upto(x, i)), i>> : i \in Hits(y, x)}
  IN  UNION {entries(x) : x \in 0..(Warp - 1)}

Reduce3(y) ==
  /\ phase = "reduced" /\ ReduceCnt \in 1..MaxPairs /\ y \in left
  /\ left' = left \ {y}
  /\ output' = [id \in DOMAIN output \cup {e[1] : e \in Written(y)} |->
                  IF \E e \in Written(y) : e[1] = id
                    THEN LET i == (CHOOSE e \in Written(y) : e[1] = id)[2]
                         IN  <<i % NumDocs, i \div NumDocs>>
                    ELSE output[id]]
  /\ UNCHANGED <<kernelVars, phase, sums, stride, wpc, seen, buf, pairs, raced>>

(* An entry of the list that no block has written: a pair of whatever       *)
(* bucket was compared before.                                              *)
Leftover == <<>>

HostReadsList ==
  /\ phase = "reduced" /\ ReduceCnt \in 1..MaxPairs /\ left = {}
  /\ pairs' = {IF id \in DOMAIN output THEN output[id] ELSE Leftover : id \in 0..(ReduceCnt - 1)}
  /\ phase' = "merged"
  /\ UNCHANGED <<kernelVars, sums, stride, wpc, seen, buf, left, output, raced>>

(* Too many pairs for the list: the host reads the matrix, and compares its *)
(* zeros and ones with th.                                                  *)
HostReadsMatrix ==
  /\ phase = "reduced" /\ ReduceCnt > MaxPairs
  /\ pairs' = {p \in Docs \X Docs : p[1] # p[2] /\ matrix[p] > Th}
  /\ phase' = "merged"
  /\ UNCHANGED <<kernelVars, sums, stride, wpc, seen, buf, left, output, raced>>

NothingToMerge ==
  /\ phase = "reduced" /\ ReduceCnt = 0
  /\ phase' = "merged"
  /\ UNCHANGED <<kernelVars, reduceVars>>

(* gpu_calculate_similarity: the ratio of each cell is compared with the    *)
(* threshold.                                                               *)
HostReadsRatios ==
  /\ phase = "compare" /\ kernel = "similarity" /\ KernelEnded
  /\ pairs' = {p \in Docs \X Docs : p[1] < p[2] /\ matrix[p] * 100 >= Percent * NumHash}
  /\ phase' = "merged"
  /\ UNCHANGED <<kernelVars, sums, stride, wpc, seen, buf, left, output, raced>>

Next ==
  \/ Comparison \/ Reduce1
  \/ \E w \in Warps : WarpReads(w) \/ WarpWrites(w)
  \/ NextRound
  \/ \E y \in PartIds : Reduce3(y)
  \/ HostReadsList \/ HostReadsMatrix \/ NothingToMerge \/ HostReadsRatios

Spec == Init /\ [][Next]_vars

(* The threads of a block that runs are scheduled.                          *)
FairSpec == Spec /\ WF_vars(Next)

-----------------------------------------------------------------------------
(* Properties                                                               *)

Agree(i, j) == Cardinality({h \in 0..(NumHash - 1) : sig[i][h] = sig[j][h]})
SimilarPairs == {p \in Docs \X Docs : p[1] < p[2] /\ Agree(p[1], p[2]) > Th}
Hit == {p \in Docs \X Docs : matrix[p] = 1}

(* The type invariant: barriers keep the threads of a block in one round,   *)
(* and no block writes below the diagonal of the matrix.                    *)
TypeOK ==
  /\ sig \in Inputs /\ grid \in (0..(Blocks - 1)) \X (0..(Blocks - 1))
  /\ tile \in 0..NumHash
  /\ \A t \in Threads : pc[t] = "compare" =>
       \A u \in Threads : pc[u] \in {"compare", "compared", "returned"}
  /\ \A t \in Threads : cnt[t] \in 0..NumHash
  /\ \A p \in Docs \X Docs : p[1] >= p[2] => matrix[p] = 0
  /\ buf \in [PartIds -> Nat] /\ DOMAIN output \subseteq Nat

(* compare_lsh_kernel: when the last block has ended, the matrix holds      *)
(* exactly the pairs over the threshold, whatever the order of the threads, *)
(* in the blocks cut off by the number of documents too.                    *)
MatrixExact ==
  kernel = "lsh" /\ (KernelEnded \/ phase # "compare") => Hit = SimilarPairs

(* similarity_compare_kernel: the pairs of a block none of whose threads    *)
(* returns early, a whole block above the diagonal, are judged exactly.     *)
(* Elsewhere the threads that returned have not loaded their part of the    *)
(* tiles.                                                                   *)
WholeBlock(p) == p[1] \div Edge < p[2] \div Edge /\ Edge * (p[2] \div Edge + 1) <= NumDocs
WholeBlocksExact ==
  kernel = "similarity" /\ phase = "merged" =>
    \A p \in Docs \X Docs : WholeBlock(p) =>
      (p \in pairs <=> Agree(p[1], p[2]) * 100 >= Percent * NumHash)

(* The host merges exactly the similar pairs, column first, each from one   *)
(* entry of the list, unless they are too many for the list or a warp of    *)
(* the second reduction was overtaken by another in the same round.  Even   *)
(* then the pairs are never counted too low, which would cut the list short.*)
ListExact ==
  kernel = "lsh" /\ phase = "merged" =>
    /\ ReduceCnt >= Cardinality(Hit)
    /\ ~raced /\ ReduceCnt <= MaxPairs =>
         /\ pairs = {<<p[2], p[1]>> : p \in SimilarPairs}
         /\ ReduceCnt = Cardinality(SimilarPairs)

(* Every bucket is done: no barrier waits for a thread that has returned.   *)
ComparisonEnds == <>(phase = "merged")

(* The ratio of crypto_cuda.cu:10 is the true one for every pair.           *)
SimilarityExact ==
  kernel = "similarity" /\ phase = "merged" =>
    \A p \in Docs \X Docs : p[1] < p[2] =>
      (p \in pairs <=> Agree(p[1], p[2]) * 100 >= Percent * NumHash)
=============================================================================
