------------------------------- MODULE FedMpi -------------------------------
(***************************************************************************)
(* The MPI program of src/main.cu and src/lsh.cu.  Each rank hashes the    *)
(* lines of its files and stores their signatures, in the output directory *)
(* or in memory; then it compares the bands it is assigned and keeps the   *)
(* duplicates as disjoint sets; merge_union joins the ranks' sets along a  *)
(* binary tree, rank 0 broadcasts the result, and each rank writes the     *)
(* lines of its files that are roots.  Documents are numbered from 1, in   *)
(* the order of the files and of the lines in a file.                      *)
(***************************************************************************)
EXTENDS Integers, Sequences, FiniteSets, Forest

CONSTANTS
  Setups,      \* what mpirun may be given and find, see SetupType
  Bands,       \* b: the number of bands
  SumOf,       \* [0..Bands-1 -> [Texts -> Nat]]: the sum a key is made of
  Similar,     \* pairs <<i, j>>, i < j, that agree in more than th hash values
  NumFile,     \* number of files
  FileOf,      \* [Docs -> 0..NumFile-1]
  Short,       \* the documents shorter than a shingle
  BinFiles,    \* the input files whose name ends in .bin
  MaxLine,     \* MAX_LINE
  KeyFloor,    \* the number of keys that the number of lines asks for
  DefaultKeys, DefaultBucket,   \* NUM_KEY and MAX_BUCKET
  Chunk,       \* C: keys compared at once
  EdgeLimit    \* REDUCE_EDGE_TH

Docs  == DOMAIN FileOf
Files == 0..(NumFile - 1)

(* A row of signatures is that of a document, or whatever the device memory *)
(* held at first.                                                           *)
Blank == 0
Texts == Docs \cup {Blank}

(* size: the number of processes; ompi: OMPI_COMM_WORLD_LOCAL_SIZE is set;  *)
(* bucket: the max_bucket that the free memory of each rank's GPU allows;   *)
(* offload: rank 0 finds too little memory to keep all the hash values;     *)
(* dir: the output directory exists; blank: rows never written are alike.   *)
SetupType == [size: Nat \ {0}, ompi: BOOLEAN, bucket: Seq(Nat \ {0}), offload: BOOLEAN,
              dir: BOOLEAN, blank: BOOLEAN]

(* No file is empty: the kernels of an empty file are launched with no      *)
(* blocks, an error at which gpuAssert ends the process.                    *)
ASSUME MpiAssumption ==
  /\ Setups \subseteq SetupType /\ \A s \in Setups : Len(s.bucket) = s.size
  /\ Bands \in Nat /\ NumFile \in Nat /\ EdgeLimit \in Nat
  /\ {MaxLine, KeyFloor, DefaultKeys, DefaultBucket, Chunk} \subseteq Nat \ {0}
  /\ FileOf \in Seq(Files) /\ \A d, e \in Docs : d < e => FileOf[d] <= FileOf[e]
  /\ \A f \in Files : Cardinality({d \in Docs : FileOf[d] = f}) \in 1..(MaxLine - 1)
  /\ SumOf \in [0..(Bands - 1) -> [Texts -> Nat]]
  /\ \A p \in Similar : p \in Docs \X Docs /\ p[1] < p[2]
  /\ Short \subseteq Docs /\ BinFiles \subseteq Files

VARIABLES
  setup,   \* the setup of this run
  pc,      \* where each rank is
  dir,     \* the output directory exists
  file,    \* the file each rank hashes next
  device,  \* hash_result_cuda: a signature for each line
  sizes,   \* file_size
  bins,    \* the hash files in the output directory
  hashes,  \* total_hash_result
  band,    \* b_id: the band it compares next
  todo,    \* pairs of the band that are still to be merged
  par,     \* its disjoint sets
  level,   \* r in merge_union
  mail,    \* the array each rank has sent, until it is received
  cast,    \* what rank 0 has broadcast
  output,  \* documents written to the output directory
  unwritten,  \* history: the files whose hash file could not be opened
  unread,  \* history: the ranks that could not read a hash file
  joined   \* history: the pairs merged by any rank

hashVars    == <<dir, file, device, sizes, bins, hashes, unwritten>>
compareVars == <<band, todo, unread>>
mergeVars   == <<par, joined>>
treeVars    == <<level, mail, cast>>
vars == <<setup, pc, hashVars, compareVars, mergeVars, treeVars, output>>

size == setup.size
Ranks == 0..(size - 1)

(* set_param, between two barriers of init_lsh_cuda: rank 0 decides whether *)
(* to offload, each rank sets its own bucket size and number of keys.       *)
MaxBucket(r) == IF setup.ompi THEN setup.bucket[r + 1] ELSE DefaultBucket
Offload      == setup.ompi => setup.offload
MaxOf(m, n)  == IF m > n THEN m ELSE n
NumKey(r) ==
  IF setup.ompi THEN MaxOf((2 * NumFile * MaxLine) \div MaxBucket(r), KeyFloor) ELSE DefaultKeys

Nothing == <<>>
Unknown == -1       \* what malloc has left in file_size

(* The files of a rank: the first NumFile % size ranks have one more.       *)
MinOf(m, n)  == IF m < n THEN m ELSE n
StartIndex(r) == r * (NumFile \div size) + MinOf(r, NumFile % size)

(* Mutant: the files left over by the division are nobody's.                *)
EndIndexNoExtra(r) == StartIndex(r) + NumFile \div size
EndIndex(r) == StartIndex(r) + NumFile \div size + (IF r < NumFile % size THEN 1 ELSE 0)

(* Mutant: the bands are counted from 1.                                    *)
FirstBandFromOne(r) == r + 1

(* b_id starts at the rank.                                                 *)
FirstBand(r) == r

Init ==
  /\ setup \in Setups
  /\ pc = [r \in Ranks |-> IF r = 0 THEN "create" ELSE "hash"]
  /\ dir = setup.dir
  /\ file = [r \in Ranks |-> StartIndex(r)]
  /\ device = [r \in Ranks |-> [l \in 1..MaxLine |-> Blank]]
  /\ sizes = [r \in Ranks |-> [f \in Files |-> Unknown]]
  /\ bins = [f \in Files |-> Nothing]
  /\ hashes = [r \in Ranks |-> [f \in Files |-> Nothing]]
  /\ band = [r \in Ranks |-> FirstBand(r)]
  /\ todo = [r \in Ranks |-> {}]
  /\ par = [r \in Ranks |-> Singletons(Docs)]
  /\ level = [r \in Ranks |-> 1]
  /\ mail = [r \in Ranks |-> Nothing] /\ cast = Nothing
  /\ output = {} /\ unwritten = {} /\ unread = {} /\ joined = {}

Goto(r, s) == pc' = [pc EXCEPT ![r] = s]

-----------------------------------------------------------------------------
(* generate_file_init and lsh_cuda                                          *)

(* Rank 0 creates the output directory; the others do not wait for it.      *)
CreateDirectory ==
  /\ pc[0] = "create"
  /\ dir' = TRUE
  /\ Goto(0, "hash")
  /\ UNCHANGED <<file, device, sizes, bins, hashes, unwritten, compareVars, mergeVars, treeVars, output>>

DocsIn(f)  == {d \in Docs : FileOf[d] = f}
LineOf(d)  == Cardinality({e \in DocsIn(FileOf[d]) : e <= d})
DocAt(f, l) == CHOOSE d \in DocsIn(f) : LineOf(d) = l
Lines(f)   == 1..Cardinality(DocsIn(f))

(* Mutant: a line is hashed from the start of the one before it.            *)
DeviceRowsShifted(r, f) ==
  [l \in 1..MaxLine |->
     IF l \in Lines(f) /\ DocAt(f, l) \notin Short THEN DocAt(f, MaxOf(l - 1, 1)) ELSE device[r][l]]

(* hash_string_kernel_lsh: the row of a document shorter than a shingle is  *)
(* left as the file before has left it.                                     *)
DeviceRows(r, f) ==
  [l \in 1..MaxLine |->
     IF l \in Lines(f) /\ DocAt(f, l) \notin Short THEN DocAt(f, l) ELSE device[r][l]]

(* generate_key_kernel makes keys of every row, modulo the rank's own       *)
(* number of keys.                                                          *)
RowsOf(r, rows, f) == [l \in Lines(f) |-> [text |-> rows[l], mod |-> NumKey(r)]]

(* A hash file that cannot be opened: lsh_cuda returns before it has set    *)
(* the size of the file.                                                    *)
HashFile(r) ==
  LET f    == file[r]
      rows == DeviceRows(r, f)
      lost == Offload /\ ~dir
  IN  /\ pc[r] = "hash"
      /\ f < EndIndex(r)
      /\ device' = [device EXCEPT ![r] = rows]
      /\ sizes'  = IF lost THEN sizes ELSE [sizes EXCEPT ![r][f] = Cardinality(Lines(f))]
      /\ bins'   = IF Offload /\ dir THEN [bins EXCEPT ![f] = RowsOf(r, rows, f)] ELSE bins
      /\ hashes' = IF Offload THEN hashes ELSE [hashes EXCEPT ![r][f] = RowsOf(r, rows, f)]
      /\ unwritten' = IF lost THEN unwritten \cup {f} ELSE unwritten
      /\ file'   = [file EXCEPT ![r] = f + 1]
      /\ UNCHANGED <<pc, dir, compareVars, mergeVars, treeVars, output>>

Hashed(r) ==
  /\ pc[r] = "hash"
  /\ file[r] >= EndIndex(r)
  /\ Goto(r, "gather")
  /\ UNCHANGED <<hashVars, compareVars, mergeVars, treeVars, output>>

-----------------------------------------------------------------------------
(* AllgatherFileSize and AllgatherHashResult                                *)

Count(r) == EndIndex(r) - StartIndex(r)

(* Mutant: the place of a rank's data supposes as many files of each.       *)
DisplsAlike(r) == r * Count(r)

(* displs: the sums of the counts.                                          *)
Displs(r) == LET at[n \in 0..r] == IF n = 0 THEN 0 ELSE at[n - 1] + Count(n - 1) IN at[r]

(* What the ranks' parts, taken from "from", make together.                 *)
Gathered(own, parts, from) ==
  [f \in Files |->
     IF \E q \in Ranks : f \in Displs(q)..(Displs(q) + Count(q) - 1)
       THEN LET q == CHOOSE q \in Ranks : f \in Displs(q)..(Displs(q) + Count(q) - 1)
            IN  parts[q][from[q] + f - Displs(q)]
       ELSE own[f]]

(* The collective calls return when every rank has made them.               *)
Gather ==
  /\ \A r \in Ranks : pc[r] = "gather"
  /\ sizes'  = [r \in Ranks |-> Gathered(sizes[r], sizes, [q \in Ranks |-> Displs(q)])]
  /\ hashes' = IF Offload THEN hashes
               ELSE [r \in Ranks |-> Gathered(hashes[r], hashes, [q \in Ranks |-> StartIndex(q)])]
  /\ pc' = [r \in Ranks |-> "compare"]
  /\ UNCHANGED <<dir, file, device, bins, unwritten, compareVars, mergeVars, treeVars, output>>

-----------------------------------------------------------------------------
(* compare_lsh_cuda                                                         *)

(* The rows that a rank reads.                                              *)
Stored(r, f) == IF Offload THEN bins[f] ELSE hashes[r][f]
Readable(r)  == {d \in Docs : Stored(r, FileOf[d]) # Nothing}
Row(r, d)    == Stored(r, FileOf[d])[LineOf(d)]
Key(r, k, d) == SumOf[k][Row(r, d).text] % Row(r, d).mod

(* Signatures that agree in more than th values: those of similar texts,    *)
(* and two copies of one.                                                   *)
Alike(s, t) == <<s, t>> \in Similar \/ <<t, s>> \in Similar \/ (s = t /\ (s # Blank \/ setup.blank))

(* A bucket is filled in document order.  Each time it is full it is        *)
(* compared and emptied, but its result, a matrix of 0 and 1, is tested     *)
(* against th again, so that no pair of it is merged.  What is left at the  *)
(* end is compared too; its pairs are merged unless they are so many that   *)
(* the same test is used.                                                   *)
Bucket(r, k, key) == {d \in Readable(r) : Key(r, k, d) = key}
Rest(r, k, key) ==
  LET docs == Bucket(r, k, key)
      full == (Cardinality(docs) \div MaxBucket(r)) * MaxBucket(r)
  IN  {d \in docs : Cardinality({e \in docs : e <= d}) > full}

(* Mutant: the lower half of the matrix is filled too.                      *)
AllPairsIn(r, docs) == {p \in docs \X docs : Alike(Row(r, p[1]).text, Row(r, p[2]).text)}
PairsIn(r, docs) ==
  {p \in docs \X docs : p[1] < p[2] /\ Alike(Row(r, p[1]).text, Row(r, p[2]).text)}
Merged(r, k, key) ==
  LET pairs == PairsIn(r, Rest(r, k, key))
  IN  IF Cardinality(pairs) > MaxBucket(r) * EdgeLimit THEN {} ELSE pairs

(* The chunks of keys cover the rank's own number of keys.                  *)
KeysOf(r) == 0..(((NumKey(r) + Chunk - 1) \div Chunk) * Chunk - 1)
BandPairs(r, k) ==
  UNION {Merged(r, k, key) : key \in {Key(r, k, d) : d \in Readable(r)} \cap KeysOf(r)}

(* Mutant: a file that is not there is passed over.                         *)
CompareBandPassing(r) ==
  /\ pc[r] = "compare"
  /\ todo[r] = {}
  /\ band[r] < Bands
  /\ todo' = [todo EXCEPT ![r] = BandPairs(r, band[r])]
  /\ band' = [band EXCEPT ![r] = @ + size]
  /\ UNCHANGED <<pc, unread, hashVars, mergeVars, treeVars, output>>

CompareBand(r) ==
  /\ pc[r] = "compare"
  /\ todo[r] = {}
  /\ band[r] < Bands
  /\ Readable(r) = Docs
  /\ todo' = [todo EXCEPT ![r] = BandPairs(r, band[r])]
  /\ band' = [band EXCEPT ![r] = @ + size]
  /\ UNCHANGED <<pc, unread, hashVars, mergeVars, treeVars, output>>

(* The order of the pairs is that of the GPU's reduction.                   *)
MergePair(r) ==
  /\ pc[r] = "compare"
  /\ \E p \in todo[r] :
       /\ par'    = [par EXCEPT ![r] = Merge(@, p[2], p[1])]
       /\ todo'   = [todo EXCEPT ![r] = @ \ {p}]
       /\ joined' = joined \cup {p}
  /\ UNCHANGED <<pc, band, unread, hashVars, treeVars, output>>

(* The hash files are read again for each chunk of keys.  One that cannot   *)
(* be read ends the comparison of the rank, in the middle of a band or      *)
(* before the next, and nothing else: what is left of the band is never     *)
(* merged.  A file that was never written cannot be read.                   *)
StopsReading(r) ==
  /\ pc[r] = "compare"
  /\ todo' = [todo EXCEPT ![r] = {}]
  /\ unread' = unread \cup {r}
  /\ Goto(r, "barrier")
  /\ UNCHANGED <<band, hashVars, mergeVars, treeVars, output>>

FileMissing(r) == band[r] < Bands /\ Readable(r) # Docs /\ StopsReading(r)
ReadFails(r) ==
  Offload /\ Readable(r) = Docs /\ (todo[r] # {} \/ band[r] < Bands) /\ StopsReading(r)

Compared(r) ==
  /\ pc[r] = "compare"
  /\ todo[r] = {}
  /\ band[r] >= Bands
  /\ Goto(r, "barrier")
  /\ UNCHANGED <<hashVars, compareVars, mergeVars, treeVars, output>>

(* MPI_Barrier                                                              *)
PassBarrier(r) ==
  /\ pc[r] = "barrier"
  /\ \A q \in Ranks : pc[q] # "compare"
  /\ Goto(r, "merge")
  /\ UNCHANGED <<hashVars, compareVars, mergeVars, treeVars, output>>

-----------------------------------------------------------------------------
(* merge_union                                                              *)

InTree(r)  == pc[r] = "merge" /\ level[r] < size /\ r % level[r] = 0
IsOdd(r)   == (r \div level[r]) % 2 = 1
Up(r)      == level' = [level EXCEPT ![r] = 2 * @]

Send(r) ==
  /\ InTree(r)
  /\ IsOdd(r)
  /\ mail' = [mail EXCEPT ![r] = par[r]]
  /\ Goto(r, "sending")
  /\ UNCHANGED <<hashVars, compareVars, mergeVars, level, cast, output>>

(* MPI_Send returns when the array has been received, or earlier if MPI has *)
(* buffered it.                                                             *)
SendReturns(r) ==
  /\ pc[r] = "sending"
  /\ Up(r)
  /\ Goto(r, "merge")
  /\ UNCHANGED <<hashVars, compareVars, mergeVars, mail, cast, output>>

Receive(r) ==
  LET q == r + level[r] IN
  /\ InTree(r)
  /\ ~IsOdd(r)
  /\ q \in Ranks
  /\ mail[q] # Nothing
  /\ par'  = [par EXCEPT ![r] = Absorb(@, mail[q])]
  /\ mail' = [mail EXCEPT ![q] = Nothing]
  /\ Up(r)
  /\ UNCHANGED <<hashVars, compareVars, pc, joined, cast, output>>

(* MPI_Recv from a rank that does not exist is an error, and errors are     *)
(* fatal to all the processes.                                              *)
ReceiveAborts(r) ==
  /\ InTree(r)
  /\ ~IsOdd(r)
  /\ r + level[r] \notin Ranks
  /\ pc' = [q \in Ranks |-> "aborted"]
  /\ UNCHANGED <<hashVars, compareVars, mergeVars, treeVars, output>>

(* Mutants: the loop ends a level early; the break is missing.              *)
LeaveTreeEarly(r) ==
  /\ pc[r] = "merge"
  /\ 2 * level[r] >= size \/ r % level[r] # 0
  /\ Goto(r, "bcast")
  /\ UNCHANGED <<hashVars, compareVars, mergeVars, treeVars, output>>

LeaveTreeNoBreak(r) ==
  /\ pc[r] = "merge"
  /\ level[r] >= size
  /\ Goto(r, "bcast")
  /\ UNCHANGED <<hashVars, compareVars, mergeVars, treeVars, output>>

LeaveTree(r) ==
  /\ pc[r] = "merge"
  /\ level[r] >= size \/ r % level[r] # 0
  /\ Goto(r, "bcast")
  /\ UNCHANGED <<hashVars, compareVars, mergeVars, treeVars, output>>

(* MPI_Bcast.  Rank 0 then looks up the root of every document to count the *)
(* groups.                                                                  *)
Broadcast ==
  /\ pc[0] = "bcast"
  /\ cast' = par[0]
  /\ par' = [par EXCEPT ![0] = [d \in Docs |-> Root(@, d)]]
  /\ Goto(0, "barrier2")
  /\ UNCHANGED <<hashVars, compareVars, joined, level, mail, output>>

GetBroadcast(r) ==
  /\ r # 0
  /\ pc[r] = "bcast"
  /\ cast # Nothing
  /\ par' = [par EXCEPT ![r] = cast]
  /\ Goto(r, "barrier2")
  /\ UNCHANGED <<hashVars, compareVars, joined, treeVars, output>>

-----------------------------------------------------------------------------
(* delete_hash_result and generate_file                                     *)

(* After a barrier each rank removes every .bin file of the output          *)
(* directory, the output of a faster rank among them, and then writes its   *)
(* own files: a line is written if it is the root of its set.               *)
DeleteHashResult(r) ==
  /\ pc[r] = "barrier2"
  /\ \A q \in Ranks : pc[q] \in {"barrier2", "write", "finished"}
  /\ IF Offload
       THEN /\ bins'   = [f \in Files |-> Nothing]
            /\ output' = {d \in output : FileOf[d] \notin BinFiles}
       ELSE UNCHANGED <<bins, output>>
  /\ Goto(r, "write")
  /\ UNCHANGED <<dir, file, device, sizes, hashes, unwritten, compareVars, mergeVars, treeVars>>

GenerateFiles(r) ==
  /\ pc[r] = "write"
  /\ output' = output \cup {d \in Docs : /\ StartIndex(r) <= FileOf[d] /\ FileOf[d] < EndIndex(r)
                                         /\ par[r][d] = d}
  /\ Goto(r, "finished")
  /\ UNCHANGED <<hashVars, compareVars, mergeVars, treeVars>>

-----------------------------------------------------------------------------
HashPhase(r) == HashFile(r) \/ Hashed(r) \/ (r = 0 /\ CreateDirectory)
Compare(r) == CompareBand(r) \/ MergePair(r) \/ FileMissing(r) \/ Compared(r) \/ PassBarrier(r)
MergeUnion(r) ==
  \/ Send(r) \/ SendReturns(r) \/ Receive(r) \/ ReceiveAborts(r) \/ LeaveTree(r)
  \/ GetBroadcast(r) \/ (r = 0 /\ Broadcast)
Write(r) == DeleteHashResult(r) \/ GenerateFiles(r)
RankStep(r) == HashPhase(r) \/ Compare(r) \/ ReadFails(r) \/ MergeUnion(r) \/ Write(r)

Next == (Gather \/ \E r \in Ranks : RankStep(r)) /\ UNCHANGED setup
Spec == Init /\ [][Next]_vars

(* Some process that can take a step does.  A send may wait for its         *)
(* receiver.                                                                *)
SendReceived(r) == SendReturns(r) /\ mail[r] = Nothing
Progress ==
  /\ \/ Gather
     \/ \E r \in Ranks :
          \/ HashPhase(r) \/ Compare(r) \/ Write(r)
          \/ Send(r) \/ SendReceived(r) \/ Receive(r) \/ ReceiveAborts(r) \/ LeaveTree(r)
          \/ GetBroadcast(r) \/ (r = 0 /\ Broadcast)
  /\ UNCHANGED setup
FairSpec == Spec /\ WF_vars(Progress)

-----------------------------------------------------------------------------
(* Properties                                                               *)

(* The type invariant: pairs are those of the upper half of the matrix, and *)
(* every array sent, received or broadcast maps documents to documents.     *)
TypeOK ==
  /\ setup \in Setups /\ dir \in BOOLEAN
  /\ pc \in [Ranks -> {"create", "hash", "gather", "compare", "barrier", "merge", "sending",
                       "bcast", "barrier2", "write", "finished", "aborted"}]
  /\ \A r \in Ranks : /\ file[r] \in 0..NumFile /\ device[r] \in [1..MaxLine -> Texts]
                      /\ band[r] \in Nat /\ level[r] \in 1..(2 * size)
                      /\ \A p \in todo[r] : p \in Docs \X Docs /\ p[1] < p[2]
                      /\ par[r] \in [Docs -> Docs] /\ mail[r] \in {Nothing} \cup [Docs -> Docs]
  /\ cast \in {Nothing} \cup [Docs -> Docs]
  /\ output \subseteq Docs /\ unread \subseteq Ranks /\ joined \subseteq Docs \X Docs

InHashPhase(r) == pc[r] \in {"create", "hash", "gather"}

(* After the gathers every rank knows the length of every file whose hashes *)
(* were stored, and, when they are kept in memory, has the rows of every    *)
(* file in the place of the file, from whichever rank hashed it.            *)
GatheredRight ==
  \A r \in Ranks : ~InHashPhase(r) =>
    \A f \in Files \ unwritten :
      /\ sizes[r][f] = Cardinality(Lines(f))
      /\ ~Offload => \A l \in Lines(f) : DocAt(f, l) \notin Short => hashes[r][f][l].text = DocAt(f, l)

(* No document is merged with one that is not similar, unless one of the    *)
(* two is shorter than a shingle and has been given the signature of        *)
(* another line: whichever rank hashed it, and whatever it had hashed       *)
(* before.                                                                  *)
JoinedAlike == \A p \in joined : p \in Similar \/ p[1] \in Short \/ p[2] \in Short

(* A hash file that could not be written, because its rank came before the  *)
(* directory, ends every comparison before its first merge: the input is    *)
(* never deduplicated in part.                                              *)
AllOrNothing == unwritten # {} => joined = {} /\ \A r \in Ranks : par[r] = Singletons(Docs)

(* No rank's parent array has a cycle, whatever the order of its merges:    *)
(* root() always returns.                                                   *)
Forests == \A r \in Ranks : Acyclic(par[r])

(* After the broadcast every rank has the same sets, and they are exactly   *)
(* what all the merges of all the ranks imply: the tree of merge_union      *)
(* loses no link and makes none up.                                         *)
MergedExactly ==
  \A r \in Ranks : pc[r] \in {"barrier2", "write", "finished"} =>
    \A d \in Docs : {e \in Docs : Together(par[r], d, e)} = Linked(Docs, joined, d)

(* The output holds exactly one document of each group of duplicates,       *)
(* though the ranks write their files independently and each removes the    *)
(* hash files.  Only from an input file named like a hash file can the one  *)
(* be removed again.                                                        *)
OneOfEachKept ==
  (\A r \in Ranks : pc[r] = "finished") =>
    \A d \in Docs :
      LET group == Linked(Docs, joined, d)
      IN  \/ Cardinality(output \cap group) = 1
          \/ output \cap group = {} /\ Offload /\ \E e \in group : FileOf[e] \in BinFiles

(* Every pair of similar documents with a common key has been merged when   *)
(* the ranks begin to join their sets, if all of them could read the hashes *)
(* and have the same number of keys; unless every bucket the two share was  *)
(* filled up, or has more pairs than are listed.                            *)
Crowded(r, k, p) ==
  LET key == Key(r, k, p[1])
  IN  \/ Cardinality(Bucket(r, k, key)) >= MaxBucket(r)
      \/ Cardinality(PairsIn(r, Rest(r, k, key))) > MaxBucket(r) * EdgeLimit

EveryPairJoined ==
  /\ unread = {} /\ \A r \in Ranks : pc[r] = "barrier"
  /\ \A r \in Ranks : NumKey(r) = NumKey(0)
  => \A p \in Similar :
       LET shared == {k \in 0..(Bands - 1) : Key(k % size, k, p[1]) = Key(k % size, k, p[2])}
       IN  p[1] \notin Short /\ p[2] \notin Short /\ shared # {} =>
             p \in joined \/ \A k \in shared : Crowded(k % size, k, p)

(* An aborted run has neither shared nor written partial sets: rank 0 has   *)
(* not broadcast, and no rank has written a file.                           *)
AbortSharesNothing ==
  (\E r \in Ranks : pc[r] = "aborted") => cast = Nothing /\ output = {}

(* The program ends, by an MPI error if need be: no rank waits for a message *)
(* that is never sent, or for a rank that never comes to a barrier.         *)
AllFinish == <>(\A r \in Ranks : pc[r] \in {"finished", "aborted"})
=============================================================================
