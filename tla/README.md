# FedPrivDedup in TLA+

FedPrivDedup removes near-duplicate documents from text collections. The
repository holds two programs that share an idea (MinHash signatures, buckets,
comparison inside a bucket) and no running code:

* the **federation** (`src/src/fed/`): organisations run a client each; a
  server compares their encrypted signatures and tells every client which of its
  documents another organisation has too;
* the **MPI program** (`src/src/main.cu`, `src/src/lsh.cu`): one owner, many GPU
  processes, disjoint sets that are joined along a tree.

This directory models both, checks the models with TLC and proves nearly every
safety property that TLC checks, for all values of the constants, with TLAPS.
Paths below are relative to `src/src/`.

## Inventory

### Components, their state and operations

| Component | State | Operations | Model |
|---|---|---|---|
| Server (`fed/server.cpp`) | `client_keys`, `candidates`, `bucket_candidates`, `duplicate_docs`; for each connection a detached thread with its request and local copies | `HELLO`, `CANDIDATES`, `CANDIDATES_DATA` and the block, `CALCULATE`, `GET_RESULTS`, unknown commands, a closed connection | `FedServer` |
| Client (`fed/client.cpp`) | `server_key`, `local_candidates`, `id_mapping`, the results file | `run`: get parameters and key, process the data, deduplicate locally, upload, trigger or sleep, fetch results | `Federation` (with the server) |
| Local deduplication (`fed/union_find.cpp`) | `parent_`, `rank_` | compare all pairs, merge, list the duplicates | `LocalDedup`, `Forest` |
| Preprocessor (`fed/data_preprocessor.cpp`) | `raw_queue_`, `loading_done_`, results | a loader and worker threads for each file | `DataPreprocessor`, `Loading` |
| MPI program (`lsh.cu`, `main.cu`, `param.cu`) | each rank's parameters, files, rows of hash values, `par`, the band, messages; the output directory | hash the files, gather, compare the bands, `merge_union`, broadcast, `generate_file` | `FedMpi`, `Forest` |
| Comparison kernels (`lsh.cu`, `fed/crypto_cuda.cu`) | shared memory of a block, the matrix, the reduction buffers | `compare_lsh_kernel`, `similarity_compare_kernel`, `reduce_compare_result1..3` | `TileKernels`, `BucketPairs` |
| Signatures (`lsh.cu`, `fed/fed_cuda.cu`, `fed/client.cpp`) | hash functions, device rows | rolling and batched MinHash, bucket ids | `Signatures` |
| Encryption (`fed/aes_crypto.cpp`, `fed/crypto.cpp`, `fed/decrypt_cuda.cu`) | none | AES-256-CBC, decryption on the GPU | `Signatures`; its effects on the protocol in `FedServer` |
| Authentication manager (`fed/auth_manager.cpp`) | clients with key, permissions, active flag, under a mutex | register, authenticate, revoke, update | `Administration` |
| Audit logger (`fed/audit_logger.cpp`) | a stream and its file under a mutex | log, change the file | `Administration` |
| TLS (`fed/tls_connection*`) | an OpenSSL session | read, write | no: the classes are used nowhere |
| Files and paths (`util.cpp`, `server_main.cpp`) | none | read a file, parse a command line | line numbers only, in `FedMpi` |

### How they interact

* Each request of a client opens a TCP connection, except that `CANDIDATES`,
  `CANDIDATES_DATA` and the block share one. The server accepts and starts a
  detached thread. **All threads share four containers, and there is no lock.**
* The client runs its preprocessor for one file after the other, the local
  deduplication on everything loaded, and one encryption thread per chunk of
  candidates, whose output is appended to the block in any order.
* Only the client called `client2` sends `CALCULATE`. The others sleep ten
  seconds and then fetch what there is.
* Connection threads ask the authentication manager whether a client is
  registered and log through the audit logger; each has a mutex of its own.
* MPI ranks share the output directory, where they keep their hash files if
  there are too many for memory. They meet in two gathers, at two barriers, in
  the merge tree (blocking sends and receives) and in a broadcast.
* The threads of a CUDA block share a tile of signatures and meet at barriers;
  the warps of the second reduction share a prefix sum.

### What is hard

Interleavings of server threads on unlocked containers; a calculation that
clears what was uploaded meanwhile; a new key for a client whose candidates are
stored; exceptions in a detached thread; a server that dies, or one connection that
breaks, in the middle of a client's run; a second run of a client beside the thread
its first run left behind; a refused block, a block with lines of several clients or
a line that cannot be parsed; answers longer than the
buffer; the end-of-input flag of the preprocessor; the shape of the merge tree
for any number of ranks; an output directory that is created while others write
to it; parameters that each rank derives from its own GPU; buckets at their
limit; cycles and depth of the disjoint sets; kernel threads that return before
a barrier; a scan in place; rows of hash values left by an earlier file; signed
chars in unsigned arithmetic; a lock taken twice. `PROJECT.json` lists these hazards at their lines, with the
properties that cover each.

### What makes each component correct

* Server: what was stored is compared before it is destroyed; what was compared
  is destroyed; the lists hold only documents that have a partner in another
  organisation; a client the server does not know leaves no trace; every
  calculation ends.
* Client: what it writes belongs to this run; when the runs succeed in order
  nothing is missing; no run waits for ever.
* Preprocessor: every long line of a file exactly once, as if loaded
  sequentially; no worker leaves early; the joins return.
* Disjoint sets: no cycles, logarithmic depth (with ranks), components exactly
  the chains of similar documents; one document of each is kept.
* MPI: the tree loses no link and makes none up; each group keeps one document
  although ranks write independently; the gathers put every file in its place;
  every rank finishes.
* Kernels: the matrix holds exactly the similar pairs whatever the order of the
  threads, and the list exactly the pairs of the matrix; no barrier hangs.
* Signatures: a rolled hash is the hash of its window; the similarity of two texts
  survives batching, encryption and decryption.
* Administration: no entry of the log is lost or doubled; only the key of a client
  that is not revoked authenticates it; no request waits for ever.

## Modules

`FedServer` is the core. A thread has a program point (`pc`), the client of its
request (`who`), the lines it still has to store (`lines`) and how many more the
block announces (`missing`), the map iterator
(`cursor`), the local copy of the bucket (`sigs`) and the pairs still to be
handled (`dups`). Each step touches at most one shared container once, because
any two such steps of different threads can interleave:

| Code | Actions |
|---|---|
| read of a request, `waiting_for_data` | `TakeHello`, `TakeBlock`, `TakeCalculate`, `TakeGetResults`, `HandleDataHeader`, `HangUp`, `HandleUnknown`, `Finish` |
| `HELLO` | `Hello` |
| `CANDIDATES` | `HandleCandidates` |
| the block | `BlockRefused`, `BlockAccepted`, `SkipLine`, `StoreCandidate` then `StoreInBucket`, `BlockStored`, `LineThrows` |
| `perform_global_similarity` | `CalculateRefused`, `CalculateStarts`, `ScanBucket`, `DecryptThrows`, `RecordPair` then `RecordPartner`, `BucketDone`, `LastBucketDone`, `ClearCandidates`, `ClearBuckets` |
| `GET_RESULTS` | `GetResults` |
| the process | `Kill`, `Restart`, and `End` by an uncaught exception |

A block (`TakeBlock`) is any sequence of lines, each with a document, a client and a
key of its own: the server checks the client of every line, and lines of several
clients, registered or not, may stand in one block. `missing` counts the lines that
are announced and not there, or cannot be parsed. The loop ends at the first of them
(`BlockStored`, with the same confirmation), or the first is a registered client's
line whose signature is not hexadecimal, and the exception of `stoul` ends the process
(`LineThrows`).

Data races are undefined behaviour in C++. The models take the outcomes a
`vector` gives: when another thread is at a push into the same vector
(`PushesCandidate`, `PushesInBucket`, `PushesResult`) a push may be lost; or the process
dies (`Kill` may happen at any time). Threads of `similarity_compare_kernel`
return above the barrier and above the load of the tile, so that the others
compare memory that was never written (`BucketPairs` shows this); `Verdicts` is
therefore any set of pairs.
The GPU path of decryption never throws; the CPU path may, outside the `try`
block (`DecryptThrows`). A document is the random id of a candidate of one run:
ids are drawn anew for each run, so no document is sent twice. `sent` and
`issued` are the environment's memory; `taken` and `seen` are history.

Four specifications restrict the environment. `Spec` is open: any thread, any
request. `OneCalculatorSpec` has one calculation at a time, which holds when one
client triggers and waits, as the clients of the repository do, unless that client is
cut off from its calculation and run again. `SerialSpec` has
one request at a time: the clients are operated by hand, one after the other.
`FairSpec` adds fairness.

`Federation` EXTENDS `FedServer` and adds `FedClient::run` for each client. A run has
one connection at a time, so `<<c, r>>` names the thread that serves run `r` of client
`c`. Client steps use the server's own actions (`Take`, `AnswerCandidates`,
`HandleDataHeader`, `Finish`); the server's steps are `Handler`. `linked` says whether the
client's connection is alive: the client closes it after the answer it waits for,
the end of the server breaks all of them (`Links`), one may break alone (`CutOff`), and
the process of a client may be killed or fail (`Abort`, `ProcessFails`). The client
notices when it next reads or sends (`ConnectionLost`). The server's thread does not: it
goes on with its request, answers nobody and ends (`Leave`), beside the thread of the
client's next run. So two uploads of one client, or two calculations, may run at once.
`SendCandidates` .. `HearConfirmation` follow the one connection of the upload:
`HearTooMany` is the second `read` the client makes when the first answer is not
the confirmation. Steps are made by hand (`ByHand`: a process is started), by the
processes themselves (`ByItself`, with the end of a sleep; `Serving`), or by faults
(`Broken`: `ServerFaults`, `ClientFaults`). Three history variables speak of the order of
things. `in_order` says whether everything so far was done in the order the manual
describes: `client2` is started when the others have uploaded, they wake after its
calculation, and nothing broke. `cut_off` says that this server process has gone on
calculating for a `client2` that had gone. `lost` counts broken connections and killed clients.

`Loading` says what the preprocessor promises: files one after the other, each
contributing all of its long lines in some order, or none if it cannot be
opened. `DataPreprocessor` is the code: `StartLoading` (reset, start the
threads), `OpenFile`, `OpenFails`, `PushLine`, `EndOfFile` for the loader,
`PopLine`, `ProcessLine`, `NoMoreLines`, `MergeResults` for a worker, `Collect` (the
joins) and `AllLoaded`. It implements `Loading` under the mapping that counts a
file as loaded, and as opened, when its threads are joined, and that hides the
sample documents (`LoadsLikeOne`). The two tests under `raw_mutex_` are one step: nothing else can
change the queue meanwhile, and the flag only ever rises.

`Forest` holds the disjoint sets without ranks of `lsh.cu` as functions. `FedMpi`
has one process per rank and follows `main` from `generate_file_init` to the
output. A setup chosen at the start is what `mpirun` is given and finds: the
number of ranks, the memory of each GPU, whether hashes are kept in files, whether
the output directory exists.

| Code | Actions of `FedMpi` |
|---|---|
| `generate_file_init`, `lsh_cuda` | `CreateDirectory` (rank 0, while the others go on), `HashFile`, `Hashed` |
| `AllgatherFileSize`, `AllgatherHashResult` | `Gather` |
| `compare_lsh_cuda` | `CompareBand` takes a band, `MergePair` merges its pairs in any order, `FileMissing` and `ReadFails` are hash files that cannot be opened, `Compared` |
| the barriers | `PassBarrier`, the guard of `DeleteHashResult` |
| `merge_union` | `Send`, `SendReturns`, `Receive`, `ReceiveAborts`, `LeaveTree`, `Broadcast` (with the root lookups of rank 0's statistics, which compress its paths), `GetBroadcast` |
| `delete_hash_result`, `generate_file` | `DeleteHashResult`, `GenerateFiles` |

A row of hash values is the text it was hashed from and the number of keys of the
rank that hashed it; `DeviceRows` leaves the row of a line that is too short as it
was. `PairsIn`, `Rest` and `Merged` follow the bucket limits of
`compare_lsh_cuda`.

`TileKernels` has the two kernels that compare signatures, thread by thread:
`LoadTile`, the barrier `TileLoaded`, `CompareTile`, the barrier `TileCompared`,
`WriteResult`, `NextBlock`. They differ in who returns early (`Returns`) and in
which cell a thread loads. Shared memory holds `Garbage` until it is written.
`BucketPairs` EXTENDS it with what follows: `Reduce1`, the second reduction warp by
warp (`WarpReads`, `WarpWrites`, `NextRound`), `Reduce3` block by block, and the host
(`HostReadsList`, `HostReadsMatrix`, `NothingToMerge`; `HostReadsRatios` on the server).

`Signatures` has two sides. One thread of `hash_string_kernel_lsh` rolls its hash
function over a line (`FirstWindow`, `Roll`), with unsigned arithmetic modulo
`WordMod` and signed chars. A batch of the federation goes from
`BatchSignatures` and `ChooseBuckets` through `EncryptSignatures` to `DecryptOnCpu` or
`DecryptOnGpu`. The block cipher is a pair of parameters that are inverse to each
other, and so is the exclusive or of two words (`XorWord`) to itself; chaining, padding
and the two initialization vectors are written out. `Horner` is the loop that every hash
function and bucket id runs: multiply, add, wrap, reduce. The properties compare it with
`Poly`, the polynomial in whole numbers. The names of its initial condition, next-state
relation and specification begin with `Sign`, so that `TextProofs` can extend it together
with `DataPreprocessor`.

`Administration` is `AuthManager` and `AuditLogger` beside the connection threads that
use them. Every public operation holds a mutex from its first line to its
return, so that an operation of the manager is one step; the logger is split into
`LogBegins` and `LogWrites`, `SetLogFile` and `OpenFails` or `OpenSucceeds`, because
`set_log_file` calls `log` while it holds the lock. The server never calls
`set_log_file`, `revoke_client` and the like: an operator does.

`LocalDedup` has the two loops of `perform_local_deduplication` and the merge by
rank, for **every** similarity relation of up to `MaxDocs` candidates.

The modules whose names begin with `MC` hold the small instances; those whose
names end with `Proofs` hold the theorems about the module they are named after;
`TextProofs` holds those of `DataPreprocessor` and `Signatures`. The
operators marked "Mutant" in the modules are broken variants of the definition
they precede (a dropped guard, a missing reset, a swapped order). They are used
by no specification; they show that the properties notice.

## Runs

| Run | Asks | Instance |
|---|---|---|
| `FedServerOpen` | `TypeOK`, `SeenThenDestroyed`, `CalculationEnds`, no deadlock | two threads, one document of each of two clients in one bucket, one key each, one line missing; 0.36 million states |
| `FedServerSerial` | `NothingLost`, `StoresAgree`, `StrangersKeptOut` | one request at a time, four documents in two buckets, blocks of up to two accepted lines of any clients mixed, one of them not registered, one line missing; 0.18 million |
| `Federation` | `ResultsPaired`, `FederationTypeOK`, `SavedHaveWitness`, `ResultsComplete`, `RunsEnd` | `client1` run once and `client2` twice, one broken connection or killed client, kills and restarts of the server, blocks of up to two candidates where one is accepted, answers of two ids, two buckets; 0.69 million |
| `DataPreprocessor` | `TypeOK`, `LeavesNothing`, `EveryLineOnce`, `LoadsLikeOne`, `AllFilesLoaded` | three workers, three files (one empty, one with a short line in the middle); 2.4 thousand |
| `FedMpi` | `TypeOK`, `GatheredRight`, `JoinedAlike`, `AllOrNothing`, `Forests`, `MergedExactly`, `OneOfEachKept`, `EveryPairJoined`, `AbortSharesNothing`, `AllFinish` | ten setups of one to four ranks, six documents in three files, five bands; 73 thousand |
| `BucketPairs` | `TypeOK`, `MatrixExact`, `WholeBlocksExact`, `ListExact`, `ComparisonEnds` | seven buckets of two to five documents, blocks of 2 x 2 threads, five parts in three warps; 129 thousand |
| `LocalDedup` | `TypeOK`, `ComponentsExact`, `ShallowTrees`, `FirstOfEachKept` | all relations of up to five candidates; 13 thousand |
| `Administration` | `LogAccounts`, `RegistrationLasts`, `RequestsEnd` | two threads and an operator, two clients, two keys, two files; 0.67 million |
| `Signatures` | `HashExact`, `SimilarityArrives` | every line over four chars, two hash functions; seven batches, three initialization vectors; 0.12 million |

Three runs show that the code does not do what its comments or documents say; TLC
finds the behaviour in each:

* `FedServerLost`: a candidate uploaded while a calculation runs is confirmed to
  its client and destroyed by `bucket_candidates.clear()` without a comparison.
* `FedServerTerminates`: after a second `HELLO` of a client with stored candidates,
  decryption throws outside the `try` block and ends the server.
* `SimilarityKernel`: a thread of `similarity_compare_kernel` that returns early has
  not loaded its part of the tiles, so that the verdict on a pair in a block on the
  diagonal, or cut off at the end, depends on memory nobody wrote.
  `WholeBlocksExact` says which pairs are judged right.

Met while modelling. A property names the case as an exception where one is about
it, so that it holds of everything else:

* A bucket that reaches `max_bucket` is compared, but its 0/1 matrix is tested
  against `th` a second time and none of its pairs is merged; the same test is used
  when a bucket has more pairs than are listed (`Crowded` in `EveryPairJoined`).
* Ranks whose GPUs have different amounts of memory disagree about the number of
  keys, and `EveryPairJoined` supposes that they agree.
* The row of a document shorter than a shingle is that of another file's line, with
  which it may be merged (`Short` in `JoinedAlike`).
* A rank that hashes before rank 0 has created the output directory loses its hash
  file; then no rank merges anything (`AllOrNothing`). An input file named `.bin` loses
  its output to the removal of the hash files (`BinFiles` in `OneOfEachKept`).
* A run of three ranks aborts (`ReceiveAborts`).
* Two warps of the second reduction may overtake each other, and the list is then
  wrong, though never short (`raced` in `ListExact`).
* A line with negative chars (any text that is not ASCII) may wrap around in the
  rolling hash (`wrapped` in `HashExact`).
* The server decrypts with an initialization vector of zeros, which garbles the
  first block, four values of 128 (`SimilarityArrives`); its GPU kernel is an
  exclusive or with the key and gives nothing of the signature (`DecryptOnGpu`).
* When `client2` is cut off from its calculation, fails and is run again, the thread of
  the first run still calculates when the second `CALCULATE` comes. The two push into one
  vector of `duplicate_docs`; one entry may be lost, and its counterpart stays alone in the
  other client's list (`cut_off` in `ResultsPaired`; without it TLC finds this).
* A line that cannot be parsed ends the loop over a block, and the client is told
  `CANDIDATES_RECEIVED` all the same (`BlockStored`).
* A change of the log file that succeeds is followed by a deadlock and one that fails by the
  dropping of every entry. All entries are therefore in the first file, and what
  `LogAccounts` says of several files is hardly exercised.
* After `TOO_MANY_CANDIDATES` the client reads once more, the server waits for a
  request, and the run never ends (`read_again` in `RunsEnd`).
* A client that wakes up before the calculation saves an incomplete list
  (`in_order` in `ResultsComplete`); ids beyond the first 1024 bytes of an answer are
  lost (`Heard`).
* A document that is the second of two pairs is listed twice, and one whose partner
  is already listed is not listed at all (`RecordPair`, `RecordPartner`).
* `set_log_file` waits for its own lock as soon as it succeeds, and every thread
  that logs with it (`ChangedFile` in `RequestsEnd`).
* A revoked client is still served; only `authenticate_client` refuses it
  (`RegistrationLasts`).

What these exceptions mean: `JoinedAlike` does not speak of short documents, `HashExact` of
lines that wrapped, `EveryPairJoined` of crowded buckets or ranks that disagree,
`SimilarityArrives` of the garbled block, `RequestsEnd` of what follows an opened log
file, `ResultsComplete` of other orders and of answers that do not fit, `ResultsPaired` of a
server that calculates for a client that has gone, `RunsEnd` of the client that reads a
second time. There the code does go wrong; the properties bound the harm and show that
nothing else does. `StoresAgree` and `NothingLost` are claimed of one
request at a time: two uploads at once may lose a candidate in a race, and no passing
run says otherwise.

### Bounds, and why they are enough

* *Two threads.* Every interference is between one thread and one other: a push
  and a push, an upload and a calculation, two calculations. The theorems hold
  for any number.
* *Documents and buckets.* A pair needs two documents, the loop over the map two
  buckets. A document in two pairs needs three in one bucket, which only the theorems
  have (`ResultsHaveWitnesses`, `FederationHasWitnesses`). A document is sent at most once, which bounds
  uploads; `MaxBlock` bounds the lines of one block, `MaxMissing` those it announces
  beyond them: one is enough to end the loop or to make a block too long.
* `MaxLost` bounds broken connections and killed clients: one lets a thread go on beside
  the next run of its client.
* `MaxKeys` bounds `HELLO`: one key and its replacement are all that a stored
  candidate can tell apart. `FedServerOpen` and `FedServerSerial` have one key per
  client; replacement is in `FedServerTerminates`, `Federation` and the theorems. `CalculationEnds`
  is checked with one bucket, which uploads make grow while it is passed.
* *Ranks 1 to 4.* A tree with two levels, both sides of it, and a size that is no
  power of two. Files are dealt out unevenly, and with four ranks one has none.
  The documents form a chain that no rank sees more than two links
  of, and that closes in a cycle: when one rank sees all of it, the last link joins
  two documents that are already below one root.
* `MaxCandidates`, `GpuMin`, `MaxBucket`, `EdgeLimit` are the code's constants; runs
  that are about a limit set it low. `FedServerSerial` has `MaxCandidates = 2`,
  `MaxBlock = 2` and `MaxMissing = 1`, so that blocks of two lines are stored, and one that
  announces three is refused whole (`BlockRefused`).
* `LocalDedup` enumerates all 2^10 relations of five candidates.
* *Kernels.* Blocks of 2 x 2 threads and signatures of two tiles have everything a
  block of 32 x 32 has: threads that load for others, a second tile, blocks on,
  above and below the diagonal, and blocks cut off. Five parts in warps of two make
  three rounds, an incomplete warp and words that cross rows.
* *Signatures.* `WordMod`, `CharMod`, `Q`, `P0` are 2^32, 256, 4294967 and 257 scaled down so that,
  as in the code, q times p plus a char fits into a word and p times q plus a
  negative char does not always. With the code's constants nothing wraps for ASCII
  while p is at most 873, that is for up to 617 hash functions; it uses 128.
  `BlockWords` is two instead of four.
* *Administration.* `MaxRequests`, `MaxChanges` and `MaxUpdates` bound the calls: three requests
  let two threads log around two changes of the file, two updates let a client be
  registered and revoked, or revoked and registered again.

Threads of one instance are interchangeable; `FedServerSerial`, which has no
liveness property, uses this as symmetry.

`CHECK_DEADLOCK FALSE` is set where the system really stops (all the runs ended,
all ranks finished, loading done). The server alone never stops and is checked for
deadlock.

### Fairness

* `FairSpec` of `FedServer`: weak fairness of each thread's handler. A thread that
  has a request runs without blocking (there are no locks), so the operating
  system's scheduling is enough. No client is assumed to send or to read anything.
* `FairFederationSpec`: some process that can go on does (`GoesOn`: a client's run, the
  thread that serves it, a sleep). That is weaker than fairness for each, and
  enough, because runs are finite. Starting a client, killing it, breaking a connection,
  killing and restarting the server are not fair. The end of a closed connection is noticed because `read`
  returns.
* `FairSpec` of `DataPreprocessor`: each thread that can step does. A worker that
  polls an empty queue takes no step, so nothing is assumed about its luck.
* `FairSpec` of `FedMpi`: some rank that can step does, but a send need only return
  when its message has been received, as MPI may not buffer. Reading a hash file is
  never fair to fail.
* `FairSpec` of `BucketPairs`: the threads of the block that runs are scheduled, as the
  GPU does for a block that is resident.
* `FairSpec` of `Administration`: some thread that can go on does, and `set_log_file`
  goes on. Nothing is assumed of who gets the mutex, and the operator need not
  call anything; the calls that change the log file are finitely many.
* `LocalDedup` and `Signatures` are sequential; no liveness is claimed of them.

## Proofs

A theorem holds for every value of the constants under the named assumptions of the
module it is about. These say what the code or its command line guarantees:

* `ConstantsAssumption`, `PreprocessorAssumption`, `AdministrationAssumption`,
  `MaxDocsAssumption`, `PairsAssumption`: the constants are numbers and finite sets.
* `FederationAssumption`: the clients' names, and lists of documents without
  repetition. `RoomAssumption` only keeps `MaxKeys` and `MaxBlock`, which bound the
  environment, from being smaller than what a client sends.
* `MpiAssumption`: the files of a setup exist and hold fewer than `MAX_LINE` lines, and
  none is empty: for an empty file `lsh_cuda` starts kernels without blocks, an
  error at which `gpuAssert` ends the rank. The attempt to prove `AllOrNothing` found
  this; without it the file would have no rows and the model would go on.
* `TileAssumption`: a tile is not empty, and signatures have `NumHash` values.
* `SignaturesAssumption`: a multiplier times a hash value, plus the char that enters and a
  positive char that leaves times `r`, fits a word. The attempt to prove `HashExact` found
  it: the comment in `init_lsh_cuda` ("4294967*1000 < 2^32-1") gives the modulus room for
  a factor of 1000, which the multiplier and the char that leaves the window have to share.
  It holds of 4294967 and 257 + h for up to 617 hash functions; `NUM_HASH` is 128, and so
  is the client's default.
* `InputsAssumption`: lines and texts are sequences of chars, and the buffer goes on
  after a line far enough for one window. `CipherAssumption`: `Dec` inverts `Enc` with the
  same key, exclusive or with the same word twice changes nothing, and a signature is at
  least one AES block long (128 words against 4).

`FedServerProofs`:

* `TypeCorrect`: `Spec => []TypeOK`. `TypeOK` is inductive because it says
  of a thread at point `bucket` that its block is not empty, and of `dups` that
  its indices are in `sigs`.
* `Destroyed`: `Spec => []SeenThenDestroyed`, under any interleaving. The property
  speaks of times when no calculation runs, so the invariant must say what holds
  while one does. `Fresh` says a document is new, then in the block of at most
  one thread, then stored, once; `Destroying` says which documents a container may
  hold at each program point of a calculation, using that no seen document can come
  back.
* `SerialLosesNothing`: `SerialSpec => []NothingLost`. `Passing` relates the
  cursor to the buckets: all documents of the buckets before it are seen, and with
  one writer at a time (`OneWriter`) no bucket grows behind it.
* `ResultsHaveWitnesses`: `OneCalculatorSpec => []NoLoneResult`. `Sorted`, `Paired`
  and `HalfRecorded` say that pairs left to handle are pairs across clients within a
  bucket, and that between the two pushes of a pair the second is still to come. No run
  checks this property by itself; `ResultsPaired` is made of it.
* `StrangersStayOut`: `Spec => []StrangersKeptOut`, under any interleaving and for blocks
  of any lines of any clients.
  `KnownInside` follows a line from the lookup of its client through the two pushes
  to the copies a calculation works on, and so to the lists of results.
* `SerialStoresAgree`: `SerialSpec => []StoresAgree`. The vector and the buckets are
  changed in two steps, so `Agreeing` says how they differ between the two pushes of
  a line and between the two clears of a calculation.

`FederationProofs`, about any number of clients and runs, with broken connections, killed
clients whose threads go on, kills and restarts of the server:

* `ClientsServed`: `FederationSpec => Spec`, the refinement. Each client by itself, whatever
  breaks, makes the server do only what the open specification allows (no key is asked
  for beyond the bound, no document sent twice, none under a key its client was not
  given), so that what is proved of it holds of the whole. `ClientInv` says
  where a client can be with its key and its block, `ThreadInv` where the thread of a run
  can be when its client is there, elsewhere or gone.
* `FederationHasWitnesses`: `FederationSpec => []ResultsPaired`. The invariant is
  `cut_off \/ LoneInv`: until this server process has gone on calculating for a `client2` that
  had gone, only the connected thread of `client2` calculates, so that each step is one
  of `OneCalculatorSpec`. Without the first disjunct the property fails.
* `FederationTypes`: the type invariant.
* `Saved`: `FederationSpec => []SavedHaveWitness`, with two calculations at once too. What a
  client saves belongs to this run and has a partner elsewhere: `Met` carries a document
  from the server's lists through the answer to the file.
* `Complete`: `ResultsComplete` for two clients (`TwoClients`): in the order of the manual,
  what is saved misses nothing. `OrderInv` says what the server holds at each point of
  that order, and that no thread is at work for a client that has gone (`Attended`). With
  three clients it is false: two uploads race and a line of one may be lost, which the
  theorem's hypothesis excludes.

`TextProofs`, of `DataPreprocessor`:

* `TypeCorrect`, `NothingLeft`, `EachLineOnce`: `TypeOK`, `LeavesNothing` and
  `EveryLineOnce` for any files and workers. `Feeding` ties the flag to the
  loader and the queue. `Conveyed` says that every line pushed so far is in
  exactly one place: the queue, one worker's hand, one worker's results or the
  document list, or was too short.
* `LoadsLikeSequential`: `Spec => LoadsLikeOne`, the refinement: `Collect` is a
  `Load`, all else a stutter. `Genuine` says that no collected line is a sample.

`TextProofs`, of `Signatures` (the two modules share no constant and no variable, so that
the assumptions of one put nothing on the other):

* `RollingIsExact`: `SignSpec => []HashExact`, for lines of any length, windows of any length and
  any parameters. `InFirst` says that the sum is the polynomial of the letters read so far,
  reduced modulo `Q`; `InRoll` that it is that of the window, and `res` the least so far. The
  step of `Roll` is `RollExact`: dropping the first letter of a window takes it times
  p^Shingle away (`PolyRoll`), and `R` is a multiple of `Q` less that power
  (`RFacts`, which follows the loop that starts at `Q - 1`). A signed char in unsigned arithmetic
  is off by a multiple of `WordMod`, which is gone after the reduction exactly when the
  intermediate result is in range (`WordExact`); if it is not, a char was negative
  (`FitsFirst`, `FitsRolling`).
* `SimilarityIsDelivered`: `SignSpec => []SimilarityArrives`, for any number of texts of any length,
  any parameters and any cipher. A text stands at its offset whatever else is in the
  batch (`TextIsThere`), so that its hash values are those of its own shingles
  (`MinHashIsTrue`); the loop with unsigned arithmetic computes the polynomial modulo `Q`
  (`HornerIsPoly`). In the chain of blocks every block but the first comes out as it went in
  (`ChainUndone`); as a signature is at least a block long, its padding lies behind the
  first block and is well formed (`OpenedFacts`, `SignatureArrives`), so that nothing throws and
  the signature has its length. Two counts of equal words that differ within one
  block differ by no more than its words (`AgreementArrives`). `BatchInv` holds this
  together: signatures are of the texts alone, buckets and ciphers of the signatures.

`AdministrationProofs`:

* `RegistrationIsKept`: `Spec => []RegistrationLasts`. `FirstKeys` relates the table
  to the history (an entry has its client's first key and is active only while nobody
  has revoked it); `DefaultsServed` says that no thread serves before the default
  clients are in the table, from which nothing removes them.
* `LogIsComplete`: `Spec => []LogAccounts`, no entry is lost or doubled. `Guarded` says
  that a thread about to write holds the mutex and found the stream open, and that
  `set_log_file` keeps the mutex until it has failed.

`ForestProofs` has the lemmas about the disjoint sets that the next two share: the root
a recursive function computes is reached by following parents, joining two roots keeps the
forest free of cycles and links exactly the two trees, compression changes no root.

`LocalDedupProofs`, for any number of candidates and any relation:

* `TypeCorrect`, `ExactComponents` (`ComponentsExact`: the trees are the chains of similar
  documents compared so far), `Logarithmic` (`ShallowTrees`: a root of rank r has 2^r
  documents below it, and depth is at most rank), `FirstKept` (`FirstOfEachKept`).

`FedMpiProofs`, for any setups, ranks, files and bands, nine theorems from one invariant:

* `TypeCorrect`; `PlacedRight` (`GatheredRight`): every rank has every file's rows at its
  place; `MergesAlike` (`JoinedAlike`): joined documents are chained by alike ones;
  `NeverInPart` (`AllOrNothing`); `NoCycle` (`Forests`); `TreeIsExact` (`MergedExactly`): after the
  tree rank 0 has exactly the links of all; `OneKept` (`OneOfEachKept`); `NoPairMissed`
  (`EveryPairJoined`); `AbortsUnshared` (`AbortSharesNothing`).
* The invariant has a part per phase: which stages the ranks can be in at the same
  time, what is on disk while they hash, which bands are merged, and for the tree the
  span of ranks whose links a rank holds (`Whole` says that it holds them all), which is
  what makes it right for numbers of ranks that are no power of two.

`BucketPairsProofs`, for any number of documents, blocks and tiles of any size, any number of
parts and of threads in a warp:

* `LshMatrixIsExact` (`MatrixExact`) and `WholeBlocksAreExact` (`WholeBlocksExact`), in any order of
  threads. `Rounds` says that the threads of a block are between the same two barriers,
  `Loaded` which cells of the tiles hold signatures and not garbage, `Counted` that a counter is the
  number of agreeing values below the tile, `AllJudged` that what a block has written is right.
* `ListIsExact` (`ListExact`), in any order of warps and blocks, and `TypeCorrect`. `Scanning` says which
  stretch of parts each partial sum covers: in a round of stride k, the last k parts before
  its warp has written and the last 2k after. A warp that was overtaken reads the longer
  stretch, so that a sum may be too high, never too low. `Filled` says where the third reduction puts a
  cell: at its rank in the order by part, lane and, backwards, cell (`Order`), which the prefix
  sums count. Ranks are a bijection, so no entry is missing and none is written twice.

What recursive functions compute (roots, depths, powers of two, the scan of a block, the
polynomials, offsets and chains of `Signatures`) is proved without induction over data, by a
least counterexample: a function that satisfies the recursion is built from its finite runs
(`Recursion`, `OneRun` in `ForestProofs`, `Induct` in `TextProofs`).

Every safety invariant and action property that a passing run checks is the subject of a
theorem, and so is the refinement of `Loading`. Only model-checked is every liveness property:
`CalculationEnds`, `RunsEnd`, `AllFilesLoaded`, `AllFinish`, `ComparisonEnds`, `RequestsEnd`. Fairness
and `ENABLED` are beyond the prover.

## Not modelled, and why

* TLS (`tls_connection.cpp`, `tls_connection_new.cpp`): neither class is constructed
  anywhere, and their state is a session inside OpenSSL.
* The block cipher itself and random numbers: OpenSSL's. `Enc` and `Dec` are any
  inverse pair, ids are fresh.
* JSON parsing, Unicode normalisation, the formatting of log lines: no state
  that the properties tell apart. What they do to control (a line too short, an
  exception) is in the models.
* `load_documents_from_jsonl` and the document buffer of the preprocessor,
  `calculate_similarity` of the server, `compute_signature` for one text: no caller.
  `distribute_results`, which `GET_RESULTS` calls, only prints. The branch for `CANDIDATES_DATA` in
  `handle_client_request`: unreachable, and without effect.
* Behaviour that C++ does not define and that no outcome can be listed for: an input
  file that cannot be read, or a directory among them (`readFile` returns without
  setting its results), a file of `MAX_LINE` lines or more (`MpiAssumption` excludes it).
* Two input files with the same stem, whose hash files have one name; a GPU that
  cannot be asked for its memory.

## Plan

Done: the server, its composition with the clients, the preprocessor, the local
deduplication, the whole MPI program, the comparison kernels and reductions, the
signatures and their encryption, administration; theorems for every safety property
of the runs. What is left is liveness, which stays with TLC.
