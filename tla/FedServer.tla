----------------------------- MODULE FedServer -----------------------------
(***************************************************************************)
(* The federation server (src/fed/server.cpp).  FedServer::start() gives   *)
(* every connection a detached thread, and the threads share `candidates', *)
(* `bucket_candidates', `duplicate_docs' and `client_keys' without a lock. *)
(* A thread takes one request, runs handle_client_request on it in several *)
(* steps (each touches at most one shared container), and sends one reply. *)
(*                                                                         *)
(* The environment is open: any thread may be handed any request that a    *)
(* client can send.  The specifications at the end restrict it.            *)
(***************************************************************************)
EXTENDS Integers, Sequences, FiniteSets

CONSTANTS
  Threads,        \* connection threads that can be alive at once
  Clients,        \* client ids that occur in requests
  Registered,     \* the ids FedServer::init registers (client1, client2)
  Docs,           \* candidates; a random id names one candidate of one run
  Owner,          \* [Docs -> Clients]: the client_id on the candidate's line
  BucketOf,       \* [Docs -> Nat]: the bucket_id on the candidate's line
  MaxCandidates,  \* lines accepted in one block (100000 in the code)
  GpuMin,         \* bucket size from which signatures are decrypted on the GPU
  HasGpu,         \* whether the server has a CUDA device
  NoClient,       \* no client: what `who' holds outside a request
  MaxBlock,       \* bound: lines in a block of the environment
  MaxMissing,     \* bound: lines a block announces beyond those that can be stored
  MaxKeys         \* bound: HELLO requests per client

ASSUME ConstantsAssumption ==
  /\ Registered \subseteq Clients
  /\ NoClient \notin Clients
  /\ Owner \in [Docs -> Clients]
  /\ BucketOf \in [Docs -> Nat]
  /\ MaxCandidates \in Nat /\ GpuMin \in Nat
  /\ MaxBlock \in Nat /\ MaxMissing \in Nat /\ MaxKeys \in Nat
  /\ HasGpu \in BOOLEAN

VARIABLES
  up,                 \* "up", "terminated" (uncaught exception) or "killed"
  client_keys,        \* [Clients -> Nat]: generation of the key, 0 when absent
  candidates,         \* the documents in the vector (only its emptiness is read)
  bucket_candidates,  \* [Buckets -> Seq(Candidate)]
  duplicate_docs,     \* [Clients -> Seq(Docs)]
  pc,                 \* where each thread is in its handler
  who,                \* the client id in the request of the thread
  lines,              \* candidate lines of the block still to be stored
  missing,            \* lines the block announces beyond those
  cursor,             \* the bucket iterator of perform_global_similarity
  sigs,               \* the local copy of a bucket: signatures, doc_ids, client_ids
  dups,               \* index pairs of the kernel's verdict still to be handled
  reply,              \* the reply the thread has written, until the client has it
  issued,             \* environment: keys generated for a client so far
  sent,               \* environment: documents that have been put in a block
  taken,              \* history: documents whose line the server has stored
  seen                \* history: documents a calculation has passed in their bucket

shared == <<up, client_keys, candidates, bucket_candidates, duplicate_docs>>
locals == <<pc, who, lines, missing, cursor, sigs, dups, reply>>
ghosts == <<issued, sent, taken, seen>>
vars   == <<shared, locals, ghosts>>

Buckets == {BucketOf[d] : d \in Docs}

(* A parsed line: the document and the generation of the key that encrypted *)
(* its signature.  Owner and BucketOf carry the line's other fields.        *)
Candidate == [doc : Docs, key : Nat]

(* A reply holds a key (PARAMS ... KEY) or document ids (RESULTS), or none. *)
Reply(k) == [kind |-> k, ids |-> <<>>, key |-> 0]
NoReply == Reply("none")
ReplyKinds == {"none", "UNAUTHORIZED", "PARAMS", "READY", "TOO_MANY_CANDIDATES",
               "CANDIDATES_RECEIVED", "NO_CANDIDATES", "CALCULATION_DONE",
               "RESULTS", "UNKNOWN_COMMAND"}

Storing     == {"store", "bucket"}
Calculating == {"scan", "pairs", "partner", "clear", "clear_buckets"}
Points      == {"idle", "header", "hello", "block", "calculate", "get", "replied"}
                 \cup Storing \cup Calculating

DocsOf(cands) == {cands[i].doc : i \in DOMAIN cands}
Recorded(c)   == {duplicate_docs[c][i] : i \in DOMAIN duplicate_docs[c]}

-----------------------------------------------------------------------------
(* The process starts with empty containers.                                *)

Each(S, v) == [s \in S |-> v]

Init ==
  /\ up = "up"
  /\ client_keys = Each(Clients, 0)
  /\ candidates = {}
  /\ bucket_candidates = Each(Buckets, <<>>)
  /\ duplicate_docs = Each(Clients, <<>>)
  /\ pc = Each(Threads, "idle") /\ who = Each(Threads, NoClient)
  /\ lines = Each(Threads, <<>>) /\ missing = Each(Threads, 0)
  /\ cursor = Each(Threads, 0)
  /\ sigs = Each(Threads, <<>>) /\ dups = Each(Threads, {})
  /\ reply = Each(Threads, NoReply)
  /\ issued = Each(Clients, 0)
  /\ sent = {} /\ taken = {} /\ seen = {}

(* The process ends, taking all of its memory with it: by a signal, by a    *)
(* corrupted container after a data race, or by std::terminate.             *)
End(how) ==
  /\ up' = how
  /\ client_keys' = Each(Clients, 0)
  /\ candidates' = {}
  /\ bucket_candidates' = Each(Buckets, <<>>)
  /\ duplicate_docs' = Each(Clients, <<>>)
  /\ pc' = Each(Threads, "idle") /\ who' = Each(Threads, NoClient)
  /\ lines' = Each(Threads, <<>>) /\ missing' = Each(Threads, 0)
  /\ cursor' = Each(Threads, 0)
  /\ sigs' = Each(Threads, <<>>) /\ dups' = Each(Threads, {})
  /\ reply' = Each(Threads, NoReply)
  /\ taken' = {} /\ seen' = {}
  /\ UNCHANGED <<issued, sent>>

Kill == up = "up" /\ End("killed")

Restart ==
  /\ up # "up"
  /\ up' = "up"
  /\ UNCHANGED <<client_keys, candidates, bucket_candidates, duplicate_docs, locals, ghosts>>

-----------------------------------------------------------------------------
(* Requests: a thread that waits in read() gets the next one.  A block of   *)
(* candidates is only read as one after a CANDIDATES_DATA line, which the   *)
(* thread has answered with READY_FOR_DATA ("header": waiting_for_data).    *)

Take(t, point, c, block, more) ==
  /\ up = "up"
  /\ pc[t] = IF point = "block" THEN "header" ELSE "idle"
  /\ pc'    = [pc EXCEPT ![t] = point]
  /\ who'   = [who EXCEPT ![t] = c]
  /\ lines' = [lines EXCEPT ![t] = block]
  /\ missing' = [missing EXCEPT ![t] = more]
  /\ UNCHANGED <<shared, cursor, sigs, dups, reply, issued, taken, seen>>

Answer(t, r) ==
  /\ pc'    = [pc EXCEPT ![t] = "replied"]
  /\ reply' = [reply EXCEPT ![t] = r]

TakeHello(t) ==
  \E c \in Clients :
    /\ issued[c] < MaxKeys
    /\ Take(t, "hello", c, <<>>, 0)
    /\ UNCHANGED sent

(* The request of a block names no client: each line has a client id of its *)
(* own, and lines of any clients, registered or not, may come together.     *)
(* (The clients of the repository send their own candidates, in the order   *)
(* in which their encryption threads append them.)  A line's signature is   *)
(* encrypted under a key that the line's client was given.  A block may     *)
(* announce more lines than it has, or than can be parsed.                  *)
KeysHeld(c) == IF c \in Registered THEN 1..issued[c] ELSE {0}

TakeBlock(t) ==
  \E n \in 0..MaxBlock, more \in 0..MaxMissing :
    \E ds \in [1..n -> Docs \ sent], ks \in [1..n -> 0..MaxKeys] :
      /\ \A i, j \in 1..n : ds[i] = ds[j] => i = j
      /\ \A i \in 1..n : ks[i] \in KeysHeld(Owner[ds[i]])
      /\ Take(t, "block", NoClient, [i \in 1..n |-> [doc |-> ds[i], key |-> ks[i]]], more)
      /\ sent' = sent \cup {ds[i] : i \in 1..n}

TakeCalculate(t) == Take(t, "calculate", NoClient, <<>>, 0) /\ UNCHANGED sent

TakeGetResults(t) ==
  \E c \in Clients : Take(t, "get", c, <<>>, 0) /\ UNCHANGED sent

(* CANDIDATES only answers whether a block may follow; the server does not  *)
(* remember the answer.                                                     *)
AnswerCandidates(t, c) ==
  /\ up = "up"
  /\ pc[t] = "idle"
  /\ Answer(t, Reply(IF c \in Registered THEN "READY" ELSE "UNAUTHORIZED"))
  /\ UNCHANGED <<shared, who, lines, missing, cursor, sigs, dups, ghosts>>

HandleCandidates(t) == \E c \in Clients : AnswerCandidates(t, c)

HandleDataHeader(t) ==
  /\ up = "up"
  /\ pc[t] = "idle"
  /\ pc' = [pc EXCEPT ![t] = "header"]
  /\ UNCHANGED <<shared, who, lines, missing, cursor, sigs, dups, reply, ghosts>>

(* The connection is closed before the data: nothing is left to process.    *)
HangUp(t) ==
  /\ pc[t] = "header"
  /\ pc' = [pc EXCEPT ![t] = "idle"]
  /\ UNCHANGED <<shared, who, lines, missing, cursor, sigs, dups, reply, ghosts>>

HandleUnknown(t) ==
  /\ up = "up"
  /\ pc[t] = "idle"
  /\ Answer(t, Reply("UNKNOWN_COMMAND"))
  /\ UNCHANGED <<shared, who, lines, missing, cursor, sigs, dups, ghosts>>

(* The client has read the reply; the thread reads the next request.        *)
Finish(t) ==
  /\ pc[t] = "replied"
  /\ pc'    = [pc EXCEPT ![t] = "idle"]
  /\ reply' = [reply EXCEPT ![t] = NoReply]
  /\ who'   = [who EXCEPT ![t] = NoClient]
  /\ UNCHANGED <<shared, lines, missing, cursor, sigs, dups, ghosts>>

-----------------------------------------------------------------------------
(* HELLO: a registered client gets a new key, which replaces the one it had *)
(* even when candidates encrypted under that one are stored.                *)

Hello(t) ==
  LET c == who[t] IN
  /\ pc[t] = "hello"
  /\ IF c \in Registered
       THEN /\ issued' = [issued EXCEPT ![c] = @ + 1]
            /\ client_keys' = [client_keys EXCEPT ![c] = issued[c] + 1]
            /\ Answer(t, [Reply("PARAMS") EXCEPT !.key = issued[c] + 1])
       ELSE /\ Answer(t, Reply("UNAUTHORIZED"))
            /\ UNCHANGED <<issued, client_keys>>
  /\ UNCHANGED <<up, candidates, bucket_candidates, duplicate_docs, who,
                 lines, missing, cursor, sigs, dups, sent, taken, seen>>

-----------------------------------------------------------------------------
(* A block of candidates.  Two threads that push into one vector at the     *)
(* same time race: both can write one slot, so a push may be lost.  (That   *)
(* the process dies of a race, in a vector or in a map, is a Kill step.)    *)

Others(t) == Threads \ {t}

PushesCandidate(t) ==
  pc[t] = "store" /\ lines[t] # <<>> /\ Owner[Head(lines[t]).doc] \in Registered
PushesInBucket(t, b) == pc[t] = "bucket" /\ BucketOf[Head(lines[t]).doc] = b

Announced(t) == Len(lines[t]) + missing[t]

(* The block is refused as a whole when it announces too many lines.        *)
BlockRefused(t) ==
  /\ pc[t] = "block"
  /\ Announced(t) > MaxCandidates
  /\ Answer(t, Reply("TOO_MANY_CANDIDATES"))
  /\ lines' = [lines EXCEPT ![t] = <<>>]
  /\ missing' = [missing EXCEPT ![t] = 0]
  /\ UNCHANGED <<shared, who, cursor, sigs, dups, ghosts>>

BlockAccepted(t) ==
  /\ pc[t] = "block"
  /\ Announced(t) <= MaxCandidates
  /\ pc' = [pc EXCEPT ![t] = "store"]
  /\ UNCHANGED <<shared, who, lines, missing, cursor, sigs, dups, reply, ghosts>>

(* A line of a client that is not registered is skipped.                    *)
SkipLine(t) ==
  /\ pc[t] = "store"
  /\ lines[t] # <<>>
  /\ Owner[Head(lines[t]).doc] \notin Registered
  /\ lines' = [lines EXCEPT ![t] = Tail(@)]
  /\ UNCHANGED <<shared, pc, who, missing, cursor, sigs, dups, reply, ghosts>>

(* Mutant: the line is taken off the block before it is in its bucket.      *)
StoreCandidateTakesLine(t) ==
  /\ pc[t] = "store"
  /\ lines[t] # <<>>
  /\ Owner[Head(lines[t]).doc] \in Registered
  /\ candidates' = candidates \cup {Head(lines[t]).doc}
  /\ lines' = [lines EXCEPT ![t] = Tail(@)]
  /\ pc' = [pc EXCEPT ![t] = "bucket"]
  /\ UNCHANGED <<up, client_keys, bucket_candidates, duplicate_docs,
                 who, missing, cursor, sigs, dups, reply, ghosts>>

(* Mutant: the client of a line is not looked up.                           *)
StoreAnyCandidate(t) ==
  /\ pc[t] = "store"
  /\ lines[t] # <<>>
  /\ candidates' = candidates \cup {Head(lines[t]).doc}
  /\ pc' = [pc EXCEPT ![t] = "bucket"]
  /\ UNCHANGED <<up, client_keys, bucket_candidates, duplicate_docs,
                 who, lines, missing, cursor, sigs, dups, reply, ghosts>>

(* candidates.push_back(candidate)                                          *)
StoreCandidate(t) ==
  /\ pc[t] = "store"
  /\ lines[t] # <<>>
  /\ LET d == Head(lines[t]).doc IN
       /\ Owner[d] \in Registered
       /\ \/ candidates' = candidates \cup {d}
          \/ (\E u \in Others(t) : PushesCandidate(u)) /\ UNCHANGED candidates
  /\ pc' = [pc EXCEPT ![t] = "bucket"]
  /\ UNCHANGED <<up, client_keys, bucket_candidates, duplicate_docs,
                 who, lines, missing, cursor, sigs, dups, reply, ghosts>>

(* bucket_candidates[bucket_id].push_back(candidate)                        *)
StoreInBucket(t) ==
  /\ pc[t] = "bucket"
  /\ LET x == Head(lines[t]) IN
       \/ bucket_candidates' =
            [bucket_candidates EXCEPT ![BucketOf[x.doc]] = Append(@, x)]
       \/ (\E u \in Others(t) : PushesInBucket(u, BucketOf[x.doc])) /\ UNCHANGED bucket_candidates
  /\ lines' = [lines EXCEPT ![t] = Tail(@)]
  /\ pc'    = [pc EXCEPT ![t] = "store"]
  /\ taken' = taken \cup {Head(lines[t]).doc}
  /\ UNCHANGED <<up, client_keys, candidates, duplicate_docs,
                 who, missing, cursor, sigs, dups, reply, issued, sent, seen>>

(* The lines are used up, or the next one cannot be parsed and the loop is  *)
(* left: what was stored stays, and the answer is the same.                 *)
BlockStored(t) ==
  /\ pc[t] = "store"
  /\ lines[t] = <<>>
  /\ Answer(t, Reply("CANDIDATES_RECEIVED"))
  /\ missing' = [missing EXCEPT ![t] = 0]
  /\ UNCHANGED <<shared, who, lines, cursor, sigs, dups, ghosts>>

(* The next line is one of a registered client whose signature is not in    *)
(* hexadecimal digits: stoul throws, in a thread that catches nothing.      *)
LineThrows(t) ==
  /\ pc[t] = "store"
  /\ lines[t] = <<>> /\ missing[t] > 0
  /\ End("terminated")

-----------------------------------------------------------------------------
(* CALCULATE: perform_global_similarity.                                    *)

CalculateRefused(t) ==
  /\ pc[t] = "calculate"
  /\ candidates = {}
  /\ Answer(t, Reply("NO_CANDIDATES"))
  /\ UNCHANGED <<shared, who, lines, missing, cursor, sigs, dups, ghosts>>

CalculateStarts(t) ==
  /\ pc[t] = "calculate"
  /\ candidates # {}
  /\ pc'     = [pc EXCEPT ![t] = "scan"]
  /\ cursor' = [cursor EXCEPT ![t] = 0]
  /\ UNCHANGED <<shared, who, lines, missing, sigs, dups, reply, ghosts>>

(* What decryption makes of a candidate: nothing when the server has no key *)
(* of its owner; with another key than the one that encrypted it, AES       *)
(* throws at the padding, or yields a signature of the right length.  The   *)
(* GPU path never throws.                                                   *)
KeyMissing(x) == client_keys[Owner[x.doc]] = 0
KeyChanged(x) == ~KeyMissing(x) /\ client_keys[Owner[x.doc]] # x.key
OnGpu(list)   == HasGpu /\ Len(list) >= GpuMin
Valid(list)   == {i \in DOMAIN list : ~KeyMissing(list[i])}

(* The map iterator reaches bucket b next.                                  *)
NextBucket(t, b) ==
  /\ b \in Buckets
  /\ cursor[t] <= b
  /\ bucket_candidates[b] # <<>>
  /\ \A a \in Buckets : cursor[t] <= a /\ bucket_candidates[a] # <<>> => b <= a

(* The kernel's verdict.  Threads of similarity_compare_kernel return above *)
(* the tile loads when doc_i >= doc_j, so the others compare shared memory  *)
(* nobody wrote: any set of pairs can come out.  Without a device cudaMalloc*)
(* fails unnoticed and the matrix stays zero: no pair comes out.  Pairs of  *)
(* one client are dropped by the loop over the verdict.                     *)
CrossPairs(list) ==
  {p \in Valid(list) \X Valid(list) :
     p[1] < p[2] /\ Owner[list[p[1]].doc] # Owner[list[p[2]].doc]}
Verdicts(list) == IF HasGpu THEN SUBSET CrossPairs(list) ELSE {{}}

(* One bucket: decryption and comparison.  A bucket with fewer than two     *)
(* candidates, or with fewer than two signatures decrypted, is passed over. *)
ScanBucket(t) ==
  /\ pc[t] = "scan"
  /\ \E b \in Buckets :
       LET list == bucket_candidates[b] IN
       /\ NextBucket(t, b)
       /\ cursor' = [cursor EXCEPT ![t] = b + 1]
       /\ seen'   = seen \cup DocsOf(list)
       /\ IF Len(list) < 2 \/ Cardinality(Valid(list)) < 2
            THEN UNCHANGED <<pc, sigs, dups>>
            ELSE \E v \in Verdicts(list) :
                   /\ pc'   = [pc EXCEPT ![t] = "pairs"]
                   /\ sigs' = [sigs EXCEPT ![t] = list]
                   /\ dups' = [dups EXCEPT ![t] = v]
  /\ UNCHANGED <<shared, who, lines, missing, reply, issued, sent, taken>>

(* decrypt_signature is called outside the try block: the exception of a    *)
(* changed key leaves the thread's function and terminates the process.     *)
DecryptThrows(t) ==
  /\ pc[t] = "scan"
  /\ \E b \in Buckets :
       LET list == bucket_candidates[b] IN
       /\ NextBucket(t, b)
       /\ Len(list) >= 2 /\ ~OnGpu(list)
       /\ \E i \in DOMAIN list : KeyChanged(list[i])
  /\ End("terminated")

(* The pairs of the verdict, in the order of the result matrix.             *)
FirstPair(t, p) ==
  /\ p \in dups[t]
  /\ \A q \in dups[t] : p[1] < q[1] \/ (p[1] = q[1] /\ p[2] <= q[2])

DocI(t, p) == sigs[t][p[1]].doc
DocJ(t, p) == sigs[t][p[2]].doc

(* The next step of the calculation appends to the results of client c.     *)
PushesResult(t, c) ==
  \E p \in dups[t] :
    /\ FirstPair(t, p)
    /\ \/ pc[t] = "partner" /\ Owner[DocJ(t, p)] = c
       \/ pc[t] = "pairs" /\ Owner[DocI(t, p)] = c /\ DocI(t, p) \notin Recorded(c)

(* The entry for doc i; only doc i is looked up to avoid a repeated entry.  *)
(* (Another calculation between the look-up and the pushes could only make  *)
(* the two entries repeated ones.)                                          *)
RecordPair(t) ==
  /\ pc[t] = "pairs"
  /\ \E p \in dups[t] :
       LET d == DocI(t, p) IN
       /\ FirstPair(t, p)
       /\ IF d \in Recorded(Owner[d])
            THEN /\ dups' = [dups EXCEPT ![t] = @ \ {p}]
                 /\ UNCHANGED <<duplicate_docs, pc>>
            ELSE /\ pc' = [pc EXCEPT ![t] = "partner"]
                 /\ \/ duplicate_docs' =
                         [duplicate_docs EXCEPT ![Owner[d]] = Append(@, d)]
                    \/ (\E u \in Others(t) : PushesResult(u, Owner[d])) /\ UNCHANGED duplicate_docs
                 /\ UNCHANGED dups
  /\ UNCHANGED <<up, client_keys, candidates, bucket_candidates,
                 who, lines, missing, cursor, sigs, reply, ghosts>>

(* Mutant: doc j is listed for the client of doc i.                         *)
RecordPartnerForFirst(t) ==
  /\ pc[t] = "partner"
  /\ \E p \in dups[t] :
       /\ FirstPair(t, p)
       /\ dups' = [dups EXCEPT ![t] = @ \ {p}]
       /\ duplicate_docs' = [duplicate_docs EXCEPT ![Owner[DocI(t, p)]] = Append(@, DocJ(t, p))]
  /\ pc' = [pc EXCEPT ![t] = "pairs"]
  /\ UNCHANGED <<up, client_keys, candidates, bucket_candidates,
                 who, lines, missing, cursor, sigs, reply, ghosts>>

(* The entry for doc j of the same pair.                                    *)
RecordPartner(t) ==
  /\ pc[t] = "partner"
  /\ \E p \in dups[t] :
       LET d == DocJ(t, p) IN
       /\ FirstPair(t, p)
       /\ dups' = [dups EXCEPT ![t] = @ \ {p}]
       /\ \/ duplicate_docs' = [duplicate_docs EXCEPT ![Owner[d]] = Append(@, d)]
          \/ (\E u \in Others(t) : PushesResult(u, Owner[d])) /\ UNCHANGED duplicate_docs
  /\ pc' = [pc EXCEPT ![t] = "pairs"]
  /\ UNCHANGED <<up, client_keys, candidates, bucket_candidates,
                 who, lines, missing, cursor, sigs, reply, ghosts>>

(* Mutant: the loop over the buckets starts again.                          *)
BucketDoneRewinds(t) ==
  /\ pc[t] = "pairs"
  /\ dups[t] = {}
  /\ pc'     = [pc EXCEPT ![t] = "scan"]
  /\ sigs'   = [sigs EXCEPT ![t] = <<>>]
  /\ cursor' = [cursor EXCEPT ![t] = 0]
  /\ UNCHANGED <<shared, who, lines, missing, dups, reply, ghosts>>

(* The bucket is done: its plaintext signatures are destroyed.              *)
BucketDone(t) ==
  /\ pc[t] = "pairs"
  /\ dups[t] = {}
  /\ pc'   = [pc EXCEPT ![t] = "scan"]
  /\ sigs' = [sigs EXCEPT ![t] = <<>>]
  /\ UNCHANGED <<shared, who, lines, missing, cursor, dups, reply, ghosts>>

(* Mutant: the loop ends one bucket early.                                  *)
LastBucketDoneEarly(t) ==
  /\ pc[t] = "scan"
  /\ \A b \in Buckets : cursor[t] < b => bucket_candidates[b] = <<>>
  /\ pc' = [pc EXCEPT ![t] = "clear"]
  /\ cursor' = [cursor EXCEPT ![t] = 0]
  /\ UNCHANGED <<shared, who, lines, missing, sigs, dups, reply, ghosts>>

LastBucketDone(t) ==
  /\ pc[t] = "scan"
  /\ \A b \in Buckets : cursor[t] <= b => bucket_candidates[b] = <<>>
  /\ pc' = [pc EXCEPT ![t] = "clear"]
  /\ cursor' = [cursor EXCEPT ![t] = 0]
  /\ UNCHANGED <<shared, who, lines, missing, sigs, dups, reply, ghosts>>

(* Mutants: one of the two containers is not cleared.                       *)
KeepCandidates(t) ==
  /\ pc[t] = "clear"
  /\ pc' = [pc EXCEPT ![t] = "clear_buckets"]
  /\ UNCHANGED <<shared, who, lines, missing, cursor, sigs, dups, reply, ghosts>>

KeepBuckets(t) ==
  /\ pc[t] = "clear_buckets"
  /\ Answer(t, Reply("CALCULATION_DONE"))
  /\ UNCHANGED <<shared, who, lines, missing, cursor, sigs, dups, ghosts>>

(* candidates.clear()                                                       *)
ClearCandidates(t) ==
  /\ pc[t] = "clear"
  /\ candidates' = {}
  /\ pc' = [pc EXCEPT ![t] = "clear_buckets"]
  /\ UNCHANGED <<up, client_keys, bucket_candidates, duplicate_docs,
                 who, lines, missing, cursor, sigs, dups, reply, ghosts>>

(* bucket_candidates.clear(), then the reply CALCULATION_DONE               *)
ClearBuckets(t) ==
  /\ pc[t] = "clear_buckets"
  /\ bucket_candidates' = Each(Buckets, <<>>)
  /\ Answer(t, Reply("CALCULATION_DONE"))
  /\ UNCHANGED <<up, client_keys, candidates, duplicate_docs,
                 who, lines, missing, cursor, sigs, dups, ghosts>>

-----------------------------------------------------------------------------
(* GET_RESULTS: the whole list of the client; it is never cleared.          *)

GetResults(t) ==
  LET c == who[t] IN
  /\ pc[t] = "get"
  /\ Answer(t, IF c \in Registered
                 THEN [Reply("RESULTS") EXCEPT !.ids = duplicate_docs[c]]
                 ELSE Reply("UNAUTHORIZED"))
  /\ UNCHANGED <<shared, who, lines, missing, cursor, sigs, dups, ghosts>>

-----------------------------------------------------------------------------
Request(t) ==
  \/ TakeHello(t) \/ TakeBlock(t) \/ TakeCalculate(t) \/ TakeGetResults(t)
  \/ HandleCandidates(t) \/ HandleDataHeader(t) \/ HandleUnknown(t) \/ HangUp(t)

Upload(t) ==
  \/ BlockRefused(t) \/ BlockAccepted(t) \/ SkipLine(t)
  \/ StoreCandidate(t) \/ StoreInBucket(t) \/ BlockStored(t) \/ LineThrows(t)

Calculate(t) ==
  \/ CalculateRefused(t) \/ CalculateStarts(t)
  \/ ScanBucket(t) \/ DecryptThrows(t)
  \/ RecordPair(t) \/ RecordPartner(t) \/ BucketDone(t) \/ LastBucketDone(t)
  \/ ClearCandidates(t) \/ ClearBuckets(t)

(* The steps a thread takes on its own once it has a request.               *)
Handler(t) == Hello(t) \/ Upload(t) \/ Calculate(t) \/ GetResults(t)

Next ==
  \/ Kill \/ Restart
  \/ \E t \in Threads : Request(t) \/ Handler(t) \/ Finish(t)

Spec == Init /\ [][Next]_vars

-----------------------------------------------------------------------------
(* Operation that restricts the environment.  Only client2 sends CALCULATE, *)
(* and waits for the answer: one calculation at a time, unless client2 is   *)
(* cut off from a calculation and run again while the server is still at it *)
(* (module Federation).  Operated by hand, one client after the other, the  *)
(* server has one request at a time.                                        *)

Busy(t) == pc[t] \notin {"idle", "header", "replied"}

OneCalculator == \A t, u \in Threads :
  pc[t] \in Calculating \cup {"calculate"} /\ pc[u] \in Calculating \cup {"calculate"}
    => t = u
OneRequest == \A t, u \in Threads : Busy(t) /\ Busy(u) => t = u

OneCalculatorSpec == Init /\ [][Next /\ OneCalculator']_vars

(* Only a new request can be one too many.                                  *)
SerialNext ==
  \/ Kill \/ Restart
  \/ \E t \in Threads : (Request(t) /\ OneRequest') \/ Handler(t) \/ Finish(t)
SerialSpec == Init /\ [][SerialNext]_vars

(* A thread that has a request is scheduled; a client reads its reply.      *)
FairSpec == Spec /\ \A t \in Threads : WF_vars(Handler(t))

-----------------------------------------------------------------------------
(* Properties                                                               *)

Stored == UNION {DocsOf(bucket_candidates[b]) : b \in Buckets}

(* The type invariant of the server's containers and of its threads.        *)
TypeOK ==
  /\ up \in {"up", "terminated", "killed"}
  /\ client_keys \in [Clients -> Nat]
  /\ candidates \subseteq Docs
  /\ bucket_candidates \in [Buckets -> Seq(Candidate)]
  /\ duplicate_docs \in [Clients -> Seq(Docs)]
  /\ pc \in [Threads -> Points]
  /\ who \in [Threads -> Clients \cup {NoClient}]
  /\ lines \in [Threads -> Seq(Candidate)]
  /\ missing \in [Threads -> Nat]
  /\ \A t \in Threads : pc[t] = "bucket" => lines[t] # <<>>
  /\ cursor \in [Threads -> Nat]
  /\ sigs \in [Threads -> Seq(Candidate)]
  /\ \A t \in Threads : dups[t] \subseteq (DOMAIN sigs[t]) \X (DOMAIN sigs[t])
  /\ dups \in [Threads -> SUBSET (Nat \X Nat)]
  /\ reply \in [Threads -> [kind : ReplyKinds, ids : Seq(Docs), key : Nat]]
  /\ issued \in [Clients -> Nat]
  /\ sent \subseteq Docs /\ taken \subseteq Docs /\ seen \subseteq Docs

(* Destruction: once no calculation runs, no candidate that a calculation   *)
(* went over is held in either container ("all candidate data cleared").    *)
(* Uploads, other calculations and key changes may interleave freely.       *)
SeenThenDestroyed ==
  (\A t \in Threads : pc[t] \notin Calculating) =>
    seen \cap (candidates \cup Stored) = {}

(* Every recorded duplicate is under its own client and has a witness: a    *)
(* document of another client in the same bucket that is recorded too, or   *)
(* that the calculation is about to record.  RecordPair and RecordPartner   *)
(* are two steps, with requests of other threads in between.                *)
Witness(d, e) ==
  /\ Owner[e] # Owner[d]
  /\ BucketOf[e] = BucketOf[d]
  /\ \/ e \in Recorded(Owner[e])
     \/ \E t \in Threads : /\ pc[t] = "partner"
                           /\ \E p \in dups[t] : FirstPair(t, p) /\ DocJ(t, p) = e

NoLoneResult ==
  \A c \in Clients : \A d \in Recorded(c) :
    Owner[d] = c /\ \E e \in Docs : Witness(d, e)

(* Nothing is lost: a candidate whose line was stored waits in its bucket   *)
(* until a calculation has passed it.  (FED compares all the documents of a *)
(* bucket; ClearBuckets destroys what it finds, compared or not.)           *)
NothingLost == taken \subseteq Stored \cup seen

(* A client that is not registered leaves nothing in the server and gets    *)
(* nothing out of it, though its lines may come in any block.               *)
StrangersKeptOut ==
  /\ \A d \in candidates \cup Stored : Owner[d] \in Registered
  /\ \A c \in Clients \ Registered : client_keys[c] = 0 /\ duplicate_docs[c] = <<>>

(* Between requests the vector that CALCULATE tests for emptiness and the   *)
(* buckets that it compares hold the same documents.                        *)
StoresAgree ==
  (\A t \in Threads : ~Busy(t)) => candidates = Stored

(* No request makes the server process end with an uncaught exception.      *)
NeverTerminated == up # "terminated"

(* Every CALCULATE is answered, or the process ends.                        *)
CalculationEnds ==
  \A t \in Threads : pc[t] = "calculate" ~> pc[t] = "replied" \/ up # "up"

=============================================================================
