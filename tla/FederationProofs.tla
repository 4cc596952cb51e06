-------------------------- MODULE FederationProofs --------------------------
(* Theorems about Federation for every set of clients, runs and documents:  *)
(* the clients use the server as it expects, when they cannot make it lose  *)
(* a result, and what follows for the results they save.                    *)
EXTENDS Federation, FedServerProofs, FiniteSetTheorems

USE DEF shared, locals, ghosts

-----------------------------------------------------------------------------
(* The threads of the runs: one for each client and each of its runs.       *)
LEMMA ThreadFacts ==
  /\ \A t \in Threads : /\ t[1] \in Clients /\ t[2] \in 1..Len(RunDocs[t[1]])
                        /\ t = <<t[1], t[2]>>
  /\ \A c \in Clients : \A r \in 1..Len(RunDocs[c]) : <<c, r>> \in Threads
  /\ \A c \in Clients : Len(RunDocs[c]) \in Nat /\ DOMAIN RunDocs[c] = 1..Len(RunDocs[c])
<1>1. \A c \in Clients : RunDocs[c] \in Seq(SUBSET Docs)
  BY FederationAssumption
<1>2. \A c \in Clients : Len(RunDocs[c]) \in Nat /\ DOMAIN RunDocs[c] = 1..Len(RunDocs[c])
  BY <1>1
<1>3. \A t : t \in Threads <=> \E c \in Clients : t \in {c} \X DOMAIN RunDocs[c]
  BY FederationAssumption
<1>4. ASSUME NEW t \in Threads
      PROVE  t[1] \in Clients /\ t[2] \in 1..Len(RunDocs[t[1]]) /\ t = <<t[1], t[2]>>
  <2>1. PICK c \in Clients : t \in {c} \X DOMAIN RunDocs[c]
    BY <1>3
  <2> QED BY <2>1, <1>2
<1>5. \A c \in Clients : \A r \in 1..Len(RunDocs[c]) : <<c, r>> \in Threads
  BY <1>2, <1>3
<1> QED BY <1>2, <1>4, <1>5

(* The thread of the run under way.                                         *)
LEMMA SelfFacts ==
  ASSUME NEW c \in Clients
  PROVE  /\ Self(c)[1] = c /\ Self(c)[2] = runs[c]
         /\ runs[c] \in 1..Len(RunDocs[c]) => Self(c) \in Threads
  BY ThreadFacts DEF Self

(* The documents of a run.                                                  *)
LEMMA RunFacts ==
  ASSUME NEW c \in Clients, NEW r \in 1..Len(RunDocs[c])
  PROVE  /\ r \in DOMAIN RunDocs[c]
         /\ RunDocs[c][r] \subseteq Docs /\ IsFiniteSet(RunDocs[c][r])
         /\ Cardinality(RunDocs[c][r]) <= MaxBlock
         /\ \A d \in RunDocs[c][r] : Owner[d] = c
         /\ \A s \in DOMAIN RunDocs[c] : s # r => RunDocs[c][s] \cap RunDocs[c][r] = {}
<1>1. RunDocs[c] \in Seq(SUBSET Docs)
  BY FederationAssumption
<1>2. r \in DOMAIN RunDocs[c] /\ RunDocs[c][r] \subseteq Docs
  BY <1>1
<1> QED BY <1>2, FederationAssumption, RoomAssumption

(* The step names in full.                                                  *)
LEMMA StepNames ==
  /\ Awaiting = {"get_key", "get_ready", "get_confirmation", "get_done", "get_results"}
  /\ Wanted["get_key"] = "PARAMS" /\ Wanted["get_ready"] = "READY"
  /\ Wanted["get_confirmation"] = "CANDIDATES_RECEIVED"
  /\ Wanted["get_done"] = "CALCULATION_DONE" /\ Wanted["get_results"] = "RESULTS"
  BY DEF Awaiting, Wanted

-----------------------------------------------------------------------------
(* The inductive invariant, client by client and thread by thread.          *)

Steps == Ended \cup Awaiting \cup
           {"hello", "process", "candidates", "data_header", "data", "read_again",
            "calculate", "sleep", "fetch"}

ClientTypes ==
  /\ step \in [Clients -> Steps]
  /\ runs \in [Clients -> Nat]
  /\ server_key \in [Clients -> Nat]
  /\ local \in [Clients -> SUBSET Docs]
  /\ linked \in [Clients -> BOOLEAN]
  /\ file \in [Clients -> SUBSET Docs]

(* Where the thread that a client is connected to may be while the client   *)
(* is at step s, and what it may have answered.                             *)
Serves(s, p) ==
  \/ s = "get_key" /\ p \in {"hello", "replied"}
  \/ s = "get_ready" /\ p = "replied"
  \/ s = "data" /\ p = "header"
  \/ s = "get_confirmation" /\ p \in {"block", "replied"} \cup Storing
  \/ s = "get_done" /\ p \in {"calculate", "replied"} \cup Calculating
  \/ s = "get_results" /\ p \in {"get", "replied"}

Says(s, k) ==
  \/ s = "get_key" /\ k = "PARAMS"
  \/ s = "get_ready" /\ k = "READY"
  \/ s = "get_confirmation" /\ k \in {"TOO_MANY_CANDIDATES", "CANDIDATES_RECEIVED"}
  \/ s = "get_done" /\ k \in {"NO_CANDIDATES", "CALCULATION_DONE"}
  \/ s = "get_results" /\ k = "RESULTS"

(* A thread works for the client that waits for it, or for one that is      *)
(* gone.                                                                    *)
Attending(t) ==
  /\ pc[t] # "idle" => up = "up" /\ t[2] <= runs[t[1]]
  /\ t = Self(t[1]) /\ step[t[1]] = "hello" => pc[t] = "idle"
  /\ pc[t] # "idle" /\ Connected(t) => Serves(step[t[1]], pc[t])
  /\ pc[t] = "replied" /\ Connected(t) => Says(step[t[1]], reply[t].kind)
  /\ pc[t] \in {"hello", "get"} => who[t] = t[1]
  /\ missing[t] = 0

(* Only client2 calculates, and knows of it unless it was cut off.          *)
Calculates(t) == InCalculation(t) => t[1] = Trigger /\ (cut_off \/ Connected(t))

(* The key that a thread tells has been generated.                          *)
Telling(t) ==
  reply[t].key <= issued[t[1]] /\ (reply[t].kind = "PARAMS" => reply[t].key >= 1)

ThreadInv(t) == Attending(t) /\ Calculates(t) /\ Telling(t)

(* The runs of a client whose HELLO the server has gone past: as many keys  *)
(* were generated at most.                                                  *)
Greeted(c) ==
  {r \in 1..runs[c] : pc[<<c, r>>] # "hello" /\ ~(r = runs[c] /\ step[c] = "hello")}

Keyed(c) ==
  /\ issued[c] <= Cardinality(Greeted(c))
  /\ server_key[c] <= issued[c]
  /\ step[c] \in {"process", "candidates", "get_ready", "data_header", "data"} => server_key[c] >= 1

Running(c) ==
  /\ linked[c] => up = "up"
  /\ step[c] \in {"calculate", "get_done"} => c = Trigger
  /\ runs[c] <= Len(RunDocs[c])
  /\ step[c] # "off" => runs[c] >= 1

(* The documents of a run are new until the run sends those it has kept.    *)
Before == {"hello", "get_key", "process", "candidates", "get_ready", "data_header", "data"}
Kept   == {"candidates", "get_ready", "data_header", "data"}
After  == {"get_confirmation", "read_again", "sleep", "calculate", "get_done", "fetch",
           "get_results", "succeeded"}
Sending(c) ==
  /\ \A r \in DOMAIN RunDocs[c] : r > runs[c] => RunDocs[c][r] \cap sent = {}
  /\ step[c] \in Before => IdMapping(c) \cap sent = {}
  /\ step[c] \in Kept => local[c] \subseteq IdMapping(c)
  /\ step[c] \in After => IdMapping(c) \cap sent = local[c]

ClientInv(c) == Keyed(c) /\ Running(c) /\ Sending(c)

ClientsInv == /\ ClientTypes
              /\ \A c \in Clients : ClientInv(c)
              /\ \A t \in Threads : ThreadInv(t)

ServerInv == TypeOK /\ Fresh /\ Sorted /\ Paired
FedInv    == ServerInv /\ ClientsInv

(* A run under way is one of the runs of its client.                        *)
LEMMA UnderWay ==
  ASSUME ClientsInv, NEW c \in Clients, step[c] # "off"
  PROVE  runs[c] \in 1..Len(RunDocs[c]) /\ Self(c) \in Threads
<1>1. runs[c] \in Nat /\ runs[c] >= 1 /\ runs[c] <= Len(RunDocs[c]) /\ Len(RunDocs[c]) \in Nat
  BY ThreadFacts DEF ClientsInv, ClientTypes, ClientInv, Running
<1> QED BY <1>1, SelfFacts

(* There are no more such runs than runs, and fewer while one asks.         *)
LEMMA GreetedFinite ==
  ASSUME NEW c \in Clients, runs[c] \in Nat
  PROVE  /\ IsFiniteSet(Greeted(c)) /\ Cardinality(Greeted(c)) \in Nat
         /\ Cardinality(Greeted(c)) <= runs[c]
         /\ runs[c] >= 1 /\ runs[c] \notin Greeted(c) => Cardinality(Greeted(c)) < runs[c]
<1> DEFINE n == runs[c]
<1>1. IsFiniteSet(1..n) /\ Cardinality(1..n) = n
  BY FS_Interval
<1>2. Greeted(c) \in SUBSET (1..n)
  BY DEF Greeted
<1>3. /\ IsFiniteSet(Greeted(c)) /\ Cardinality(Greeted(c)) <= n
      /\ Cardinality(1..n) = Cardinality(Greeted(c)) => 1..n = Greeted(c)
  BY <1>1, <1>2, FS_Subset
<1>4. Cardinality(Greeted(c)) \in Nat
  BY <1>3, FS_CardinalityType
<1>5. ASSUME n >= 1, n \notin Greeted(c) PROVE Cardinality(Greeted(c)) # n
  BY <1>1, <1>3, <1>5
<1> QED BY <1>3, <1>4, <1>5

(* More runs, more keys.                                                    *)
LEMMA GreetedGrows ==
  ASSUME NEW c \in Clients, runs[c] \in Nat, runs'[c] \in Nat, issued[c] \in Nat,
         issued[c] <= Cardinality(Greeted(c)), Greeted(c) \subseteq Greeted(c)', issued'[c] = issued[c]
  PROVE  issued'[c] <= Cardinality(Greeted(c))'
<1>1. Cardinality(Greeted(c)) \in Nat
  BY GreetedFinite
<1>2. IsFiniteSet(Greeted(c)')
  <2>1. IsFiniteSet(1..runs'[c])
    BY FS_Interval
  <2>2. Greeted(c)' \subseteq 1..runs'[c]
    BY DEF Greeted
  <2> QED BY <2>1, <2>2, FS_Subset
<1>3. Cardinality(Greeted(c)) <= Cardinality(Greeted(c)') /\ Cardinality(Greeted(c)') \in Nat
  BY <1>2, FS_Subset, FS_CardinalityType
<1> QED BY <1>1, <1>3

-----------------------------------------------------------------------------
(* What a step of a handler does to its thread, and to no other.            *)
Told(k) == [Reply("PARAMS") EXCEPT !.key = k]
Listed(ids) == [Reply("RESULTS") EXCEPT !.ids = ids]

Move(t, p, r) ==
  \/ /\ pc[t] = "hello" /\ p = "replied" /\ who[t] \in Registered
     /\ r = Told(issued[who[t]] + 1)
     /\ issued' = [issued EXCEPT ![who[t]] = @ + 1]
  \/ /\ pc[t] \in {"hello", "get"} /\ p = "replied" /\ who[t] \notin Registered
     /\ r = Reply("UNAUTHORIZED") /\ issued' = issued
  \/ /\ pc[t] \in {"block"} \cup Storing /\ issued' = issued
     /\ \/ p \in Storing /\ r = reply[t]
        \/ p = "replied" /\ r \in {Reply("TOO_MANY_CANDIDATES"), Reply("CANDIDATES_RECEIVED")}
  \/ /\ pc[t] \in {"calculate"} \cup Calculating /\ issued' = issued
     /\ \/ p \in Calculating /\ r = reply[t]
        \/ p = "replied" /\ r \in {Reply("NO_CANDIDATES"), Reply("CALCULATION_DONE")}
  \/ /\ pc[t] = "get" /\ p = "replied" /\ who[t] \in Registered /\ issued' = issued
     /\ r = Listed(duplicate_docs[who[t]])

Moves(t, p, r) ==
  /\ pc' = [pc EXCEPT ![t] = p]
  /\ reply' = [reply EXCEPT ![t] = r]
  /\ UNCHANGED <<up, who, sent>>
  /\ missing' = missing \/ missing' = [missing EXCEPT ![t] = 0]
  /\ Move(t, p, r)

(* A step that only moves the program point of its thread.                  *)
LEMMA StaysSilent ==
  ASSUME TypeOK, NEW t \in Threads, NEW p,
         pc' = [pc EXCEPT ![t] = p], UNCHANGED <<up, who, missing, sent, reply, issued>>,
         \/ pc[t] \in {"block"} \cup Storing /\ p \in Storing
         \/ pc[t] \in {"calculate"} \cup Calculating /\ p \in Calculating
  PROVE  Moves(t, p, reply[t])
<1>1. reply' = [reply EXCEPT ![t] = reply[t]]
  BY DEF TypeOK
<1> QED BY <1>1 DEF Moves, Move

(* A step of a handler moves its thread and sets at most its reply.         *)
LEMMA HandlerMoves ==
  ASSUME TypeOK, NEW t \in Threads, Handler(t), ~End("terminated")
  PROVE  \E p, r : Moves(t, p, r)
<1>0. pc' = pc => pc' = [pc EXCEPT ![t] = pc[t]]
  BY DEF TypeOK
<1>1. CASE Hello(t)
  <2>1. CASE who[t] \in Registered
    <3>1. Moves(t, "replied", Told(issued[who[t]] + 1))
      BY <1>1, <2>1 DEF Hello, Moves, Move, Answer, Told
    <3> QED BY <3>1
  <2>2. CASE who[t] \notin Registered
    <3>1. Moves(t, "replied", Reply("UNAUTHORIZED"))
      BY <1>1, <2>2 DEF Hello, Moves, Move, Answer
    <3> QED BY <3>1
  <2> QED BY <2>1, <2>2
<1>2. CASE Upload(t)
  <2>1. CASE BlockRefused(t)
    BY <2>1 DEF BlockRefused, Answer, Moves, Move
  <2>2. CASE BlockStored(t)
    BY <2>2 DEF BlockStored, Answer, Moves, Move, Storing
  <2>3. CASE BlockAccepted(t)
    BY <2>3, StaysSilent DEF BlockAccepted, Storing
  <2>4. CASE SkipLine(t)
    BY <2>4, <1>0, StaysSilent DEF SkipLine, Storing
  <2>5. CASE StoreCandidate(t)
    BY <2>5, StaysSilent DEF StoreCandidate, Storing
  <2>6. CASE StoreInBucket(t)
    BY <2>6, StaysSilent DEF StoreInBucket, Storing
  <2>7. CASE LineThrows(t)
    BY <2>7 DEF LineThrows
  <2> QED BY <1>2, <2>1, <2>2, <2>3, <2>4, <2>5, <2>6, <2>7 DEF Upload
<1>3. CASE Calculate(t)
  <2>1. CASE CalculateRefused(t)
    BY <2>1 DEF CalculateRefused, Answer, Moves, Move
  <2>2. CASE CalculateStarts(t)
    BY <2>2, StaysSilent DEF CalculateStarts, Calculating
  <2>3. CASE ScanBucket(t)
    <3>1. (pc' = pc \/ pc' = [pc EXCEPT ![t] = "pairs"]) /\ pc[t] = "scan"
          /\ UNCHANGED <<up, who, missing, sent, reply, issued>>
      BY <2>3 DEF ScanBucket
    <3> QED BY <3>1, <1>0, StaysSilent DEF Calculating
  <2>4. CASE DecryptThrows(t)
    BY <2>4 DEF DecryptThrows
  <2>5. CASE RecordPair(t)
    <3>1. (pc' = pc \/ pc' = [pc EXCEPT ![t] = "partner"]) /\ pc[t] = "pairs"
          /\ UNCHANGED <<up, who, missing, sent, reply, issued>>
      BY <2>5 DEF RecordPair
    <3> QED BY <3>1, <1>0, StaysSilent DEF Calculating
  <2>6. CASE RecordPartner(t)
    BY <2>6, StaysSilent DEF RecordPartner, Calculating
  <2>7. CASE BucketDone(t)
    BY <2>7, StaysSilent DEF BucketDone, Calculating
  <2>8. CASE LastBucketDone(t)
    BY <2>8, StaysSilent DEF LastBucketDone, Calculating
  <2>9. CASE ClearCandidates(t)
    BY <2>9, StaysSilent DEF ClearCandidates, Calculating
  <2>10. CASE ClearBuckets(t)
    BY <2>10 DEF ClearBuckets, Answer, Moves, Move, Calculating
  <2> QED BY <1>3, <2>1, <2>2, <2>3, <2>4, <2>5, <2>6, <2>7, <2>8, <2>9, <2>10 DEF Calculate
<1>4. CASE GetResults(t)
  <2>1. CASE who[t] \in Registered
    <3>1. Moves(t, "replied", Listed(duplicate_docs[who[t]]))
      BY <1>4, <2>1 DEF GetResults, Answer, Moves, Move, Listed
    <3> QED BY <3>1
  <2>2. CASE who[t] \notin Registered
    <3>1. Moves(t, "replied", Reply("UNAUTHORIZED"))
      BY <1>4, <2>2 DEF GetResults, Answer, Moves, Move
    <3> QED BY <3>1
  <2> QED BY <2>1, <2>2
<1> QED BY <1>1, <1>2, <1>3, <1>4 DEF Handler

(* A handler works for a thread that has a request, and ends the process in *)
(* a calculation or at a line that cannot be read.                          *)
LEMMA HandlerAt ==
  ASSUME NEW t \in Threads, Handler(t)
  PROVE  /\ pc[t] \in {"hello", "block", "calculate", "get"} \cup Storing \cup Calculating
         /\ up' # up => up' = "terminated" /\ End("terminated")
                        /\ (pc[t] = "scan" \/ missing[t] > 0)
<1> USE DEF Handler, Hello, Upload, BlockRefused, BlockAccepted, SkipLine, StoreCandidate,
            StoreInBucket, BlockStored, LineThrows, Calculate, CalculateRefused, CalculateStarts,
            ScanBucket, DecryptThrows, RecordPair, RecordPartner, BucketDone, LastBucketDone,
            ClearCandidates, ClearBuckets, GetResults, Answer
<1>1. pc[t] \in {"hello", "block", "calculate", "get"} \cup Storing \cup Calculating
  BY DEF Storing, Calculating
<1>2. up' # up => up' = "terminated" /\ End("terminated") /\ (pc[t] = "scan" \/ missing[t] > 0)
  BY DEF End
<1> QED BY <1>1, <1>2

-----------------------------------------------------------------------------
(* What a step of client c and of one thread s of its leaves alone.         *)
SameThread(t) ==
  pc'[t] = pc[t] /\ who'[t] = who[t] /\ reply'[t] = reply[t] /\ missing'[t] = missing[t]

SameClient(e) ==
  /\ step'[e] = step[e] /\ runs'[e] = runs[e] /\ server_key'[e] = server_key[e]
  /\ local'[e] = local[e] /\ linked'[e] = linked[e] /\ issued'[e] = issued[e]

Frame(c, s) ==
  /\ up = "up" => up' = "up"
  /\ cut_off => cut_off'
  /\ \A e \in Clients \ {c} : SameClient(e)
  /\ \A t \in Threads \ {s} : SameThread(t)
  /\ runs'[c] = runs[c] /\ issued[c] <= issued'[c]
  /\ s = Self(c) \/ (step'[c] = step[c] /\ linked'[c] = linked[c])
  /\ sent \subseteq sent' /\ \A d \in sent' \ sent : Owner[d] = c

(* A thread whose client goes on as before.                                 *)
LEMMA ThreadKept ==
  ASSUME FedInv, NEW t \in Threads, SameThread(t), up = "up" => up' = "up", cut_off => cut_off',
         runs'[t[1]] = runs[t[1]], issued[t[1]] <= issued'[t[1]], issued'[t[1]] \in Nat,
         t = Self(t[1]) => step'[t[1]] = step[t[1]] /\ linked'[t[1]] = linked[t[1]]
  PROVE  ThreadInv(t)'
<1>0. ThreadInv(t) /\ TypeOK /\ t[1] \in Clients
  BY ThreadFacts DEF FedInv, ClientsInv, ServerInv
<1>1. Self(t[1])' = Self(t[1])
  BY DEF Self
<1>2. Connected(t)' <=> Connected(t)
  BY <1>1 DEF Connected
<1>3. Attending(t)'
  BY <1>0, <1>1, <1>2 DEF ThreadInv, Attending, SameThread, Connected
<1>4. Calculates(t)'
  BY <1>0, <1>2 DEF ThreadInv, Calculates, InCalculation, SameThread
<1>5. Telling(t)'
  <2>1. reply[t].key \in Nat /\ issued[t[1]] \in Nat
    BY <1>0 DEF TypeOK
  <2> QED BY <1>0, <2>1 DEF ThreadInv, Telling, SameThread
<1> QED BY <1>3, <1>4, <1>5 DEF ThreadInv

(* A client that stands still keeps what it knows while none of its         *)
(* documents is sent.                                                       *)
LEMMA ClientKept ==
  ASSUME FedInv, NEW e \in Clients, SameClient(e), up = "up" => up' = "up",
         \A r \in 1..runs[e] : pc'[<<e, r>>] = pc[<<e, r>>],
         \A r \in 1..Len(RunDocs[e]) : RunDocs[e][r] \cap sent' = RunDocs[e][r] \cap sent
  PROVE  ClientInv(e)'
<1>0. ClientInv(e) /\ runs[e] \in Nat
  BY DEF FedInv, ClientsInv, ClientTypes
<1>1. Greeted(e)' = Greeted(e)
  BY DEF Greeted, SameClient
<1>2. Keyed(e)' /\ Running(e)'
  BY <1>0, <1>1 DEF ClientInv, SameClient, Keyed, Running
<1>3. DOMAIN RunDocs[e] = 1..Len(RunDocs[e]) /\ Len(RunDocs[e]) \in Nat
  BY ThreadFacts
<1>4. step[e] # "off" => IdMapping(e)' = IdMapping(e) /\ IdMapping(e) \cap sent' = IdMapping(e) \cap sent
  BY <1>0, <1>3 DEF ClientInv, Running, SameClient, IdMapping
<1>5. Sending(e)'
  <2>1. \A r \in DOMAIN RunDocs[e] : r > runs[e] => RunDocs[e][r] \cap sent' = {}
    BY <1>0, <1>3 DEF ClientInv, Sending
  <2>2. step[e] \in Before \cup Kept \cup After => step[e] # "off"
    BY DEF Before, Kept, After
  <2>3. step[e] \in Before => IdMapping(e)' \cap sent' = {}
    BY <1>0, <1>4, <2>2 DEF ClientInv, Sending
  <2>4. step[e] \in Kept => local[e] \subseteq IdMapping(e)'
    BY <1>0, <1>4, <2>2 DEF ClientInv, Sending
  <2>5. step[e] \in After => IdMapping(e)' \cap sent' = local[e]
    BY <1>0, <1>4, <2>2 DEF ClientInv, Sending
  <2> QED BY <2>1, <2>3, <2>4, <2>5 DEF Sending, SameClient
<1> QED BY <1>2, <1>5 DEF ClientInv

(* Only its own block sends a client's documents.                           *)
LEMMA OthersKept ==
  ASSUME FedInv, NEW c \in Clients, up = "up" => up' = "up",
         NEW e \in Clients \ {c}, SameClient(e), \A t \in Threads : t[1] = e => SameThread(t),
         sent \subseteq sent', \A d \in sent' \ sent : Owner[d] = c
  PROVE  ClientInv(e)'
<1>1. \A r \in 1..Len(RunDocs[e]) : RunDocs[e][r] \cap sent' = RunDocs[e][r] \cap sent
  BY RunFacts
<1>2. \A r \in 1..runs[e] : pc'[<<e, r>>] = pc[<<e, r>>]
  <2>1. runs[e] \in Nat /\ runs[e] <= Len(RunDocs[e]) /\ Len(RunDocs[e]) \in Nat
    BY ThreadFacts DEF FedInv, ClientsInv, ClientTypes, ClientInv, Running
  <2>2. \A r \in 1..runs[e] : <<e, r>> \in Threads
    BY <2>1, ThreadFacts
  <2> QED BY <2>2 DEF SameThread
<1> QED BY <1>1, <1>2, ClientKept

(* A step of client c or of one of its threads.                             *)
LEMMA FrameKept ==
  ASSUME FedInv, NEW c \in Clients, NEW s, s[1] = c, Frame(c, s),
         ClientTypes', \A e \in Clients : issued'[e] \in Nat,
         ClientInv(c)', s \in Threads => ThreadInv(s)'
  PROVE  ClientsInv'
<1>1. \A e \in Clients \ {c} : ClientInv(e)'
  <2> SUFFICES ASSUME NEW e \in Clients \ {c} PROVE ClientInv(e)'
    OBVIOUS
  <2> QED BY OthersKept DEF Frame
<1>2. ASSUME NEW t \in Threads, t # s PROVE ThreadInv(t)'
  <2>1. t[1] \in Clients /\ SameThread(t) /\ issued'[t[1]] \in Nat
    BY <1>2, ThreadFacts DEF Frame
  <2>2. CASE t[1] # c
    <3>1. SameClient(t[1]) /\ issued[t[1]] \in Nat
      BY <2>1, <2>2 DEF Frame, FedInv, ServerInv, TypeOK
    <3> QED BY <2>1, <3>1, ThreadKept DEF Frame, SameClient
  <2>3. CASE t[1] = c
    BY <1>2, <2>1, <2>3, ThreadKept DEF Frame
  <2> QED BY <2>2, <2>3
<1> QED BY <1>1, <1>2 DEF ClientsInv

(* A thread that is not connected to anyone, or rests.                      *)
LEMMA Unattended ==
  ASSUME FedInv, NEW t \in Threads, Connected(t), step[t[1]] \notin Awaiting \cup {"data"}
  PROVE  pc[t] = "idle"
  BY StepNames DEF FedInv, ClientsInv, ThreadInv, Attending, Serves

(* A run that fails, in its own step or by force.                           *)
LEMMA FailKept ==
  ASSUME FedInv, NEW c \in Clients, step[c] # "off", Fail(c), UNCHANGED vars,
         cut_off => cut_off',
         Connected(Self(c)) /\ InCalculation(Self(c)) => cut_off'
  PROVE  ClientsInv'
<1>s. PICK s : s = Self(c)
  OBVIOUS
<1> USE DEF Goto, Close, Forget, Fail
<1>0. ClientTypes /\ ClientInv(c) /\ TypeOK /\ TypeOK'
  BY DEF FedInv, ClientsInv, ServerInv, TypeOK, vars
<1>1. s \in Threads /\ runs[c] \in Nat /\ s[1] = c
  BY <1>s, UnderWay, SelfFacts, <1>0 DEF FedInv, ClientTypes
<1>2. ClientTypes'
  BY <1>0 DEF ClientTypes, Steps, Ended
<1>3. step'[c] = "failed" /\ linked'[c] = FALSE /\ server_key'[c] = 0 /\ runs' = runs
  BY <1>0 DEF ClientTypes
<1>4. issued' = issued /\ \A e \in Clients : issued[e] \in Nat /\ issued'[e] \in Nat
  BY <1>0 DEF vars, TypeOK
<1>5. Frame(c, s)
  <2>1. \A e \in Clients \ {c} : SameClient(e)
    BY <1>0, <1>4 DEF ClientTypes, SameClient
  <2>2. \A t \in Threads : SameThread(t)
    BY DEF vars, SameThread
  <2> QED BY <1>s, <2>1, <2>2, <1>3, <1>4 DEF Frame, vars
<1>6. ClientInv(c)'
  <2>1. Greeted(c) \subseteq Greeted(c)'
    BY <1>3 DEF Greeted, vars
  <2>2. Keyed(c)'
    <3>1. issued[c] <= Cardinality(Greeted(c)) /\ issued[c] \in Nat /\ runs'[c] \in Nat
      BY <1>0, <1>1, <1>3, <1>4 DEF ClientInv, Keyed
    <3>2. issued'[c] <= Cardinality(Greeted(c))'
      BY <1>1, <1>4, <2>1, <3>1, GreetedGrows
    <3> QED BY <1>3, <1>4, <3>1, <3>2 DEF Keyed
  <2>3. Running(c)'
    BY <1>0, <1>3 DEF ClientInv, Running, vars
  <2>4. Sending(c)'
    BY <1>0, <1>3 DEF ClientInv, Sending, Before, Kept, After, vars
  <2> QED BY <2>2, <2>3, <2>4 DEF ClientInv
<1>7. ThreadInv(s)'
  <2>1. ThreadInv(s) /\ ~Connected(s)' /\ Self(c)' = s
    BY <1>s, <1>1, <1>3 DEF FedInv, ClientsInv, Connected, Self
  <2>2. Attending(s)'
    BY <1>1, <1>3, <2>1 DEF ThreadInv, Attending, Connected, vars
  <2>3. Calculates(s)' /\ Telling(s)'
    BY <1>s, <1>1, <2>1 DEF ThreadInv, Calculates, InCalculation, Telling, vars
  <2> QED BY <2>1, <2>2, <2>3 DEF ThreadInv
<1> QED BY <1>1, <1>2, <1>4, <1>5, <1>6, <1>7, FrameKept

(* A connection that breaks.                                                *)
LEMMA CutKept ==
  ASSUME FedInv, NEW c \in Clients, CutOff(c),
         cut_off => cut_off',
         Self(c) \in Threads /\ Connected(Self(c)) /\ InCalculation(Self(c)) => cut_off'
  PROVE  ClientsInv'
<1>s. PICK s : s = Self(c)
  OBVIOUS
<1> USE DEF Close, CutOff
<1>0. ClientTypes /\ ClientInv(c) /\ TypeOK /\ runs[c] \in Nat
  BY DEF FedInv, ClientsInv, ServerInv, ClientTypes
<1>1. s[1] = c
  BY <1>s, SelfFacts
<1>2. ClientTypes'
  BY <1>0 DEF ClientTypes
<1>3. linked'[c] = FALSE
  BY <1>0 DEF ClientTypes
<1>4. issued' = issued /\ \A e \in Clients : issued[e] \in Nat /\ issued'[e] \in Nat
  BY <1>0 DEF vars, TypeOK
<1>5. Frame(c, s)
  <2>1. \A e \in Clients \ {c} : SameClient(e)
    BY <1>0, <1>4 DEF ClientTypes, SameClient
  <2>2. \A t \in Threads : SameThread(t)
    BY DEF vars, SameThread
  <2> QED BY <1>s, <2>1, <2>2, <1>3, <1>4 DEF Frame, vars
<1>6. ClientInv(c)'
  <2>1. Greeted(c)' = Greeted(c) /\ IdMapping(c)' = IdMapping(c)
    BY DEF Greeted, IdMapping, vars
  <2> QED BY <1>0, <1>3, <2>1 DEF ClientInv, Keyed, Running, Sending, vars
<1>7. s \in Threads => ThreadInv(s)'
  <2> SUFFICES ASSUME s \in Threads PROVE ThreadInv(s)'
    OBVIOUS
  <2>1. ThreadInv(s) /\ ~Connected(s)' /\ Self(c)' = s
    BY <1>s, <1>1, <1>3 DEF FedInv, ClientsInv, Connected, Self
  <2>2. Attending(s)'
    BY <1>s, <1>1, <1>3, <2>1 DEF ThreadInv, Attending, Connected, Self, vars
  <2>3. Calculates(s)' /\ Telling(s)'
    BY <1>s, <1>1, <2>1 DEF ThreadInv, Calculates, InCalculation, Telling, vars
  <2> QED BY <2>1, <2>2, <2>3 DEF ThreadInv
<1> QED BY <1>1, <1>2, <1>4, <1>5, <1>6, <1>7, FrameKept

(* Steps of a client between two requests.                                  *)
LEMMA AloneKept ==
  ASSUME FedInv, NEW c \in Clients, ProcessLocally(c) \/ Wake(c), cut_off' = cut_off
  PROVE  ClientsInv'
<1>s. PICK s : s = Self(c)
  OBVIOUS
<1> USE DEF Goto
<1>0. ClientTypes /\ ClientInv(c) /\ TypeOK /\ step[c] # "off" /\ UNCHANGED vars
  BY DEF FedInv, ClientsInv, ServerInv, ProcessLocally, Wake
<1>1. s \in Threads /\ s[1] = c /\ runs[c] \in 1..Len(RunDocs[c])
  BY <1>s, UnderWay, SelfFacts, <1>0 DEF FedInv
<1>2. PICK q : /\ step' = [step EXCEPT ![c] = q] /\ UNCHANGED <<runs, server_key, linked, file>>
               /\ \/ q = "fetch" /\ step[c] = "sleep" /\ local' = local
                  \/ /\ q = "candidates" /\ step[c] = "process"
                     /\ \E kept \in SUBSET IdMapping(c) : local' = [local EXCEPT ![c] = kept]
  BY DEF ProcessLocally, Wake
<1>3. q \in Steps /\ step'[c] = q
  BY <1>0, <1>2 DEF ClientTypes, Steps
<1>4. IdMapping(c) \subseteq Docs /\ IdMapping(c)' = IdMapping(c)
  BY <1>1, <1>2, RunFacts DEF IdMapping
<1>5. ClientTypes'
  BY <1>0, <1>2, <1>3, <1>4 DEF ClientTypes
<1>6. issued' = issued /\ \A e \in Clients : issued[e] \in Nat /\ issued'[e] \in Nat
  BY <1>0 DEF vars, TypeOK
<1>7. Frame(c, s)
  <2>1. \A e \in Clients \ {c} : SameClient(e)
    BY <1>0, <1>2, <1>6 DEF ClientTypes, SameClient
  <2>2. \A t \in Threads : SameThread(t)
    BY <1>0 DEF vars, SameThread
  <2> QED BY <1>s, <2>1, <2>2, <1>0, <1>2, <1>6 DEF Frame, vars
<1>8. ClientInv(c)'
  <2>1. Greeted(c)' = Greeted(c)
    BY <1>0, <1>2, <1>3 DEF Greeted, vars
  <2>2. Keyed(c)' /\ Running(c)'
    BY <1>0, <1>2, <1>3, <2>1 DEF ClientInv, Keyed, Running, vars
  <2>3. Sending(c)'
    <3>1. CASE step[c] = "sleep"
      BY <1>0, <1>2, <1>3, <1>4, <3>1 DEF ClientInv, Sending, Before, Kept, After, vars
    <3>2. CASE step[c] = "process"
      <4>1. local'[c] \subseteq IdMapping(c)
        BY <1>0, <1>2, <3>2 DEF ClientTypes
      <4> QED BY <1>0, <1>2, <1>3, <1>4, <3>2, <4>1 DEF ClientInv, Sending, Before, Kept, After, vars
    <3> QED BY <1>2, <3>1, <3>2
  <2> QED BY <2>2, <2>3 DEF ClientInv
<1>9. ThreadInv(s)'
  <2>1. ThreadInv(s) /\ Self(c)' = s /\ (Connected(s)' <=> Connected(s))
    BY <1>s, <1>1, <1>2 DEF FedInv, ClientsInv, Connected, Self
  <2>2. Connected(s) => pc[s] = "idle"
    BY <1>1, <1>2, Unattended, StepNames
  <2>3. Attending(s)'
    BY <1>0, <1>1, <1>2, <1>3, <2>1, <2>2 DEF ThreadInv, Attending, vars
  <2>4. Calculates(s)' /\ Telling(s)'
    BY <1>0, <2>1 DEF ThreadInv, Calculates, InCalculation, Telling, vars
  <2> QED BY <2>1, <2>3, <2>4 DEF ThreadInv
<1> QED BY <1>1, <1>5, <1>6, <1>7, <1>8, <1>9, FrameKept

(* A run that is started has a thread of its own, which rests.              *)
LEMMA StartKept ==
  ASSUME FedInv, NEW c \in Clients, Start(c), cut_off' = cut_off
  PROVE  ClientsInv'
<1> USE DEF Goto, Forget, Start
<1>0. ClientTypes /\ ClientInv(c) /\ TypeOK /\ UNCHANGED vars /\ runs[c] \in Nat
  BY DEF FedInv, ClientsInv, ServerInv, ClientTypes
<1>1. step[c] \in Ended /\ runs[c] < Len(RunDocs[c]) /\ DOMAIN RunDocs[c] = 1..Len(RunDocs[c])
      /\ Len(RunDocs[c]) \in Nat
  BY ThreadFacts
<1>2. ClientTypes'
  BY <1>0 DEF ClientTypes, Steps
<1>3. step'[c] = "hello" /\ runs'[c] = runs[c] + 1 /\ server_key'[c] = 0 /\ linked' = linked
  BY <1>0 DEF ClientTypes
<1>4. issued' = issued /\ issued \in [Clients -> Nat]
  BY <1>0 DEF vars, TypeOK
<1>5. \A e \in Clients \ {c} : SameClient(e)
  BY <1>0, <1>4 DEF ClientTypes, SameClient
<1>6. \A t \in Threads : SameThread(t)
  BY <1>0 DEF vars, SameThread
<1>7. \A e \in Clients \ {c} : ClientInv(e)'
  <2> SUFFICES ASSUME NEW e \in Clients \ {c} PROVE ClientInv(e)'
    OBVIOUS
  <2> QED BY <1>0, <1>5, <1>6, OthersKept DEF vars
<1>8. ClientInv(c)'
  <2>1. Greeted(c) \subseteq Greeted(c)'
    BY <1>0, <1>1, <1>3 DEF Greeted, vars
  <2>2. Keyed(c)'
    <3>1. issued[c] <= Cardinality(Greeted(c)) /\ issued[c] \in Nat /\ runs'[c] \in Nat
      BY <1>0, <1>3, <1>4 DEF ClientInv, Keyed
    <3>2. issued'[c] <= Cardinality(Greeted(c))'
      BY <1>0, <1>4, <2>1, <3>1, GreetedGrows
    <3> QED BY <1>3, <1>4, <3>1, <3>2 DEF Keyed
  <2>3. Running(c)'
    BY <1>0, <1>1, <1>3 DEF ClientInv, Running, vars
  <2>4. \A r \in DOMAIN RunDocs[c] : r > runs[c] => RunDocs[c][r] \cap sent = {}
    BY <1>0 DEF ClientInv, Sending
  <2>5. IdMapping(c)' \cap sent = {}
    BY <1>0, <1>1, <1>3, <2>4 DEF IdMapping
  <2>6. \A r \in DOMAIN RunDocs[c] : r > runs[c] + 1 => RunDocs[c][r] \cap sent = {}
    BY <1>0, <1>1, <2>4
  <2>7. Sending(c)'
    BY <1>0, <1>3, <2>5, <2>6 DEF Sending, Before, Kept, After, vars
  <2> QED BY <2>2, <2>3, <2>7 DEF ClientInv
<1>9. ASSUME NEW t \in Threads PROVE ThreadInv(t)'
  <2>1. t[1] \in Clients
    BY ThreadFacts
  <2>2. CASE t[1] # c
    <3>1. SameClient(t[1]) /\ issued[t[1]] \in Nat
      BY <1>4, <1>5, <2>1, <2>2
    <3> QED BY <1>0, <1>4, <1>6, <2>1, <3>1, ThreadKept DEF SameClient, vars
  <2>3. CASE t[1] = c
    <3>0. ThreadInv(t) /\ t[2] \in Nat
      BY ThreadFacts DEF FedInv, ClientsInv
    <3>1. Connected(t) => pc[t] = "idle"
      BY <1>1, <2>3, Unattended, StepNames DEF Ended
    <3>2. Connected(t)' => t[2] = runs[c] + 1
      BY <1>3, <2>3 DEF Connected, Self
    <3>3. Connected(t)' => pc[t] = "idle"
      BY <1>0, <2>3, <3>0, <3>2 DEF ThreadInv, Attending
    <3>4. t = Self(c)' => pc[t] = "idle"
      <4>1. t = Self(c)' => t[2] = runs[c] + 1
        BY <1>3 DEF Self
      <4> QED BY <1>0, <2>3, <3>0, <4>1 DEF ThreadInv, Attending
    <3>5. Attending(t)'
      BY <1>0, <1>3, <2>3, <3>0, <3>3, <3>4 DEF ThreadInv, Attending, vars
    <3>6. Calculates(t)' /\ Telling(t)'
      BY <1>0, <2>3, <3>0, <3>1 DEF ThreadInv, Calculates, InCalculation, Telling, vars, Calculating
    <3> QED BY <3>5, <3>6 DEF ThreadInv
  <2> QED BY <2>2, <2>3
<1> QED BY <1>2, <1>7, <1>8, <1>9 DEF ClientsInv

-----------------------------------------------------------------------------
(* A client and the thread that it is connected to act together.            *)
HasKey == {"process", "candidates", "get_ready", "data_header", "data"}

(* What is said of all clients and threads stays, when c and its thread     *)
(* move to q and p and it is kept of the two.                               *)
LEMMA ActsKept ==
  ASSUME FedInv, NEW c \in Clients, step[c] # "off", NEW s, s = Self(c), NEW p, NEW q,
         up' = up, issued' = issued, runs' = runs, cut_off' = cut_off,
         \A e \in Clients \ {c} : SameClient(e), \A t \in Threads \ {s} : SameThread(t),
         step'[c] = q, pc'[s] = p,
         p = "hello" \/ q = "hello" => pc[s] = "hello" \/ step[c] = "hello",
         server_key'[c] <= issued[c], q \in HasKey => server_key'[c] >= 1,
         sent \subseteq sent', \A d \in sent' \ sent : Owner[d] = c,
         ClientTypes', Running(c)', Sending(c)', ThreadInv(s)'
  PROVE  ClientsInv'
<1>0. ClientTypes /\ ClientInv(c) /\ TypeOK
  BY DEF FedInv, ClientsInv, ServerInv
<1>1. /\ s \in Threads /\ s[1] = c /\ s = <<c, runs[c]>> /\ runs[c] \in 1..Len(RunDocs[c])
      /\ Len(RunDocs[c]) \in Nat
  BY UnderWay, SelfFacts, ThreadFacts DEF FedInv, Self
<1>2. \A e \in Clients : issued[e] \in Nat /\ issued'[e] \in Nat
  BY <1>0 DEF TypeOK
<1>3. Frame(c, s)
  BY <1>2 DEF Frame
<1>4. Greeted(c) \subseteq Greeted(c)'
  <2> SUFFICES ASSUME NEW r \in Greeted(c) PROVE r \in Greeted(c)'
    OBVIOUS
  <2>1. r \in 1..runs[c] /\ pc[<<c, r>>] # "hello" /\ ~(r = runs[c] /\ step[c] = "hello")
    BY DEF Greeted
  <2>2. CASE r = runs[c]
    BY <1>1, <2>1, <2>2 DEF Greeted
  <2>3. CASE r # runs[c]
    <3>1. <<c, r>> \in Threads
      BY <1>1, <2>1, ThreadFacts
    <3>2. <<c, r>> # s
      BY <1>1, <2>3
    <3>3. pc'[<<c, r>>] = pc[<<c, r>>]
      BY <3>1, <3>2 DEF SameThread
    <3> QED BY <2>1, <2>3, <3>3 DEF Greeted
  <2> QED BY <2>2, <2>3
<1>5. Keyed(c)'
  <2>1. issued[c] <= Cardinality(Greeted(c)) /\ runs[c] \in Nat /\ runs'[c] \in Nat
    BY <1>0, <1>1 DEF ClientInv, Keyed
  <2>2. issued'[c] <= Cardinality(Greeted(c))'
    BY <1>2, <1>4, <2>1, GreetedGrows
  <2> QED BY <2>2 DEF Keyed, HasKey
<1>6. ClientInv(c)'
  BY <1>5 DEF ClientInv
<1> QED BY <1>1, <1>2, <1>3, <1>6, FrameKept

(* Hearing an answer, and going on to step q with key k and candidates L.   *)
Hears(c, q, k, L, l) ==
  /\ step[c] \in Awaiting /\ linked[c] /\ Finish(Self(c))
  /\ step' = [step EXCEPT ![c] = q] /\ runs' = runs
  /\ linked' = [linked EXCEPT ![c] = l] /\ l \in BOOLEAN
  /\ server_key' = [server_key EXCEPT ![c] = k] /\ k \in 0..issued[c]
  /\ local' = [local EXCEPT ![c] = L] /\ L \subseteq Docs
  /\ file' \in [Clients -> SUBSET Docs]
  /\ q \in {"process", "data_header", "sleep", "calculate", "fetch", "succeeded", "read_again",
            "failed"}
  /\ q \in HasKey => k >= 1
  /\ q = "calculate" => c = Trigger
  /\ IF q \in Before THEN step[c] \in Before ELSE q \in After => step[c] \in After
  /\ q \in Kept => step[c] \in Kept
  /\ q \in Kept \cup After => L = local[c]

(* Hearing an answer keeps the invariant.                                   *)
LEMMA HearingKept ==
  ASSUME FedInv, NEW c \in Clients, NEW q, NEW k, NEW L, NEW l, Hears(c, q, k, L, l),
         cut_off' = cut_off
  PROVE  ClientsInv'
<1> USE DEF Hears
<1>s. PICK s : s = Self(c)
  OBVIOUS
<1>0. ClientTypes /\ ClientInv(c) /\ TypeOK /\ step[c] # "off"
  BY StepNames DEF FedInv, ClientsInv, ServerInv
<1>1. s \in Threads /\ s[1] = c /\ runs[c] \in 1..Len(RunDocs[c]) /\ ThreadInv(s)
  BY <1>s, <1>0, UnderWay, SelfFacts DEF FedInv, ClientsInv
<1>2. /\ UNCHANGED <<up, issued, missing, sent>> /\ pc[s] = "replied"
      /\ pc' = [pc EXCEPT ![s] = "idle"] /\ reply' = [reply EXCEPT ![s] = NoReply]
      /\ who' = [who EXCEPT ![s] = NoClient]
  BY <1>s DEF Finish
<1>3. \A t \in Threads \ {s} : SameThread(t)
  BY <1>0, <1>1, <1>2 DEF SameThread, TypeOK
<1>4. \A e \in Clients \ {c} : SameClient(e)
  BY <1>0, <1>2 DEF SameClient, ClientTypes
<1>5. /\ step'[c] = q /\ pc'[s] = "idle" /\ server_key'[c] = k /\ local'[c] = L /\ linked'[c] = l
      /\ reply'[s] = NoReply
  BY <1>0, <1>1, <1>2 DEF ClientTypes, TypeOK
<1>6. ClientTypes'
  <2>1. q \in Steps /\ k \in Nat
    BY <1>0 DEF Steps, Ended, TypeOK
  <2> QED BY <1>0, <2>1 DEF ClientTypes
<1>7. Running(c)'
  BY <1>0, <1>1, <1>2, <1>5 DEF ClientInv, Running
<1>8. Sending(c)'
  <2>1. IdMapping(c)' = IdMapping(c)
    BY DEF IdMapping
  <2>2. \A r \in DOMAIN RunDocs[c] : r > runs[c] => RunDocs[c][r] \cap sent = {}
    BY <1>0 DEF ClientInv, Sending
  <2>3. q \in Before => IdMapping(c) \cap sent = {}
    BY <1>0 DEF ClientInv, Sending
  <2>4. q \in Kept => local[c] \subseteq IdMapping(c)
    BY <1>0 DEF ClientInv, Sending
  <2>5. q \in After => IdMapping(c) \cap sent = local[c]
    BY <1>0 DEF ClientInv, Sending, Before, After
  <2> QED BY <1>2, <1>5, <2>1, <2>2, <2>3, <2>4, <2>5 DEF Sending
<1>9. ThreadInv(s)'
  <2>1. issued[c] \in Nat
    BY <1>0 DEF TypeOK
  <2>2. Attending(s)'
    BY <1>1, <1>2, <1>5 DEF ThreadInv, Attending
  <2>3. Calculates(s)' /\ Telling(s)'
    BY <1>1, <1>2, <1>5, <2>1 DEF Calculates, InCalculation, Calculating, Telling, NoReply, Reply
  <2> QED BY <2>2, <2>3 DEF ThreadInv
<1>10. server_key'[c] <= issued[c] /\ q # "hello" /\ "idle" # "hello"
  BY <1>0, <1>5 DEF TypeOK
<1> QED
  <2>1. sent \subseteq sent' /\ \A d \in sent' \ sent : Owner[d] = c
    BY <1>2
  <2> HIDE DEF SameClient, SameThread
  <2> QED BY <1>s, <1>0, <1>2, <1>3, <1>4, <1>5, <1>6, <1>7, <1>8, <1>9, <1>10, <2>1, ActsKept

(* Sending a request, and waiting at step q for thread s at point p.        *)
Takes(c, q, p, w, r, S) ==
  /\ up = "up" /\ up' = up /\ UNCHANGED <<issued, runs, server_key, local, file>>
  /\ step' = [step EXCEPT ![c] = q] /\ linked' = [linked EXCEPT ![c] = TRUE]
  /\ pc[Self(c)] \in {"idle", "header"} /\ pc' = [pc EXCEPT ![Self(c)] = p]
  /\ who' = [who EXCEPT ![Self(c)] = w] /\ reply' = [reply EXCEPT ![Self(c)] = r]
  /\ missing' = missing \/ missing' = [missing EXCEPT ![Self(c)] = 0]
  /\ sent' = sent \cup S /\ S \subseteq IdMapping(c)
  /\ Serves(q, p) /\ q \in Awaiting \cup {"data"} /\ (p = "hello" <=> step[c] = "hello")
  /\ p = "replied" => Says(q, r.kind) /\ r.key = 0 /\ r.kind # "PARAMS"
  /\ p # "replied" => r = reply[Self(c)]
  /\ p \in {"hello", "get"} => w = c
  /\ p \notin Calculating /\ (p = "calculate" \/ q = "get_done" => c = Trigger)
  /\ q \in HasKey => step[c] \in HasKey
  /\ IF q \in Before THEN step[c] \in Before /\ S = {}
       ELSE q \in After => (step[c] \in After /\ S = {}) \/ (step[c] \in Kept /\ S = local[c])
  /\ q \in Kept => step[c] \in Kept

(* Sending a request keeps the invariant.                                   *)
LEMMA TakingKept ==
  ASSUME FedInv, NEW c \in Clients, step[c] # "off", NEW q, NEW p, NEW w, NEW r, NEW S,
         Takes(c, q, p, w, r, S), cut_off' = cut_off
  PROVE  ClientsInv'
<1> USE DEF Takes
<1>s. PICK s : s = Self(c)
  OBVIOUS
<1>0. ClientTypes /\ ClientInv(c) /\ TypeOK
  BY DEF FedInv, ClientsInv, ServerInv
<1>1. s \in Threads /\ s[1] = c /\ runs[c] \in 1..Len(RunDocs[c]) /\ ThreadInv(s)
  BY <1>s, <1>0, UnderWay, SelfFacts DEF FedInv, ClientsInv
<1>3. \A t \in Threads \ {s} : SameThread(t)
  BY <1>0, <1>1, <1>s DEF SameThread, TypeOK
<1>4. \A e \in Clients \ {c} : SameClient(e)
  BY <1>0 DEF SameClient, ClientTypes
<1>5. /\ step'[c] = q /\ pc'[s] = p /\ linked'[c] = TRUE /\ reply'[s] = r /\ who'[s] = w
      /\ missing'[s] = 0
  BY <1>s, <1>0, <1>1 DEF ClientTypes, TypeOK, ThreadInv, Attending
<1>6. ClientTypes'
  <2>1. q \in Steps
    BY DEF Steps
  <2> QED BY <1>0, <2>1 DEF ClientTypes
<1>7. Running(c)'
  <2>1. q # "calculate" /\ q # "off"
    BY StepNames
  <2> QED BY <1>0, <1>1, <1>5, <2>1 DEF ClientInv, Running
<1>8. IdMapping(c) \subseteq Docs /\ (\A d \in IdMapping(c) : Owner[d] = c) /\ IdMapping(c)' = IdMapping(c)
  BY <1>1, RunFacts DEF IdMapping
<1>9. Sending(c)'
  <2>1. \A n \in DOMAIN RunDocs[c] : n > runs[c] => RunDocs[c][n] \cap sent' = {}
    <3> SUFFICES ASSUME NEW n \in DOMAIN RunDocs[c], n > runs[c] PROVE RunDocs[c][n] \cap sent' = {}
      OBVIOUS
    <3>1. RunDocs[c][n] \cap sent = {}
      BY <1>0 DEF ClientInv, Sending
    <3>2. RunDocs[c][n] \cap IdMapping(c) = {}
      BY <1>1, RunFacts DEF IdMapping
    <3> QED BY <3>1, <3>2
  <2>2. q \in Before => IdMapping(c) \cap sent' = {}
    BY <1>0 DEF ClientInv, Sending
  <2>3. q \in Kept => local[c] \subseteq IdMapping(c)
    BY <1>0 DEF ClientInv, Sending
  <2>4. q \in After => IdMapping(c) \cap sent' = local[c]
    <3>1. CASE step[c] \in After /\ S = {}
      BY <1>0, <3>1 DEF ClientInv, Sending
    <3>2. CASE step[c] \in Kept /\ S = local[c]
      <4>1. IdMapping(c) \cap sent = {}
        BY <1>0, <3>2 DEF ClientInv, Sending, Kept, Before
      <4> QED BY <3>2, <4>1
    <3> QED BY <3>1, <3>2 DEF Before, After
  <2> QED BY <1>5, <1>8, <2>1, <2>2, <2>3, <2>4 DEF Sending
<1>10. ThreadInv(s)'
  <2>1. Self(c)' = s /\ Self(s[1])' = s
    BY <1>s, <1>1 DEF Self
  <2>2. issued[c] \in Nat /\ runs[c] \in Nat
    BY <1>0 DEF TypeOK, ClientTypes
  <2>3. q # "hello"
    BY StepNames
  <2>4. Attending(s)'
    <3>1. s[2] <= runs[c]
      BY <1>s, <2>2 DEF Self
    <3> QED BY <1>1, <1>5, <2>1, <2>3, <3>1 DEF Attending
  <2>5. Calculates(s)'
    BY <1>1, <1>5, <2>1 DEF Calculates, InCalculation, Connected
  <2>6. Telling(s)'
    BY <1>s, <1>1, <1>5, <2>2 DEF ThreadInv, Telling
  <2> QED BY <2>4, <2>5, <2>6 DEF ThreadInv
<1>11. server_key'[c] <= issued[c] /\ q # "hello" /\ (q \in HasKey => server_key'[c] >= 1)
  BY <1>0, StepNames DEF ClientInv, Keyed, HasKey
<1> QED
  <2>1. sent \subseteq sent' /\ \A d \in sent' \ sent : Owner[d] = c
    BY <1>8
  <2> QED BY <1>s, <1>3, <1>4, <1>5, <1>6, <1>7, <1>9, <1>10, <1>11, <2>1, ActsKept

-----------------------------------------------------------------------------
(* An order of the documents of a finite set lists each of them.            *)
LEMMA OrdersList ==
  ASSUME NEW S, IsFiniteSet(S), NEW ds \in Orders(S)
  PROVE  /\ Cardinality(S) \in Nat
         /\ ds \in [1..Cardinality(S) -> S]
         /\ \A i, j \in 1..Cardinality(S) : ds[i] = ds[j] => i = j
         /\ {ds[i] : i \in 1..Cardinality(S)} = S
<1> DEFINE n == Cardinality(S)
<1>1. n \in Nat
  BY FS_CardinalityType
<1>2. ds \in [1..n -> S] /\ \A i, j \in 1..n : ds[i] = ds[j] => i = j
  BY DEF Orders
<1>3. ds \in Injection(1..n, S)
  BY <1>2 DEF Injection, IsInjective
<1>4. Cardinality(1..n) = n
  BY <1>1, FS_Interval
<1>5. ds \in Surjection(1..n, S)
  BY <1>3, <1>4, FS_Injection
<1>6. {ds[i] : i \in 1..n} = S
  BY <1>2, <1>5 DEF Surjection
<1> QED BY <1>1, <1>2, <1>6

(* The block of a client is one that the environment of FedServer may send. *)
LEMMA BlockIsTaken ==
  ASSUME FedInv, NEW c \in Clients, SendData(c)
  PROVE  TakeBlock(Self(c)) /\ local[c] \subseteq IdMapping(c)
<1>0. ClientInv(c) /\ ClientTypes /\ TypeOK /\ step[c] = "data"
  BY DEF FedInv, ClientsInv, ServerInv, SendData
<1>1. runs[c] \in 1..Len(RunDocs[c])
  BY <1>0, UnderWay DEF FedInv
<1>2. /\ IdMapping(c) \subseteq Docs /\ IsFiniteSet(IdMapping(c))
      /\ Cardinality(IdMapping(c)) <= MaxBlock
      /\ \A d \in IdMapping(c) : Owner[d] = c
  BY <1>1, RunFacts DEF IdMapping
<1>3. local[c] \subseteq IdMapping(c) /\ IdMapping(c) \cap sent = {}
  BY <1>0 DEF ClientInv, Sending, Before, Kept
<1> DEFINE n == Cardinality(local[c])
           k == server_key[c]
<1>5. IsFiniteSet(local[c]) /\ n \in Nat /\ n <= MaxBlock
  BY <1>2, <1>3, FS_Subset, FS_CardinalityType, ConstantsAssumption
<1>6. k \in KeysHeld(c) /\ k \in 0..MaxKeys
  <2>1. k >= 1 /\ k <= issued[c] /\ k \in Nat /\ issued[c] \in Nat
    BY <1>0 DEF ClientInv, Keyed, ClientTypes, TypeOK
  <2>2. issued[c] <= MaxKeys /\ MaxKeys \in Nat
    <3>1. issued[c] <= Cardinality(Greeted(c)) /\ runs[c] \in Nat
      BY <1>0 DEF ClientInv, Keyed, ClientTypes
    <3>2. Cardinality(Greeted(c)) \in Nat /\ Cardinality(Greeted(c)) <= runs[c]
      BY <3>1, GreetedFinite
    <3>3. Len(RunDocs[c]) <= MaxKeys /\ Len(RunDocs[c]) \in Nat
      BY RoomAssumption, ThreadFacts
    <3> QED BY <1>1, <2>1, <3>1, <3>2, <3>3, ConstantsAssumption
  <2> QED BY <2>1, <2>2, FederationAssumption DEF KeysHeld
<1>7. PICK ds \in Orders(local[c]) :
        Take(Self(c), "block", NoClient, [i \in DOMAIN ds |-> [doc |-> ds[i], key |-> k]], 0)
  BY DEF SendData
<1>8. /\ ds \in [1..n -> local[c]]
      /\ \A i, j \in 1..n : ds[i] = ds[j] => i = j
      /\ {ds[i] : i \in 1..n} = local[c]
  BY <1>5, OrdersList
<1>9. sent' = sent \cup local[c]
  BY DEF SendData
<1> HIDE DEF n, k
<1>10. DOMAIN ds = 1..n
  BY <1>8
<1> DEFINE ks == [i \in 1..n |-> k]
<1>11. [i \in DOMAIN ds |-> [doc |-> ds[i], key |-> k]]
         = [i \in 1..n |-> [doc |-> ds[i], key |-> ks[i]]]
  BY <1>10
<1>12. ds \in [1..n -> Docs \ sent] /\ sent' = sent \cup {ds[i] : i \in 1..n}
  BY <1>2, <1>3, <1>8, <1>9
<1>13. n \in 0..MaxBlock /\ 0 \in 0..MaxMissing
  BY <1>5, ConstantsAssumption
<1>14. ks \in [1..n -> 0..MaxKeys] /\ \A i \in 1..n : ks[i] \in KeysHeld(Owner[ds[i]])
  BY <1>2, <1>3, <1>6, <1>8
<1>15. Take(Self(c), "block", NoClient, [i \in 1..n |-> [doc |-> ds[i], key |-> ks[i]]], 0)
  BY <1>7, <1>11
<1> HIDE DEF ks
<1>16. \E es \in [1..n -> Docs \ sent], js \in [1..n -> 0..MaxKeys] :
        /\ \A i, j \in 1..n : es[i] = es[j] => i = j
        /\ \A i \in 1..n : js[i] \in KeysHeld(Owner[es[i]])
        /\ Take(Self(c), "block", NoClient, [i \in 1..n |-> [doc |-> es[i], key |-> js[i]]], 0)
        /\ sent' = sent \cup {es[i] : i \in 1..n}
  BY <1>8, <1>12, <1>14, <1>15, Zenon
<1>17. TakeBlock(Self(c))
  BY <1>13, <1>16, Zenon DEF TakeBlock
<1> QED BY <1>3, <1>17

-----------------------------------------------------------------------------
(* Steps at which a client hears an answer.                                 *)
LEMMA HearsKept ==
  ASSUME FedInv, NEW c \in Clients, cut_off' = cut_off,
         \/ HearKey(c) \/ HearReady(c) \/ HearConfirmation(c) \/ HearDone(c)
         \/ HearRefusal(c) \/ HearTooMany(c) \/ HearResults(c)
  PROVE  ClientsInv'
<1> USE DEF Goto, Close
<1>0. ClientTypes /\ ClientInv(c) /\ TypeOK
  BY DEF FedInv, ClientsInv, ServerInv
<1>1. step[c] \in Awaiting /\ linked[c] /\ Finish(Self(c)) /\ runs' = runs
  BY StepNames DEF HearKey, HearReady, HearConfirmation, HearDone, HearRefusal, HearTooMany,
                   HearResults, Hear, Fail
<1>2. Self(c) \in Threads /\ runs[c] \in 1..Len(RunDocs[c]) /\ Self(c)[1] = c
  BY <1>1, StepNames, UnderWay, SelfFacts DEF FedInv
<1>3. local[c] \subseteq Docs /\ server_key[c] \in 0..issued[c] /\ linked[c] \in BOOLEAN
      /\ server_key = [server_key EXCEPT ![c] = server_key[c]]
      /\ local = [local EXCEPT ![c] = local[c]] /\ linked = [linked EXCEPT ![c] = linked[c]]
      /\ issued[c] \in Nat
  BY <1>0 DEF ClientTypes, TypeOK, ClientInv, Keyed
<1>k. PICK k, L, l, m : k = server_key[c] /\ L = local[c] /\ l = linked[c] /\ m = reply[Self(c)].key
  OBVIOUS
<1>4. CASE HearKey(c)
  <2>1. step[c] = "get_key" /\ step' = [step EXCEPT ![c] = "process"]
        /\ server_key' = [server_key EXCEPT ![c] = m]
        /\ linked' = [linked EXCEPT ![c] = FALSE] /\ UNCHANGED <<local, file>>
        /\ reply[Self(c)].kind = "PARAMS"
    BY <1>k, <1>4, StepNames DEF HearKey, Hear
  <2>2. m \in 0..issued[c] /\ m >= 1
    <3>1. ThreadInv(Self(c)) /\ reply[Self(c)].key \in Nat
      BY <1>0, <1>2 DEF FedInv, ClientsInv, TypeOK
    <3> QED BY <1>k, <1>2, <1>3, <2>1, <3>1 DEF ThreadInv, Telling
  <2>h. Hears(c, "process", m, L, FALSE)
    BY <1>k, <1>0, <1>1, <1>3, <2>1, <2>2, StepNames DEF Hears, ClientTypes, HasKey, Before, Kept, After
  <2> QED BY <2>h, HearingKept
<1>5. CASE HearReady(c)
  <2>1. step[c] = "get_ready" /\ step' = [step EXCEPT ![c] = "data_header"]
        /\ UNCHANGED <<server_key, local, linked, file>>
    BY <1>5 DEF HearReady, Hear
  <2>2. server_key[c] >= 1
    BY <1>0, <2>1 DEF ClientInv, Keyed
  <2>h. Hears(c, "data_header", k, L, l)
    BY <1>k, <1>0, <1>1, <1>3, <2>1, <2>2, StepNames DEF Hears, ClientTypes, HasKey, Before, Kept, After
  <2> QED BY <2>h, HearingKept
<1>6. CASE HearConfirmation(c) \/ HearDone(c)
  <2>1. PICK q \in {"calculate", "sleep", "fetch"} :
        /\ step[c] \in {"get_confirmation", "get_done"} /\ step' = [step EXCEPT ![c] = q]
        /\ q = "calculate" => c = Trigger
        /\ linked' = [linked EXCEPT ![c] = FALSE] /\ UNCHANGED <<server_key, local, file>>
    BY <1>6 DEF HearConfirmation, HearDone, Hear
  <2>h. Hears(c, q, k, L, FALSE)
    BY <1>k, <1>0, <1>1, <1>3, <2>1, StepNames DEF Hears, ClientTypes, HasKey, Before, Kept, After
  <2> QED BY <2>h, HearingKept
<1>7. CASE HearTooMany(c)
  <2>1. step[c] = "get_confirmation" /\ step' = [step EXCEPT ![c] = "read_again"]
        /\ UNCHANGED <<server_key, local, linked, file>>
    BY <1>7 DEF HearTooMany
  <2>h. Hears(c, "read_again", k, L, l)
    BY <1>k, <1>0, <1>1, <1>3, <2>1, StepNames DEF Hears, ClientTypes, HasKey, Before, Kept, After
  <2> QED BY <2>h, HearingKept
<1>8. CASE HearResults(c)
  <2>1. step[c] = "get_results" /\ step' = [step EXCEPT ![c] = "succeeded"]
        /\ linked' = [linked EXCEPT ![c] = FALSE] /\ UNCHANGED <<server_key, local>>
        /\ file' = [file EXCEPT ![c] = Heard(reply[Self(c)].ids) \cap IdMapping(c)]
    BY <1>8 DEF HearResults, Hear
  <2>2. IdMapping(c) \subseteq Docs
    BY <1>2, RunFacts DEF IdMapping
  <2>3. file' \in [Clients -> SUBSET Docs]
    BY <1>0, <2>1, <2>2 DEF ClientTypes
  <2>h. Hears(c, "succeeded", k, L, FALSE)
    BY <1>k, <1>0, <1>1, <1>3, <2>1, <2>3, StepNames DEF Hears, ClientTypes, HasKey, Before, Kept, After
  <2> QED BY <2>h, HearingKept
<1>9. CASE HearRefusal(c)
  <2>1. step' = [step EXCEPT ![c] = "failed"] /\ linked' = [linked EXCEPT ![c] = FALSE]
        /\ server_key' = [server_key EXCEPT ![c] = 0] /\ local' = [local EXCEPT ![c] = {}]
        /\ file' = file
    BY <1>9 DEF HearRefusal, Fail, Forget
  <2>2. 0 \in 0..issued[c]
    BY <1>3
  <2>h. Hears(c, "failed", 0, {}, FALSE)
    BY <1>0, <1>1, <2>1, <2>2, StepNames DEF Hears, ClientTypes, HasKey, Before, Kept, After
  <2> QED BY <2>h, HearingKept
<1> QED BY <1>4, <1>5, <1>6, <1>7, <1>8, <1>9

(* Steps at which it sends a request.                                       *)
LEMMA SendingKept ==
  ASSUME FedInv, NEW c \in Clients, cut_off' = cut_off,
         \/ SendHello(c) \/ SendCandidates(c) \/ SendDataHeader(c)
         \/ SendData(c) \/ SendCalculate(c) \/ SendGetResults(c)
  PROVE  ClientsInv'
<1> USE DEF Goto, Connect
<1>0. ClientTypes /\ ClientInv(c) /\ TypeOK /\ step[c] # "off"
  BY DEF FedInv, ClientsInv, ServerInv, SendHello, SendCandidates, SendDataHeader, SendData,
         SendCalculate, SendGetResults
<1>1. Self(c) \in Threads
  BY <1>0, UnderWay DEF FedInv
<1> DEFINE s == Self(c)
<1>2. reply = [reply EXCEPT ![s] = reply[s]] /\ who = [who EXCEPT ![s] = who[s]]
  BY <1>0, <1>1 DEF TypeOK
<1>k. PICK r, w : r = reply[s] /\ w = who[s]
  OBVIOUS
<1>3. sent' = sent => sent' = sent \cup {} /\ {} \subseteq IdMapping(c)
  OBVIOUS
<1>4. CASE SendHello(c)
  <2>1. /\ up = "up" /\ up' = up /\ UNCHANGED <<issued, runs, server_key, local, file, sent>>
        /\ step[c] = "hello" /\ step' = [step EXCEPT ![c] = "get_key"]
        /\ linked' = [linked EXCEPT ![c] = TRUE]
        /\ pc[s] \in {"idle", "header"} /\ pc' = [pc EXCEPT ![s] = "hello"]
        /\ who' = [who EXCEPT ![s] = c] /\ reply' = [reply EXCEPT ![s] = r]
        /\ missing' = [missing EXCEPT ![s] = 0]
    BY <1>k, <1>2, <1>4 DEF SendHello, Take
  <2>t. Takes(c, "get_key", "hello", c, r, {})
    BY <1>k, <1>0, <1>3, <2>1, StepNames DEF Takes, Serves, Storing, Calculating, HasKey, Before, Kept, After
  <2> QED BY <1>0, <2>t, TakingKept
<1>5. CASE SendCandidates(c)
  <2>1. /\ up = "up" /\ up' = up /\ UNCHANGED <<issued, runs, server_key, local, file, sent>>
        /\ step[c] = "candidates" /\ step' = [step EXCEPT ![c] = "get_ready"]
        /\ linked' = [linked EXCEPT ![c] = TRUE]
        /\ pc[s] \in {"idle", "header"} /\ pc' = [pc EXCEPT ![s] = "replied"]
        /\ who' = [who EXCEPT ![s] = w] /\ reply' = [reply EXCEPT ![s] = Reply("READY")]
        /\ missing' = missing
    BY <1>k, <1>2, <1>5, FederationAssumption DEF SendCandidates, AnswerCandidates, Answer
  <2>2. Says("get_ready", Reply("READY").kind) /\ Reply("READY").key = 0
        /\ Reply("READY").kind # "PARAMS"
    BY DEF Says, Reply
  <2>t. Takes(c, "get_ready", "replied", w, Reply("READY"), {})
    BY <1>k, <1>0, <1>3, <2>1, <2>2, StepNames DEF Takes, Serves, Storing, Calculating, HasKey, Before, Kept, After
  <2> QED BY <1>0, <2>t, TakingKept
<1>6. CASE SendDataHeader(c)
  <2>1. /\ up = "up" /\ up' = up /\ UNCHANGED <<issued, runs, server_key, local, file, sent>>
        /\ step[c] = "data_header" /\ step' = [step EXCEPT ![c] = "data"]
        /\ linked' = [linked EXCEPT ![c] = TRUE]
        /\ pc[s] \in {"idle", "header"} /\ pc' = [pc EXCEPT ![s] = "header"]
        /\ who' = [who EXCEPT ![s] = w] /\ reply' = [reply EXCEPT ![s] = r]
        /\ missing' = missing
    BY <1>k, <1>0, <1>2, <1>6 DEF SendDataHeader, HandleDataHeader, ClientTypes
  <2>t. Takes(c, "data", "header", w, r, {})
    BY <1>k, <1>0, <1>3, <2>1, StepNames DEF Takes, Serves, Storing, Calculating, HasKey, Before, Kept, After
  <2> QED BY <1>0, <2>t, TakingKept
<1>7. CASE SendData(c)
  <2>1. /\ up = "up" /\ up' = up /\ UNCHANGED <<issued, runs, server_key, local, file>>
        /\ step[c] = "data" /\ step' = [step EXCEPT ![c] = "get_confirmation"]
        /\ linked' = [linked EXCEPT ![c] = TRUE]
        /\ pc[s] \in {"idle", "header"} /\ pc' = [pc EXCEPT ![s] = "block"]
        /\ who' = [who EXCEPT ![s] = NoClient] /\ reply' = [reply EXCEPT ![s] = r]
        /\ missing' = [missing EXCEPT ![s] = 0]
        /\ sent' = sent \cup local[c]
    BY <1>k, <1>0, <1>2, <1>7 DEF SendData, Take, ClientTypes
  <2>2. PICK L : L = local[c]
    OBVIOUS
  <2>3. L \subseteq IdMapping(c) /\ sent' = sent \cup L
    BY <1>7, <2>1, <2>2, BlockIsTaken
  <2>t. Takes(c, "get_confirmation", "block", NoClient, r, L)
    BY <1>k, <1>0, <2>1, <2>2, <2>3, StepNames DEF Takes, Serves, Storing, Calculating, HasKey, Before, Kept, After
  <2> QED BY <1>0, <2>t, TakingKept
<1>8. CASE SendCalculate(c)
  <2>1. /\ up = "up" /\ up' = up /\ UNCHANGED <<issued, runs, server_key, local, file, sent>>
        /\ step[c] = "calculate" /\ step' = [step EXCEPT ![c] = "get_done"]
        /\ linked' = [linked EXCEPT ![c] = TRUE]
        /\ pc[s] \in {"idle", "header"} /\ pc' = [pc EXCEPT ![s] = "calculate"]
        /\ who' = [who EXCEPT ![s] = NoClient] /\ reply' = [reply EXCEPT ![s] = r]
        /\ missing' = [missing EXCEPT ![s] = 0]
    BY <1>k, <1>2, <1>8 DEF SendCalculate, Take
  <2>2. c = Trigger
    BY <1>0, <2>1 DEF ClientInv, Running
  <2>3. /\ {"get_done", "calculate"} \subseteq After
        /\ "get_done" \notin Before /\ "get_done" \notin Kept /\ "get_done" \notin HasKey
    BY DEF Before, Kept, After, HasKey
  <2>4. Serves("get_done", "calculate") /\ "calculate" \notin Calculating /\ "get_done" \in Awaiting
    BY StepNames DEF Serves, Calculating
  <2>5. sent' = sent \cup {} /\ {} \subseteq IdMapping(c) /\ step[c] \in After
        /\ step[c] # "hello"
    BY <2>1, <2>3
  <2>t. Takes(c, "get_done", "calculate", NoClient, r, {})
    BY <1>k, <1>0, <2>1, <2>2, <2>3, <2>4, <2>5 DEF Takes
  <2> QED BY <1>0, <2>t, TakingKept
<1>9. CASE SendGetResults(c)
  <2>1. /\ up = "up" /\ up' = up /\ UNCHANGED <<issued, runs, server_key, local, file, sent>>
        /\ step[c] = "fetch" /\ step' = [step EXCEPT ![c] = "get_results"]
        /\ linked' = [linked EXCEPT ![c] = TRUE]
        /\ pc[s] \in {"idle", "header"} /\ pc' = [pc EXCEPT ![s] = "get"]
        /\ who' = [who EXCEPT ![s] = c] /\ reply' = [reply EXCEPT ![s] = r]
        /\ missing' = [missing EXCEPT ![s] = 0]
    BY <1>k, <1>2, <1>9 DEF SendGetResults, Take
  <2>2. /\ {"get_results", "fetch"} \subseteq After
        /\ "get_results" \notin Before /\ "get_results" \notin Kept /\ "get_results" \notin HasKey
    BY DEF Before, Kept, After, HasKey
  <2>3. Serves("get_results", "get") /\ "get" \notin Calculating /\ "get_results" \in Awaiting
    BY StepNames DEF Serves, Calculating
  <2>4. sent' = sent \cup {} /\ {} \subseteq IdMapping(c) /\ step[c] \in After
        /\ step[c] # "hello"
    BY <2>1, <2>2
  <2>t. Takes(c, "get_results", "get", c, r, {})
    BY <1>k, <1>0, <2>1, <2>2, <2>3, <2>4 DEF Takes
  <2> QED BY <1>0, <2>t, TakingKept
<1> QED BY <1>4, <1>5, <1>6, <1>7, <1>8, <1>9

-----------------------------------------------------------------------------
(* The end of the server's process.                                         *)
LEMMA EndKept ==
  ASSUME FedInv, NEW how \in {"terminated", "killed"}, End(how), Links
  PROVE  ClientsInv'
<1>0. ClientTypes /\ TypeOK /\ UNCHANGED <<step, runs, server_key, local, file>>
  BY DEF Links, FedInv, ClientsInv, ServerInv
<1>1. /\ up' = how /\ UNCHANGED <<issued, sent>>
      /\ linked' = [c \in Clients |-> FALSE]
      /\ \A t \in Threads : pc'[t] = "idle" /\ missing'[t] = 0 /\ reply'[t] = NoReply
  BY DEF End, Links, Each
<1>2. ClientTypes'
  BY <1>0, <1>1 DEF ClientTypes
<1>3. ASSUME NEW e \in Clients PROVE ClientInv(e)'
  <2>1. ClientInv(e) /\ linked'[e] = FALSE /\ runs[e] \in Nat /\ issued[e] \in Nat
    BY <1>0, <1>1 DEF FedInv, ClientsInv, ClientTypes, TypeOK
  <2>2. \A r \in 1..runs[e] : <<e, r>> \in Threads
    <3>1. runs[e] <= Len(RunDocs[e]) /\ Len(RunDocs[e]) \in Nat
      BY <2>1, ThreadFacts DEF ClientInv, Running
    <3> QED BY <2>1, <3>1, ThreadFacts
  <2>3. Greeted(e) \subseteq Greeted(e)'
    BY <1>0, <1>1, <2>2 DEF Greeted
  <2>4. Keyed(e)'
    <3>1. issued[e] <= Cardinality(Greeted(e)) /\ runs'[e] \in Nat /\ issued'[e] = issued[e]
      BY <1>0, <1>1, <2>1 DEF ClientInv, Keyed
    <3>2. issued'[e] <= Cardinality(Greeted(e))'
      BY <2>1, <2>3, <3>1, GreetedGrows
    <3> QED BY <1>0, <2>1, <3>1, <3>2 DEF ClientInv, Keyed
  <2>5. Running(e)'
    BY <1>0, <2>1 DEF ClientInv, Running
  <2>6. IdMapping(e)' = IdMapping(e)
    BY <1>0 DEF IdMapping
  <2>7. Sending(e)'
    BY <1>0, <1>1, <2>1, <2>6 DEF ClientInv, Sending
  <2> QED BY <2>4, <2>5, <2>7 DEF ClientInv
<1>4. ASSUME NEW t \in Threads PROVE ThreadInv(t)'
  <2>1. t[1] \in Clients /\ issued'[t[1]] \in Nat
    BY <1>0, <1>1, ThreadFacts DEF TypeOK
  <2> QED BY <1>1, <2>1 DEF ThreadInv, Attending, Calculates, InCalculation, Calculating, Telling,
                            NoReply, Reply
<1> QED BY <1>2, <1>3, <1>4 DEF ClientsInv

(* A restarted server knows nothing the clients rely on.                    *)
LEMMA RestartKept ==
  ASSUME FedInv, Restart, Links
  PROVE  ClientsInv'
<1>0. ClientTypes /\ UNCHANGED <<step, runs, server_key, local, file, linked>>
  BY DEF Links, FedInv, ClientsInv, Restart
<1>1. UNCHANGED <<pc, who, reply, missing, issued, sent>> /\ up # "up" /\ up' = "up"
  BY DEF Restart
<1>2. ClientTypes'
  BY <1>0 DEF ClientTypes
<1>3. ASSUME NEW e \in Clients PROVE ClientInv(e)'
  BY <1>0, <1>1, ClientKept DEF SameClient
<1>4. ASSUME NEW t \in Threads PROVE ThreadInv(t)'
  <2>1. ThreadInv(t) /\ pc[t] = "idle"
    BY <1>1 DEF FedInv, ClientsInv, ThreadInv, Attending
  <2> QED BY <1>0, <1>1, <2>1 DEF ThreadInv, Attending, Calculates, InCalculation, Calculating,
                                  Telling
<1> QED BY <1>2, <1>3, <1>4 DEF ClientsInv

(* A thread that works for nobody, and comes to its end.                    *)
LEMMA LeaveKept ==
  ASSUME FedInv, NEW t \in Threads, Leave(t)
  PROVE  ClientsInv'
<1> DEFINE c == t[1]
<1>0. ClientTypes /\ TypeOK /\ ThreadInv(t) /\ c \in Clients /\ ClientInv(c)
  BY ThreadFacts DEF FedInv, ClientsInv, ServerInv
<1>1. /\ pc[t] \in {"header", "replied"} /\ pc' = [pc EXCEPT ![t] = "idle"]
      /\ UNCHANGED <<up, issued, missing, sent, step, runs, server_key, local, linked, file, cut_off>>
      /\ who' = who \/ who' = [who EXCEPT ![t] = NoClient]
      /\ reply' = reply \/ reply' = [reply EXCEPT ![t] = NoReply]
  BY DEF Leave, HangUp, Finish, client
<1>2. pc'[t] = "idle" /\ (reply'[t] = reply[t] \/ reply'[t] = NoReply)
  BY <1>0, <1>1 DEF TypeOK
<1>3. \A u \in Threads \ {t} : SameThread(u)
  <2>1. \A u \in Threads \ {t} : pc'[u] = pc[u]
    BY <1>0, <1>1 DEF TypeOK
  <2>2. \A u \in Threads \ {t} : who'[u] = who[u]
    BY <1>0, <1>1 DEF TypeOK
  <2>3. \A u \in Threads \ {t} : reply'[u] = reply[u]
    BY <1>0, <1>1 DEF TypeOK
  <2> QED BY <1>1, <2>1, <2>2, <2>3 DEF SameThread
<1>4. \A e \in Clients : SameClient(e) /\ issued[e] \in Nat /\ issued'[e] \in Nat
  BY <1>0, <1>1 DEF SameClient, TypeOK
<1>5. Frame(c, t)
  BY <1>0, <1>1, <1>3, <1>4 DEF Frame
<1>6. ClientTypes'
  BY <1>0, <1>1 DEF ClientTypes
<1>7. ClientInv(c)'
  <2>1. \A r \in 1..runs[c] : <<c, r>> \in Threads
    <3>1. runs[c] <= Len(RunDocs[c]) /\ Len(RunDocs[c]) \in Nat /\ runs[c] \in Nat
      BY <1>0, ThreadFacts DEF ClientInv, Running, ClientTypes
    <3> QED BY <1>0, <3>1, ThreadFacts
  <2>2. \A u \in Threads : pc'[u] = "hello" <=> pc[u] = "hello"
    BY <1>1, <1>2, <1>3 DEF SameThread
  <2>3. Greeted(c)' = Greeted(c)
    BY <1>1, <2>1, <2>2 DEF Greeted
  <2>4. IdMapping(c)' = IdMapping(c)
    BY <1>1 DEF IdMapping
  <2> QED BY <1>0, <1>1, <2>3, <2>4 DEF ClientInv, Keyed, Running, Sending
<1>8. ThreadInv(t)'
  BY <1>0, <1>1, <1>2, <1>4
     DEF ThreadInv, Attending, Calculates, InCalculation, Calculating, Telling, NoReply, Reply
<1> HIDE DEF c
<1> QED
  <2>1. t[1] = c
    BY DEF c
  <2> QED BY <1>0, <1>4, <1>5, <1>6, <1>7, <1>8, <2>1, FrameKept

(* A step of a handler.                                                     *)
LEMMA ServeKept ==
  ASSUME FedInv, NEW t \in Threads, Handler(t), Links, ~End("terminated")
  PROVE  ClientsInv'
<1> DEFINE c == t[1]
<1>0. ClientTypes /\ TypeOK /\ ThreadInv(t) /\ c \in Clients /\ ClientInv(c) /\ t[2] \in Nat /\ t[2] >= 1
      /\ t = <<c, t[2]>>
  BY ThreadFacts DEF FedInv, ClientsInv, ServerInv
<1>1. PICK p, r : Moves(t, p, r)
  BY <1>0, HandlerMoves
<1>2. pc[t] # "idle"
  BY <1>1 DEF Moves, Move, Storing, Calculating
<1>3. up = "up" /\ t[2] <= runs[c] /\ (Connected(t) => Serves(step[c], pc[t]))
  BY <1>0, <1>2 DEF ThreadInv, Attending
<1>4. /\ UNCHANGED <<up, who, sent, step, runs, server_key, local, file, linked>>
      /\ pc' = [pc EXCEPT ![t] = p] /\ reply' = [reply EXCEPT ![t] = r] /\ Move(t, p, r)
      /\ missing' = missing \/ missing' = [missing EXCEPT ![t] = 0]
  BY <1>1, <1>3 DEF Links, Moves
<1>5. cut_off' <=> cut_off
  BY <1>3, <1>4 DEF Links
<1>6. /\ pc[t] \in {"hello", "get"} => who[t] = c
      /\ missing[t] = 0 /\ c \in Registered
  BY <1>0, FederationAssumption DEF ThreadInv, Attending
<1>7. /\ pc[t] # "hello" => issued' = issued
      /\ pc[t] = "hello" => issued' = [issued EXCEPT ![c] = @ + 1]
  BY <1>4, <1>6 DEF Move, Storing, Calculating
<1>8. pc'[t] = p /\ reply'[t] = r /\ missing'[t] = 0
  BY <1>0, <1>4, <1>6 DEF TypeOK
<1>9. \A u \in Threads \ {t} : SameThread(u)
  <2>1. \A u \in Threads \ {t} : pc'[u] = pc[u] /\ reply'[u] = reply[u]
    BY <1>0, <1>4 DEF TypeOK
  <2>2. \A u \in Threads \ {t} : missing'[u] = missing[u]
    BY <1>0, <1>4 DEF TypeOK
  <2> QED BY <1>4, <2>1, <2>2 DEF SameThread
<1>10. /\ \A e \in Clients \ {c} : SameClient(e)
       /\ issued[c] \in Nat /\ issued'[c] = IF pc[t] = "hello" THEN issued[c] + 1 ELSE issued[c]
       /\ \A e \in Clients : issued'[e] \in Nat
  BY <1>0, <1>4, <1>7 DEF SameClient, TypeOK
<1>11. Frame(c, t)
  BY <1>0, <1>3, <1>4, <1>5, <1>9, <1>10 DEF Frame
<1>12. ClientTypes'
  BY <1>0, <1>4 DEF ClientTypes
<1>13. p \notin {"hello", "get", "idle"} /\ (p \in Calculating => InCalculation(t))
  BY <1>4 DEF Move, Storing, Calculating, InCalculation
<1>14. ClientInv(c)'
  <2>1. runs[c] \in Nat /\ runs[c] <= Len(RunDocs[c]) /\ Len(RunDocs[c]) \in Nat
    BY <1>0, ThreadFacts DEF ClientInv, Running, ClientTypes
  <2>2. \A n \in 1..runs[c] : <<c, n>> \in Threads
    BY <1>0, <2>1, ThreadFacts
  <2>3. \A u \in Threads : pc'[u] = "hello" => pc[u] = "hello" /\ u # t
    BY <1>8, <1>9, <1>13 DEF SameThread
  <2>4. Greeted(c) \subseteq Greeted(c)'
    BY <1>4, <2>2, <2>3 DEF Greeted
  <2>5. issued'[c] <= Cardinality(Greeted(c))'
    <3>1. CASE pc[t] # "hello"
      <4>1. issued'[c] = issued[c] /\ issued[c] <= Cardinality(Greeted(c)) /\ runs'[c] \in Nat
        BY <1>0, <1>4, <1>10, <2>1, <3>1 DEF ClientInv, Keyed
      <4> HIDE DEF c
      <4> QED BY <1>0, <1>10, <2>1, <2>4, <4>1, GreetedGrows
    <3>2. CASE pc[t] = "hello"
      <4>1. t[2] \notin Greeted(c)
        BY <1>0, <3>2 DEF Greeted
      <4>2. ~(t[2] = runs[c] /\ step[c] = "hello")
        BY <1>0, <1>2 DEF ThreadInv, Attending, Self
      <4>3. t[2] \in Greeted(c)'
        BY <1>0, <1>3, <1>4, <1>8, <1>13, <2>1, <4>2 DEF Greeted
      <4>4. IsFiniteSet(Greeted(c)) /\ Cardinality(Greeted(c)) \in Nat
        <5> HIDE DEF c
        <5> QED BY <1>0, <2>1, GreetedFinite
      <4>5. /\ IsFiniteSet(Greeted(c) \cup {t[2]})
            /\ Cardinality(Greeted(c) \cup {t[2]}) = Cardinality(Greeted(c)) + 1
        BY <4>1, <4>4, FS_AddElement
      <4>6. IsFiniteSet(Greeted(c)')
        <5>1. IsFiniteSet(1..runs[c])
          BY <2>1, FS_Interval
        <5>2. Greeted(c)' \subseteq 1..runs[c]
          BY <1>4 DEF Greeted
        <5> QED BY <5>1, <5>2, FS_Subset
      <4>7. Greeted(c) \cup {t[2]} \subseteq Greeted(c)'
        BY <2>4, <4>3
      <4>8. /\ Cardinality(Greeted(c) \cup {t[2]}) <= Cardinality(Greeted(c)')
            /\ Cardinality(Greeted(c)') \in Nat
        BY <4>6, <4>7, FS_Subset, FS_CardinalityType
      <4>9. issued[c] <= Cardinality(Greeted(c)) /\ issued'[c] = issued[c] + 1
        BY <1>0, <1>10, <3>2 DEF ClientInv, Keyed
      <4> QED BY <1>10, <4>4, <4>5, <4>8, <4>9
    <3> QED BY <3>1, <3>2
  <2>6. server_key[c] \in Nat /\ server_key[c] <= issued'[c]
    BY <1>0, <1>10 DEF ClientTypes, ClientInv, Keyed
  <2>7. Keyed(c)'
    BY <1>0, <1>4, <2>5, <2>6 DEF ClientInv, Keyed
  <2>8. Running(c)' /\ Sending(c)'
    <3>1. IdMapping(c)' = IdMapping(c)
      BY <1>4 DEF IdMapping
    <3> QED BY <1>0, <1>4, <3>1 DEF ClientInv, Running, Sending
  <2> QED BY <2>7, <2>8 DEF ClientInv
<1>15. Connected(t)' <=> Connected(t)
  BY <1>4 DEF Connected, Self
<1>16. Connected(t) => Serves(step[c], p) /\ (p = "replied" => Says(step[c], r.kind))
  <2> SUFFICES ASSUME Serves(step[c], pc[t])
               PROVE  Serves(step[c], p) /\ (p = "replied" => Says(step[c], r.kind))
    BY <1>3
  <2>1. CASE pc[t] = "hello"
    BY <1>4, <1>6, <2>1 DEF Serves, Says, Move, Storing, Calculating, Told, Reply
  <2>2. CASE pc[t] \in {"block"} \cup Storing
    <3>1. step[c] = "get_confirmation"
      BY <2>2 DEF Serves, Storing, Calculating
    <3>2. \/ p \in Storing
          \/ p = "replied" /\ r \in {Reply("TOO_MANY_CANDIDATES"), Reply("CANDIDATES_RECEIVED")}
      BY <1>4, <2>2 DEF Move, Storing, Calculating
    <3> QED BY <3>1, <3>2 DEF Serves, Says, Storing, Reply
  <2>3. CASE pc[t] \in {"calculate"} \cup Calculating
    <3>1. step[c] = "get_done"
      BY <2>3 DEF Serves, Storing, Calculating
    <3>2. \/ p \in Calculating
          \/ p = "replied" /\ r \in {Reply("NO_CANDIDATES"), Reply("CALCULATION_DONE")}
      BY <1>4, <2>3 DEF Move, Storing, Calculating
    <3> QED BY <3>1, <3>2 DEF Serves, Says, Calculating, Reply
  <2>4. CASE pc[t] = "get"
    <3>1. step[c] = "get_results"
      BY <2>4 DEF Serves, Storing, Calculating
    <3>2. p = "replied" /\ r = Listed(duplicate_docs[c])
      BY <1>4, <1>6, <2>4 DEF Move, Storing, Calculating
    <3> QED BY <3>1, <3>2 DEF Serves, Says, Listed, Reply
  <2> QED BY <1>4, <2>1, <2>2, <2>3, <2>4 DEF Move
<1>17. r.key <= issued'[c] /\ (r.kind = "PARAMS" => r.key >= 1)
  <2>1. r = reply[t] \/ r = Told(issued[c] + 1) \/ r = Listed(duplicate_docs[who[t]])
        \/ r \in {Reply("UNAUTHORIZED"), Reply("TOO_MANY_CANDIDATES"), Reply("CANDIDATES_RECEIVED"),
                  Reply("NO_CANDIDATES"), Reply("CALCULATION_DONE")}
    BY <1>4, <1>6 DEF Move
  <2>2. CASE r = reply[t]
    <3>1. reply[t].key \in Nat /\ reply[t].key <= issued[c]
          /\ (reply[t].kind = "PARAMS" => reply[t].key >= 1)
      BY <1>0 DEF TypeOK, ThreadInv, Telling
    <3> QED BY <1>10, <2>2, <3>1
  <2>3. CASE r = Told(issued[c] + 1)
    <3>1. pc[t] = "hello" \/ r = reply[t] \/ r.kind # "PARAMS"
      BY <1>4 DEF Move, Listed, Reply
    <3>2. r.key = issued[c] + 1 /\ r.kind = "PARAMS"
      BY <2>3 DEF Told, Reply
    <3> QED BY <1>10, <2>2, <3>1, <3>2
  <2>4. CASE r # reply[t] /\ r # Told(issued[c] + 1)
    <3>1. r.key = 0 /\ r.kind # "PARAMS"
      BY <2>1, <2>4 DEF Listed, Reply
    <3> QED BY <1>10, <3>1
  <2> QED BY <2>2, <2>3, <2>4
<1>18. ThreadInv(t)'
  <2>1. Attending(t)'
    BY <1>0, <1>2, <1>3, <1>4, <1>8, <1>13, <1>15, <1>16 DEF ThreadInv, Attending, Self
  <2>2. Calculates(t)'
    BY <1>0, <1>5, <1>8, <1>13, <1>15, <1>4 DEF ThreadInv, Calculates, InCalculation, Move, Storing,
                                                Calculating
  <2>3. Telling(t)'
    BY <1>8, <1>17 DEF Telling
  <2> QED BY <2>1, <2>2, <2>3 DEF ThreadInv
<1> HIDE DEF c
<1> QED
  <2>1. t[1] = c
    BY DEF c
  <2> QED BY <1>0, <1>10, <1>11, <1>12, <1>14, <1>18, <2>1, FrameKept

-----------------------------------------------------------------------------
(* Every step of the federation keeps what is said of the clients.          *)
LEMMA StutterKept ==
  ASSUME FedInv, UNCHANGED allvars
  PROVE  ClientsInv'
<1>1. ClientTypes' /\ UNCHANGED <<up, pc, who, reply, missing, issued, sent, step, runs, linked, cut_off,
                                  server_key, local>>
  BY DEF FedInv, ClientsInv, ClientTypes, allvars, vars, client, history
<1>2. ASSUME NEW e \in Clients PROVE ClientInv(e)'
  BY <1>1, ClientKept DEF SameClient
<1>3. ASSUME NEW t \in Threads PROVE ThreadInv(t)'
  <2>1. t[1] \in Clients /\ issued'[t[1]] \in Nat /\ issued[t[1]] \in Nat
    BY <1>1, ThreadFacts DEF FedInv, ServerInv, TypeOK
  <2> QED BY <1>1, <2>1, ThreadKept DEF SameThread
<1> QED BY <1>1, <1>2, <1>3 DEF ClientsInv

(* A client's own steps.                                                    *)
LEMMA AdvanceKept ==
  ASSUME FedInv, NEW c \in Clients, Advance(c), cut_off' = cut_off
  PROVE  ClientsInv'
<1>0. ClientInv(c)
  BY DEF FedInv, ClientsInv
<1>1. CASE ConnectFails(c) \/ ConnectionLost(c)
  <2>1. step[c] # "off" /\ Fail(c) /\ UNCHANGED vars
    BY <1>1, StepNames DEF ConnectFails, ConnectionLost
  <2>2. ~linked[c]
    BY <1>0, <1>1 DEF ConnectFails, ConnectionLost, ClientInv, Running
  <2>3. ~Connected(Self(c))
    BY <2>2 DEF Connected, Self
  <2> QED BY <2>1, <2>3, FailKept
<1>2. CASE ProcessFails(c)
  <2>1. step[c] = "process" /\ Fail(c) /\ UNCHANGED vars
    BY <1>2 DEF ProcessFails
  <2>2. Self(c) \in Threads /\ Self(c)[1] = c
    BY <2>1, UnderWay, SelfFacts DEF FedInv
  <2>3. Connected(Self(c)) => pc[Self(c)] = "idle"
    BY <2>1, <2>2, Unattended, StepNames
  <2>4. ~(Connected(Self(c)) /\ InCalculation(Self(c)))
    BY <2>3 DEF InCalculation, Calculating
  <2> QED BY <2>1, <2>4, FailKept
<1> QED BY <1>1, <1>2, AloneKept, HearsKept, SendingKept DEF Advance

(* A client that is cut off or killed.                                      *)
LEMMA ClientFaultsKept ==
  ASSUME FedInv, NEW c \in Clients, CutOff(c) \/ Abort(c),
         cut_off' = (cut_off \/ (c = Trigger /\ linked[c] /\ InCalculation(Self(c))))
  PROVE  ClientsInv'
<1>1. ASSUME Self(c) \in Threads, Connected(Self(c)), InCalculation(Self(c)) PROVE cut_off'
  <2>1. Self(c)[1] = c
    BY SelfFacts
  <2>2. c = Trigger /\ linked[c]
    BY <1>1, <2>1 DEF FedInv, ClientsInv, ThreadInv, Calculates, Connected
  <2> QED BY <1>1, <2>2
<1>2. CASE CutOff(c)
  BY <1>1, <1>2, CutKept
<1>3. CASE Abort(c)
  <2>1. step[c] # "off" /\ Fail(c) /\ UNCHANGED vars
    BY <1>3 DEF Abort, Ended
  <2>2. Self(c) \in Threads
    BY <2>1, UnderWay DEF FedInv
  <2> QED BY <1>1, <2>1, <2>2, FailKept
<1> QED BY <1>2, <1>3

(* All steps together.                                                      *)
LEMMA ClientsNext == FedInv /\ [FederationNext]_allvars => ClientsInv'
<1> SUFFICES ASSUME FedInv, [FederationNext]_allvars PROVE ClientsInv'
  OBVIOUS
<1>1. CASE UNCHANGED allvars
  BY <1>1, StutterKept
<1>2. ASSUME NEW c \in Clients, ByHand(c) \/ ByItself(c) PROVE ClientsInv'
  BY <1>2, StartKept, AdvanceKept, AloneKept DEF ByHand, ByItself, Sleeps, history
<1>3. ASSUME NEW t \in Threads, Serving(t) PROVE ClientsInv'
  BY <1>3, LeaveKept, ServeKept, EndKept DEF Serving, Serve
<1>4. CASE ServerFaults
  BY <1>4, EndKept, RestartKept DEF ServerFaults, Kill
<1>5. CASE ClientFaults
  BY <1>5, ClientFaultsKept DEF ClientFaults
<1> QED BY <1>1, <1>2, <1>3, <1>4, <1>5 DEF FederationNext, GoesOn, Broken

-----------------------------------------------------------------------------
(* Each step of the federation is a step of the server or none: requests    *)
(* are the environment's, the rest of a client's run is its own affair.     *)
LEMMA ServerStep == FedInv /\ [FederationNext]_allvars => [Next]_vars
<1> SUFFICES ASSUME FedInv, [FederationNext]_allvars PROVE [Next]_vars
  OBVIOUS
<1>1. CASE UNCHANGED allvars
  BY <1>1 DEF allvars, vars
<1>2. CASE Broken
  BY <1>2 DEF Broken, ServerFaults, ClientFaults, CutOff, Abort, Next
<1>3. ASSUME NEW t \in Threads, Serving(t) PROVE [Next]_vars
  BY <1>3 DEF Serving, Serve, Leave, Next, Request
<1>4. ASSUME NEW c \in Clients, ByHand(c) \/ ByItself(c) PROVE [Next]_vars
  <2>0. ClientInv(c) /\ ClientTypes
    BY DEF FedInv, ClientsInv
  <2>1. CASE \/ ConnectFails(c) \/ ConnectionLost(c) \/ ProcessLocally(c) \/ ProcessFails(c)
             \/ Start(c) \/ Wake(c)
    BY <2>1 DEF ConnectFails, ConnectionLost, ProcessLocally, ProcessFails, Start, Wake, vars
  <2> SUFFICES ASSUME Advance(c), step[c] # "off" PROVE [Next]_vars
    BY <1>4, <2>1, StepNames
       DEF ByHand, ByItself, Sleeps, Advance, HearKey, HearReady, HearConfirmation, HearDone,
           HearRefusal, HearTooMany, HearResults, Hear, SendHello, SendCandidates,
           SendDataHeader, SendData, SendCalculate, SendGetResults
  <2>2. Self(c) \in Threads /\ runs[c] \in 1..Len(RunDocs[c])
    BY UnderWay DEF FedInv
  <2>3. CASE \/ HearKey(c) \/ HearReady(c) \/ HearConfirmation(c) \/ HearDone(c)
             \/ HearRefusal(c) \/ HearTooMany(c) \/ HearResults(c)
    <3>1. Finish(Self(c))
      BY <2>3 DEF HearKey, HearReady, HearConfirmation, HearDone, HearRefusal, HearTooMany,
                  HearResults, Hear
    <3> QED BY <2>2, <3>1 DEF Next
  <2>4. CASE SendHello(c)
    <3>1. issued[c] < MaxKeys
      <4>1. runs[c] \notin Greeted(c)
        BY <2>4 DEF SendHello, Greeted
      <4>2. Cardinality(Greeted(c)) \in Nat /\ Cardinality(Greeted(c)) < runs[c]
        BY <2>2, <4>1, GreetedFinite
      <4>3. issued[c] <= Cardinality(Greeted(c)) /\ Len(RunDocs[c]) <= MaxKeys
        BY <2>0, RoomAssumption DEF ClientInv, Keyed
      <4>4. issued[c] \in Nat /\ Len(RunDocs[c]) \in Nat /\ MaxKeys \in Nat
        BY ThreadFacts, ConstantsAssumption DEF FedInv, ServerInv, TypeOK
      <4> QED BY <2>2, <4>2, <4>3, <4>4
    <3>2. TakeHello(Self(c))
      BY <2>4, <3>1 DEF SendHello, TakeHello
    <3> QED BY <2>2, <3>2 DEF Next, Request
  <2>5. CASE SendCandidates(c)
    BY <2>2, <2>5 DEF SendCandidates, HandleCandidates, Next, Request
  <2>6. CASE SendDataHeader(c)
    BY <2>2, <2>6 DEF SendDataHeader, Next, Request
  <2>7. CASE SendData(c)
    BY <2>2, <2>7, BlockIsTaken DEF Next, Request
  <2>8. CASE SendCalculate(c)
    BY <2>2, <2>8 DEF SendCalculate, TakeCalculate, Next, Request
  <2>9. CASE SendGetResults(c)
    BY <2>2, <2>9 DEF SendGetResults, TakeGetResults, Next, Request
  <2> QED BY <2>1, <2>3, <2>4, <2>5, <2>6, <2>7, <2>8, <2>9 DEF Advance
<1> QED BY <1>1, <1>2, <1>3, <1>4 DEF FederationNext, GoesOn

(* Only the thread of client2 calculates, until it is cut off.              *)
LEMMA OneCalculates == FedInv /\ ~cut_off => OneCalculator
<1> SUFFICES ASSUME FedInv, ~cut_off, NEW t \in Threads, InCalculation(t) PROVE t = Self(Trigger)
  BY DEF OneCalculator, InCalculation
<1> QED BY DEF FedInv, ClientsInv, ThreadInv, Calculates, Connected

(* The same of the next state.                                              *)
LEMMA OneCalculatesNext == FedInv' /\ ~cut_off' => OneCalculator'
  BY OneCalculates, PTL

(* The invariant holds at the start and is kept.                            *)
LEMMA FedInit == FederationInit => FedInv
<1> SUFFICES ASSUME FederationInit PROVE FedInv
  OBVIOUS
<1>1. Init
  BY DEF FederationInit
<1>2. Sorted /\ Paired
  BY <1>1 DEF Init, Sorted, Paired, Each
<1>3. ServerInv
  BY <1>1, <1>2, InitType, FreshInit DEF ServerInv
<1>4. ClientTypes
  BY DEF FederationInit, ClientTypes, Steps, Ended
<1>5. ASSUME NEW c \in Clients PROVE ClientInv(c)
  <2>1. step[c] = "off" /\ linked[c] = FALSE /\ runs[c] = 0 /\ server_key[c] = 0
        /\ issued[c] = 0 /\ sent = {}
    BY <1>1 DEF FederationInit, Init, Each
  <2>2. Len(RunDocs[c]) \in Nat /\ Cardinality(Greeted(c)) \in Nat
    BY <2>1, ThreadFacts, GreetedFinite
  <2>3. Keyed(c) /\ Running(c)
    BY <2>1, <2>2 DEF Keyed, Running
  <2>4. Sending(c)
    BY <2>1 DEF Sending, Before, Kept, After
  <2> QED BY <2>3, <2>4 DEF ClientInv
<1>6. ASSUME NEW t \in Threads PROVE ThreadInv(t)
  <2>1. t[1] \in Clients
    BY ThreadFacts
  <2>2. pc[t] = "idle" /\ missing[t] = 0 /\ reply[t] = NoReply /\ issued[t[1]] = 0
    BY <1>1, <2>1 DEF Init, Each
  <2> QED BY <2>2 DEF ThreadInv, Attending, Calculates, InCalculation, Calculating, Telling,
                      NoReply, Reply
<1> QED BY <1>3, <1>4, <1>5, <1>6 DEF FedInv, ClientsInv

(* Every step keeps it, and is a step of the server.                        *)
LEMMA FedNext == FedInv /\ [FederationNext]_allvars => FedInv' /\ [Next]_vars
<1> SUFFICES ASSUME FedInv, [FederationNext]_allvars PROVE FedInv' /\ [Next]_vars
  OBVIOUS
<1>1. [Next]_vars
  BY ServerStep
<1>2. ServerInv'
  BY <1>1, NextType, FreshNext, SortedPairedNext DEF FedInv, ServerInv
<1> QED BY <1>1, <1>2, ClientsNext DEF FedInv

(* So it always holds.                                                      *)
LEMMA FedInductive == FederationSpec => []FedInv
  BY FedInit, FedNext, PTL DEF FederationSpec

-----------------------------------------------------------------------------
(* To the server the clients of the repository together are an environment  *)
(* that FedServer allows, although each of them runs by itself, is refused, *)
(* killed or cut off with its thread at work, and is started again: no key  *)
(* is asked for beyond the bound, no candidate sent twice, or under a key   *)
(* that its client was not given.  What holds of every run of the server    *)
(* holds of the federation.                                                 *)
THEOREM ClientsServed == FederationSpec => Spec
<1>1. FederationInit => Init
  BY DEF FederationInit
<1> QED BY <1>1, FedInit, FedNext, PTL DEF FederationSpec, Spec

-----------------------------------------------------------------------------
(* Only a new process has forgotten that a client2 was cut off.             *)
LEMMA Forgets ==
  ASSUME FedInv, FederationNext, cut_off, ~cut_off'
  PROVE  \E how \in {"terminated", "killed"} : End(how)
<1>1. ASSUME NEW c \in Clients PROVE ~ByHand(c) /\ ~ByItself(c)
  BY DEF ByHand, ByItself, Sleeps, history
<1>2. ~ClientFaults
  BY DEF ClientFaults
<1>3. CASE ServerFaults
  <2>1. CASE Kill
    BY <2>1 DEF Kill
  <2>2. CASE Restart
    BY <1>3, <2>2 DEF ServerFaults, Links, Restart
  <2> QED BY <1>3, <2>1, <2>2 DEF ServerFaults
<1>4. ASSUME NEW t \in Threads, Serving(t) PROVE End("terminated")
  <2>1. Handler(t) /\ Links
    BY <1>4 DEF Serving, Serve, Leave
  <2>2. up' # "up"
    BY <2>1 DEF Links
  <2>3. pc[t] # "idle"
    BY <2>1, HandlerAt DEF Storing, Calculating
  <2>4. up = "up"
    BY <2>3 DEF FedInv, ClientsInv, ThreadInv, Attending
  <2> QED BY <2>1, <2>2, <2>4, HandlerAt
<1> QED BY <1>1, <1>2, <1>3, <1>4 DEF FederationNext, GoesOn, Broken

(* While no client2 was cut off, one calculation runs, and leaves no lone   *)
(* result; a new process has no result at all.                              *)
LEMMA PairedNext ==
  FedInv /\ FedInv' /\ (cut_off \/ LoneInv) /\ [FederationNext]_allvars => (cut_off \/ LoneInv)'
<1> SUFFICES ASSUME FedInv, FedInv', cut_off \/ LoneInv, [FederationNext]_allvars, ~cut_off'
             PROVE  LoneInv'
  OBVIOUS
<1>1. TypeOK /\ Sorted /\ Paired
  BY DEF FedInv, ServerInv
<1>2. OneCalculator' /\ [Next]_vars
  BY OneCalculatesNext, FedNext
<1>3. CASE ~cut_off
  BY <1>1, <1>2, <1>3, LoneNext
<1>4. CASE cut_off
  <2>1. FederationNext
    BY <1>4 DEF allvars, history
  <2>2. PICK how \in {"terminated", "killed"} : End(how)
    BY <1>4, <2>1, Forgets
  <2> QED BY <2>2, LoneEnd
<1> QED BY <1>3, <1>4

(* Hence each recorded duplicate has its partner, whichever clients fail,   *)
(* are cut off, killed and run again, as long as the server process has not *)
(* gone on calculating for a client2 that had gone.                         *)
THEOREM FederationHasWitnesses == FederationSpec => []ResultsPaired
<1>1. FederationInit => cut_off \/ LoneInv
  BY DEF FederationInit, Init, LoneInv, NoLoneResult, HalfRecorded, OneCalculator, Recorded, Each,
         Calculating
<1>2. FedInv /\ (cut_off \/ LoneInv) => ResultsPaired
  BY DEF ResultsPaired, LoneInv
<1> QED BY <1>1, <1>2, FedInit, FedNext, PairedNext, PTL DEF FederationSpec

-----------------------------------------------------------------------------
(* The type invariant of the clients.                                       *)
HistoryKnown == in_order \in BOOLEAN /\ cut_off \in BOOLEAN /\ lost \in 0..MaxLost
(* The histories have their types.                                          *)
LEMMA HistoryTyped == HistoryKnown /\ [FederationNext]_allvars => HistoryKnown'
<1> SUFFICES ASSUME HistoryKnown, [FederationNext]_allvars PROVE HistoryKnown'
  OBVIOUS
<1>1. MaxLost \in Nat
  BY FederationAssumption
<1>2. in_order' \in BOOLEAN
  BY DEF HistoryKnown, FederationNext, GoesOn, ByHand, ByItself, Sleeps, Serving, Broken, allvars, history
<1>3. cut_off' \in BOOLEAN
  BY DEF HistoryKnown, FederationNext, GoesOn, ByHand, ByItself, Sleeps, Serving, Serve, Leave,
         Broken, ServerFaults, ClientFaults, Links, allvars, history
<1>4. lost' \in 0..MaxLost
  BY <1>1
     DEF HistoryKnown, FederationNext, GoesOn, ByHand, ByItself, Sleeps, Serving, Serve, Leave,
         Broken, ServerFaults, ClientFaults, Links, allvars, history
<1> QED BY <1>2, <1>3, <1>4 DEF HistoryKnown

(* No client has a key that the server has not generated for it, or more    *)
(* runs than were started, whatever is lost, refused, killed or restarted.  *)
THEOREM FederationTypes == FederationSpec => []FederationTypeOK
<1>1. FederationInit => HistoryKnown
  <2> SUFFICES ASSUME FederationInit PROVE HistoryKnown
    OBVIOUS
  <2>1. MaxLost \in Nat
    BY FederationAssumption
  <2>2. in_order = TRUE /\ cut_off = FALSE /\ lost = 0
    BY DEF FederationInit
  <2>3. 0 \in 0..MaxLost
    BY <2>1
  <2> QED BY <2>2, <2>3 DEF HistoryKnown
<1>2. FedInv /\ HistoryKnown => FederationTypeOK
  <2> SUFFICES ASSUME FedInv, HistoryKnown PROVE FederationTypeOK
    OBVIOUS
  <2>1. ClientTypes /\ TypeOK
    BY DEF FedInv, ClientsInv, ServerInv
  <2>2. ASSUME NEW c \in Clients
        PROVE  runs[c] \in 0..Len(RunDocs[c]) /\ server_key[c] \in 0..issued[c]
    <3>1. runs[c] <= Len(RunDocs[c]) /\ server_key[c] <= issued[c]
      BY DEF FedInv, ClientsInv, ClientInv, Running, Keyed
    <3>2. runs[c] \in Nat /\ server_key[c] \in Nat /\ issued[c] \in Nat /\ Len(RunDocs[c]) \in Nat
      BY <2>1, ThreadFacts DEF ClientTypes, TypeOK
    <3> QED BY <3>1, <3>2
  <2> QED BY <2>1, <2>2 DEF FederationTypeOK, ClientTypes, Steps, HistoryKnown, history
<1> QED BY <1>1, <1>2, HistoryTyped, FedInductive, PTL DEF FederationSpec

-----------------------------------------------------------------------------
(* What a client saves.                                                     *)

(* A sent document that met one of another client in its bucket.            *)
Met(d) == d \in sent /\ \E e \in sent : Owner[e] # Owner[d] /\ BucketOf[e] = BucketOf[d]
Saving(c) == step[c] = "succeeded" => \A d \in file[c] : d \in local[c] /\ Met(d)

(* What the server copies, records and answers are sent documents.          *)
CopiesSent == \A t \in Threads : DocsOf(sigs[t]) \subseteq sent
RecordsMet == \A c \in Clients : \A d \in Recorded(c) : Met(d)
RepliesMet == \A t \in Threads : \A i \in DOMAIN reply[t].ids : Met(reply[t].ids[i])
AllMet == CopiesSent /\ RecordsMet /\ RepliesMet

(* Nothing that was sent is unsent.                                         *)
LEMMA SentGrows == [Next]_vars => sent \subseteq sent'
<1> SUFFICES ASSUME Next PROVE sent \subseteq sent'
  BY DEF vars
<1>1. CASE Kill \/ Restart
  BY <1>1 DEF Kill, End, Restart
<1>2. ASSUME NEW t \in Threads, Request(t) PROVE sent \subseteq sent'
  BY <1>2 DEF Request, TakeHello, TakeBlock, TakeCalculate, TakeGetResults,
              HandleCandidates, AnswerCandidates, HandleDataHeader, HandleUnknown, HangUp
<1>3. ASSUME NEW t \in Threads, Upload(t) \/ Hello(t) \/ GetResults(t) \/ Finish(t)
      PROVE  sent \subseteq sent'
  BY <1>3 DEF Upload, BlockRefused, BlockAccepted, SkipLine, StoreCandidate, StoreInBucket,
              BlockStored, LineThrows, End, Hello, GetResults, Finish
<1>4. ASSUME NEW t \in Threads, Calculate(t) PROVE sent \subseteq sent'
  BY <1>4 DEF Calculate, CalculateRefused, CalculateStarts, ScanBucket, DecryptThrows, End,
              RecordPair, RecordPartner, BucketDone, LastBucketDone, ClearCandidates, ClearBuckets
<1> QED BY <1>1, <1>2, <1>3, <1>4 DEF Next, Handler

(* A document that has met another goes on having met it.                   *)
LEMMA MetStays == ASSUME sent \subseteq sent', NEW d, Met(d) PROVE Met(d)'
  BY DEF Met

(* A calculation copies stored documents, which were sent.                  *)
LEMMA CopiesNext == ServerInv /\ CopiesSent /\ [Next]_vars => CopiesSent'
<1> SUFFICES ASSUME ServerInv, CopiesSent, [Next]_vars PROVE CopiesSent'
  OBVIOUS
<1>0. TypeOK /\ Fresh /\ sent \subseteq sent'
  BY SentGrows DEF ServerInv
<1>1. ASSUME sigs' = sigs PROVE CopiesSent'
  BY <1>0, <1>1 DEF CopiesSent
<1>2. ASSUME NEW how, End(how) PROVE CopiesSent'
  BY <1>2, DocsOfEmpty DEF End, Each, CopiesSent
<1>3. ASSUME NEW t \in Threads, NEW s, sigs' = [sigs EXCEPT ![t] = s], DocsOf(s) \subseteq sent
      PROVE  CopiesSent'
  <2>1. \A u \in Threads : sigs'[u] = s \/ sigs'[u] = sigs[u]
    BY <1>0, <1>3 DEF TypeOK
  <2> QED BY <1>0, <1>3, <2>1 DEF CopiesSent
<1>4. CASE Kill \/ Restart \/ UNCHANGED vars
  BY <1>1, <1>2, <1>4 DEF Kill, Restart, vars
<1>5. ASSUME NEW t \in Threads, Request(t) \/ Upload(t) \/ Hello(t) \/ GetResults(t) \/ Finish(t)
      PROVE  CopiesSent'
  BY <1>1, <1>2, <1>5
     DEF Request, TakeHello, TakeBlock, TakeCalculate, TakeGetResults, Take,
         HandleCandidates, AnswerCandidates, HandleDataHeader, HandleUnknown, HangUp,
         Upload, BlockRefused, BlockAccepted, SkipLine, StoreCandidate, StoreInBucket,
         BlockStored, LineThrows, Hello, GetResults, Finish
<1>6. ASSUME NEW t \in Threads, Calculate(t) PROVE CopiesSent'
  <2>1. CASE ScanBucket(t)
    <3>1. PICK b \in Buckets :
            sigs' = sigs \/ sigs' = [sigs EXCEPT ![t] = bucket_candidates[b]]
      BY <2>1 DEF ScanBucket
    <3>2. DocsOf(bucket_candidates[b]) \subseteq sent
      BY <1>0 DEF Fresh, Stored
    <3> QED BY <1>1, <1>3, <3>1, <3>2
  <2>2. CASE DecryptThrows(t)
    BY <1>2, <2>2 DEF DecryptThrows
  <2>3. CASE BucketDone(t)
    BY <1>3, <2>3, DocsOfEmpty DEF BucketDone
  <2> QED BY <1>1, <1>6, <2>1, <2>2, <2>3
          DEF Calculate, CalculateRefused, CalculateStarts, RecordPair, RecordPartner,
              LastBucketDone, ClearCandidates, ClearBuckets
<1> QED BY <1>4, <1>5, <1>6 DEF Next, Handler

(* Both documents of a pair have met.                                       *)
LEMMA PairsMet ==
  ASSUME ServerInv, CopiesSent, NEW t \in Threads, NEW p \in dups[t]
  PROVE  /\ DocI(t, p) \in Docs /\ DocJ(t, p) \in Docs
         /\ Met(DocI(t, p)) /\ Met(DocJ(t, p))
<1>1. TypeOK /\ Paired
  BY DEF ServerInv
<1>2. DocI(t, p) \in Docs /\ DocJ(t, p) \in Docs
  BY <1>1, PairDocs
<1>3. DocI(t, p) \in sent /\ DocJ(t, p) \in sent
  <2>1. p[1] \in DOMAIN sigs[t] /\ p[2] \in DOMAIN sigs[t]
    BY <1>1 DEF TypeOK
  <2> QED BY <2>1 DEF CopiesSent, DocsOf, DocI, DocJ
<1>4. CrossPair(DocI(t, p), DocJ(t, p))
  BY <1>1 DEF Paired
<1> QED BY <1>2, <1>3, <1>4 DEF CrossPair, Met

(* Records are about documents that have met.                               *)
LEMMA RecordsNext == ServerInv /\ CopiesSent /\ RecordsMet /\ [Next]_vars => RecordsMet'
<1> SUFFICES ASSUME ServerInv, CopiesSent, RecordsMet, [Next]_vars PROVE RecordsMet'
  OBVIOUS
<1>0. TypeOK /\ sent \subseteq sent'
  BY SentGrows DEF ServerInv
<1>1. ASSUME duplicate_docs' = duplicate_docs PROVE RecordsMet'
  <2>1. \A c \in Clients : Recorded(c)' = Recorded(c)
    BY <1>1 DEF Recorded
  <2> QED BY <1>0, <2>1, MetStays DEF RecordsMet
<1>2. ASSUME NEW how, End(how) PROVE RecordsMet'
  BY <1>2 DEF End, Each, RecordsMet, Recorded
<1>3. ASSUME NEW d \in Docs, Met(d),
             duplicate_docs' = [duplicate_docs EXCEPT ![Owner[d]] = Append(@, d)]
      PROVE  RecordsMet'
  <2>1. \A c \in Clients : Recorded(c)' \subseteq Recorded(c) \cup {d}
    BY <1>0, <1>3, RecordedAppend
  <2> QED BY <1>0, <1>3, <2>1, MetStays DEF RecordsMet
<1>4. CASE Kill \/ Restart \/ UNCHANGED vars
  BY <1>1, <1>2, <1>4 DEF Kill, Restart, vars
<1>5. ASSUME NEW t \in Threads, Request(t) \/ Upload(t) \/ Hello(t) \/ GetResults(t) \/ Finish(t)
      PROVE  RecordsMet'
  BY <1>1, <1>2, <1>5
     DEF Request, TakeHello, TakeBlock, TakeCalculate, TakeGetResults, Take,
         HandleCandidates, AnswerCandidates, HandleDataHeader, HandleUnknown, HangUp,
         Upload, BlockRefused, BlockAccepted, SkipLine, StoreCandidate, StoreInBucket,
         BlockStored, LineThrows, Hello, GetResults, Finish
<1>6. ASSUME NEW t \in Threads, Calculate(t) PROVE RecordsMet'
  <2>1. CASE RecordPair(t)
    <3>1. PICK p \in dups[t] :
            \/ duplicate_docs' = duplicate_docs
            \/ duplicate_docs' = [duplicate_docs EXCEPT ![Owner[DocI(t, p)]] = Append(@, DocI(t, p))]
      BY <2>1 DEF RecordPair
    <3> QED BY <1>1, <1>3, <3>1, PairsMet
  <2>2. CASE RecordPartner(t)
    <3>1. PICK p \in dups[t] :
            \/ duplicate_docs' = duplicate_docs
            \/ duplicate_docs' = [duplicate_docs EXCEPT ![Owner[DocJ(t, p)]] = Append(@, DocJ(t, p))]
      BY <2>2 DEF RecordPartner
    <3> QED BY <1>1, <1>3, <3>1, PairsMet
  <2>3. CASE DecryptThrows(t)
    BY <1>2, <2>3 DEF DecryptThrows
  <2> QED BY <1>1, <1>6, <2>1, <2>2, <2>3
          DEF Calculate, CalculateRefused, CalculateStarts, ScanBucket, BucketDone,
              LastBucketDone, ClearCandidates, ClearBuckets
<1> QED BY <1>4, <1>5, <1>6 DEF Next, Handler

(* Answers hold recorded documents, or none.                                *)
LEMMA RepliesNext == ServerInv /\ RecordsMet /\ RepliesMet /\ [Next]_vars => RepliesMet'
<1> SUFFICES ASSUME ServerInv, RecordsMet, RepliesMet, [Next]_vars PROVE RepliesMet'
  OBVIOUS
<1>0. TypeOK /\ sent \subseteq sent'
  BY SentGrows DEF ServerInv
<1>1. ASSUME reply' = reply PROVE RepliesMet'
  BY <1>0, <1>1, MetStays DEF RepliesMet
<1>2. ASSUME NEW how, End(how) PROVE RepliesMet'
  BY <1>2 DEF End, Each, RepliesMet, NoReply, Reply
<1>3. ASSUME NEW t \in Threads, NEW r, reply' = [reply EXCEPT ![t] = r],
             \A i \in DOMAIN r.ids : Met(r.ids[i])
      PROVE  RepliesMet'
  <2>1. Threads = DOMAIN reply
    BY <1>0 DEF TypeOK
  <2>2. \A u \in Threads : reply'[u] = r \/ reply'[u] = reply[u]
    BY <1>3, <2>1
  <2> QED BY <1>0, <1>3, <2>2, MetStays DEF RepliesMet
<1>4. /\ \A k : \A i \in DOMAIN Reply(k).ids : Met(Reply(k).ids[i])
      /\ \A k : \A i \in DOMAIN Told(k).ids : Met(Told(k).ids[i])
  BY DEF Reply, Told
<1>5. CASE Kill \/ Restart \/ UNCHANGED vars
  BY <1>1, <1>2, <1>5 DEF Kill, Restart, vars
<1>6. ASSUME NEW t \in Threads, Request(t) PROVE RepliesMet'
  <2>1. reply' = reply \/ \E k : reply' = [reply EXCEPT ![t] = Reply(k)]
    BY <1>6 DEF Request, TakeHello, TakeBlock, TakeCalculate, TakeGetResults, Take,
         HandleCandidates, AnswerCandidates, HandleDataHeader, HandleUnknown, HangUp, Answer
  <2> QED BY <1>1, <1>3, <1>4, <2>1
<1>7. ASSUME NEW t \in Threads, Finish(t) PROVE RepliesMet'
  <2>1. reply' = [reply EXCEPT ![t] = Reply("none")]
    BY <1>7 DEF Finish, NoReply, Reply
  <2> QED BY <1>3, <1>4, <2>1
<1>8. ASSUME NEW t \in Threads, Handler(t) PROVE RepliesMet'
  <2>1. CASE End("terminated")
    BY <1>2, <2>1
  <2>2. CASE ~End("terminated")
    <3>1. PICK p, r : Moves(t, p, r)
      BY <1>0, <1>8, <2>2, HandlerMoves
    <3>2. \/ r = reply[t] \/ (\E k : r = Reply(k)) \/ (\E k : r = Told(k))
          \/ who[t] \in Registered /\ r = Listed(duplicate_docs[who[t]])
      BY <3>1 DEF Moves, Move
    <3>3. CASE r = reply[t]
      BY <1>3, <3>1, <3>3 DEF Moves, RepliesMet
    <3>4. CASE (\E k : r = Reply(k)) \/ (\E k : r = Told(k))
      BY <1>3, <1>4, <3>1, <3>4 DEF Moves
    <3>5. CASE who[t] \in Registered /\ r = Listed(duplicate_docs[who[t]])
      <4>1. who[t] \in Clients
        BY <3>5, ConstantsAssumption
      <4>2. \A i \in DOMAIN r.ids : Met(r.ids[i])
        BY <3>5, <4>1 DEF RecordsMet, Recorded, Listed, Reply
      <4> QED BY <1>3, <3>1, <4>2 DEF Moves
    <3> QED BY <3>2, <3>3, <3>4, <3>5
  <2> QED BY <2>1, <2>2
<1> QED BY <1>5, <1>6, <1>7, <1>8 DEF Next

(* Every step keeps that.                                                   *)
LEMMA AllMetNext == ServerInv /\ AllMet /\ [Next]_vars => AllMet'
  BY CopiesNext, RecordsNext, RepliesNext DEF AllMet

(* Nothing is recorded at the start.                                        *)
LEMMA AllMetInit == Init => AllMet
<1> SUFFICES ASSUME Init PROVE AllMet
  OBVIOUS
<1>1. CopiesSent
  BY DocsOfEmpty DEF Init, Each, CopiesSent
<1>2. RecordsMet
  BY DEF Init, Each, RecordsMet, Recorded
<1>3. RepliesMet
  BY DEF Init, Each, RepliesMet, NoReply, Reply
<1> QED BY <1>1, <1>2, <1>3 DEF AllMet

(* A run succeeds when it hears its results, and only then is its file      *)
(* written; its candidates change before.                                   *)
LEMMA Succeeds ==
  ASSUME FedInv, [FederationNext]_allvars, NEW c \in Clients, ~HearResults(c),
         step'[c] = "succeeded"
  PROVE  step[c] = "succeeded" /\ file'[c] = file[c] /\ local'[c] = local[c]
<1> USE DEF Goto
<1>0. ClientTypes
  BY DEF FedInv, ClientsInv
<1>1. CASE UNCHANGED <<step, file, local>>
  BY <1>1
<1>2. ASSUME NEW e \in Clients, NEW s, step' = [step EXCEPT ![e] = s], e = c => s # "succeeded",
             file' = file \/ \E x : file' = [file EXCEPT ![e] = x],
             local' = local \/ \E x : local' = [local EXCEPT ![e] = x]
      PROVE  step[c] = "succeeded" /\ file'[c] = file[c] /\ local'[c] = local[c]
  <2>1. e # c
    BY <1>0, <1>2 DEF ClientTypes
  <2> QED BY <1>0, <1>2, <2>1 DEF ClientTypes
<1>3. ASSUME NEW e \in Clients, Fail(e)
      PROVE  step[c] = "succeeded" /\ file'[c] = file[c] /\ local'[c] = local[c]
  BY <1>2, <1>3 DEF Fail, Forget
<1>4. ASSUME NEW e \in Clients, ByHand(e) \/ ByItself(e)
      PROVE  step[c] = "succeeded" /\ file'[c] = file[c] /\ local'[c] = local[c]
  <2>1. CASE HearResults(e)
    <3>1. e # c
      BY <2>1
    <3> QED BY <1>2, <2>1, <3>1 DEF HearResults
  <2>2. CASE ProcessLocally(e)
    BY <1>2, <2>2 DEF ProcessLocally
  <2>3. CASE HearConfirmation(e)
    BY <1>2, <2>3 DEF HearConfirmation
  <2>4. CASE Start(e)
    BY <1>2, <2>4 DEF Start, Forget
  <2>5. CASE ConnectFails(e) \/ ConnectionLost(e) \/ HearRefusal(e) \/ ProcessFails(e)
    BY <1>3, <2>5 DEF ConnectFails, ConnectionLost, HearRefusal, ProcessFails
  <2>6. CASE HearTooMany(e) \/ SendHello(e) \/ HearKey(e) \/ SendCandidates(e) \/ HearReady(e)
    BY <1>2, <2>6 DEF HearTooMany, SendHello, HearKey, SendCandidates, HearReady
  <2>7. CASE \/ SendDataHeader(e) \/ SendData(e) \/ SendCalculate(e) \/ HearDone(e)
             \/ SendGetResults(e) \/ Wake(e)
    BY <1>2, <2>7 DEF SendDataHeader, SendData, SendCalculate, HearDone, SendGetResults, Wake
  <2> QED BY <1>4, <2>1, <2>2, <2>3, <2>4, <2>5, <2>6, <2>7 DEF ByHand, ByItself, Sleeps, Advance
<1>5. ASSUME NEW t \in Threads, Serving(t) PROVE UNCHANGED <<step, file, local>>
  BY <1>5 DEF Serving, Serve, Leave, Links, client
<1>6. CASE ServerFaults
  BY <1>1, <1>6 DEF ServerFaults, Links
<1>7. CASE ClientFaults
  BY <1>1, <1>3, <1>7 DEF ClientFaults, CutOff, Abort
<1> QED BY <1>1, <1>4, <1>5, <1>6, <1>7 DEF FederationNext, GoesOn, Broken, allvars, client

(* A line in a saved file is of a document that has met another.            *)
LEMMA SavingNext ==
  FedInv /\ AllMet /\ (\A c \in Clients : Saving(c)) /\ [FederationNext]_allvars
    => \A c \in Clients : Saving(c)'
<1> SUFFICES ASSUME FedInv, AllMet, \A c \in Clients : Saving(c), [FederationNext]_allvars,
                    NEW c \in Clients, step'[c] = "succeeded", NEW d \in file'[c]
             PROVE  d \in local'[c] /\ Met(d)'
  BY DEF Saving
<1>1. sent \subseteq sent'
  BY FedNext, SentGrows
<1>2. CASE HearResults(c)
  <2>1. /\ step[c] = "get_results" /\ local' = local
        /\ file' = [file EXCEPT ![c] = Heard(reply[Self(c)].ids) \cap IdMapping(c)]
    BY <1>2 DEF HearResults, Hear
  <2>2. d \in Heard(reply[Self(c)].ids) /\ d \in IdMapping(c)
    BY <2>1 DEF FedInv, ClientsInv, ClientTypes
  <2>3. Self(c) \in Threads
    BY <2>1, UnderWay DEF FedInv
  <2>4. Met(d)
    BY <2>2, <2>3 DEF Heard, AllMet, RepliesMet
  <2>5. d \in IdMapping(c) \cap sent
    BY <2>2, <2>4 DEF Met
  <2>6. IdMapping(c) \cap sent = local[c]
    BY <2>1 DEF FedInv, ClientsInv, ClientInv, Sending, After
  <2> QED BY <1>1, <2>1, <2>4, <2>5, <2>6, MetStays
<1>3. CASE ~HearResults(c)
  BY <1>1, <1>3, Succeeds, MetStays DEF Saving
<1> QED BY <1>2, <1>3

(* What a client writes into its file it sent to the server in this run,    *)
(* and another client sent a document of the same bucket, whatever became   *)
(* of the server in between, and of other clients and their connections.    *)
THEOREM Saved == FederationSpec => []SavedHaveWitness
<1> DEFINE SaveInv == FedInv /\ AllMet /\ \A c \in Clients : Saving(c)
<1>1. FederationInit => SaveInv
  <2>1. FederationInit => \A c \in Clients : Saving(c)
    BY DEF FederationInit, Saving
  <2> QED BY <2>1, FedInit, AllMetInit DEF FederationInit
<1>2. SaveInv /\ [FederationNext]_allvars => SaveInv'
  BY FedNext, AllMetNext, SavingNext DEF FedInv
<1>3. SaveInv => SavedHaveWitness
  <2> SUFFICES ASSUME SaveInv, NEW c \in Clients, step[c] = "succeeded", NEW d \in file[c]
               PROVE  /\ d \in local[c]
                      /\ \E e \in sent : Owner[e] # c /\ BucketOf[e] = BucketOf[d]
    BY DEF SavedHaveWitness
  <2>1. d \in local[c] /\ Met(d)
    BY DEF Saving
  <2>2. ClientInv(c)
    BY DEF FedInv, ClientsInv
  <2>3. runs[c] \in 1..Len(RunDocs[c])
    BY UnderWay DEF FedInv
  <2>4. d \in IdMapping(c)
    BY <2>1, <2>2 DEF ClientInv, Sending, After
  <2>5. Owner[d] = c
    BY <2>3, <2>4, RunFacts DEF IdMapping
  <2> QED BY <2>1, <2>5 DEF Met
<1> QED BY <1>1, <1>2, <1>3, PTL DEF FederationSpec

-----------------------------------------------------------------------------
(* Runs in the order of the manual.  With one client besides client2 there  *)
(* is one thread at most that stores or calculates, as long as the order is *)
(* kept: the others sleep while client2 runs.                               *)
TwoClients == \A c, e \in Clients \ {Trigger} : c = e

Done  == {"fetch", "get_results", "succeeded"}
Waits == Awaiting \cup {"data_header", "data", "read_again"}

(* The server can only have ended in the calculation of client2, which then *)
(* comes no further, and cuts nobody off before.  No thread works for a     *)
(* client that is gone.                                                     *)
Linked ==
  /\ step[Trigger] # "sleep"
  /\ up # "up" => step[Trigger] \in {"hello", "get_done", "failed"}
  /\ up = "up" => \A c \in Clients : step[c] \in Waits => linked[c]
Attended == \A t \in Threads : pc[t] # "idle" => Connected(t)

(* The lines of a client that the server has yet to store, and has stored.  *)
Uploads(c) ==
  /\ step[c] = "get_confirmation" =>
       /\ pc[Self(c)] \in {"block"} \cup Storing =>
            local[c] \subseteq taken \cup DocsOf(lines[Self(c)])
       /\ pc[Self(c)] = "replied" /\ reply[Self(c)].kind = "CANDIDATES_RECEIVED" =>
            local[c] \subseteq taken
  /\ up = "up" /\ step[c] \in {"sleep", "calculate", "get_done"} \cup Done =>
       local[c] \subseteq taken

(* What was stored was gone over when client2 hears that it was.            *)
Over == \/ step[Trigger] \in Done
        \/ /\ step[Trigger] = "get_done" /\ pc[Self(Trigger)] = "replied"
           /\ reply[Self(Trigger)].kind = "CALCULATION_DONE"
GoneOver == Over => taken \subseteq seen

(* No result is recorded after a client has been answered.                  *)
Results(c) ==
  /\ step[c] = "get_results" /\ pc[Self(c)] = "replied" =>
       reply[Self(c)].ids = duplicate_docs[c]
  /\ step[c] = "succeeded" => file[c] = Heard(duplicate_docs[c]) \cap IdMapping(c)

OrderInv == /\ Orderly /\ Linked /\ Attended /\ Passing /\ GoneOver
            /\ \A c \in Clients : Uploads(c) /\ Results(c)

(* What a step of another client or of another thread leaves as it is.      *)
Rests(t) == pc'[t] = pc[t] /\ reply'[t] = reply[t] /\ lines'[t] = lines[t]
Stays(e) == /\ step'[e] = step[e] /\ local'[e] = local[e] /\ file'[e] = file[e]
            /\ runs'[e] = runs[e] /\ linked'[e] = linked[e]
Apart(e) == Stays(e) /\ (Self(e) \in Threads => Rests(Self(e)))

(* A step after which the order of the manual is still kept.                *)
LEMMA InOrder ==
  ASSUME [FederationNext]_allvars, in_order'
  PROVE  /\ in_order
         /\ \/ UNCHANGED allvars
            \/ \E c \in Clients : ((Start(c) \/ Wake(c)) /\ Orderly') \/ Advance(c)
            \/ \E t \in Threads : Serve(t)
<1>1. CASE UNCHANGED allvars
  BY <1>1 DEF allvars, history
<1>2. ASSUME NEW c \in Clients, ByHand(c) \/ ByItself(c)
      PROVE  in_order /\ (((Start(c) \/ Wake(c)) /\ Orderly') \/ Advance(c))
  BY <1>2 DEF ByHand, ByItself, Sleeps, history
<1>3. ASSUME NEW t \in Threads, Serving(t) PROVE in_order /\ Serve(t)
  BY <1>3 DEF Serving
<1>4. ~Broken
  BY DEF Broken
<1> QED BY <1>1, <1>2, <1>3, <1>4 DEF FederationNext, GoesOn

(* Another client's thread is another thread.                               *)
LEMMA OthersApart ==
  ASSUME NEW c \in Clients, NEW s, s[1] = c,
         \A t \in Threads \ {s} : Rests(t), \A e \in Clients \ {c} : Stays(e)
  PROVE  \A e \in Clients \ {c} : Apart(e)
<1> SUFFICES ASSUME NEW e \in Clients \ {c}, Self(e) \in Threads PROVE Rests(Self(e))
  BY DEF Apart
<1>1. Self(e)[1] = e
  BY SelfFacts
<1> QED BY <1>1

(* A step of a client that is not one of the server.                        *)
LEMMA ClientStep ==
  ASSUME FedInv, NEW c \in Clients, Advance(c) \/ Start(c) \/ Wake(c)
  PROVE  /\ UNCHANGED <<up, taken, seen, duplicate_docs>>
         /\ \A t \in Threads \ {Self(c)} : Rests(t)
         /\ \A e \in Clients \ {c} : Apart(e) /\ linked'[e] = linked[e]
<1>s. PICK s : s = Self(c)
  OBVIOUS
<1> USE DEF Goto, Connect, Close, Fail, Forget
<1>0. ClientTypes /\ TypeOK /\ s[1] = c
  BY <1>s, SelfFacts DEF FedInv, ClientsInv, ServerInv
<1>1. SUFFICES /\ UNCHANGED <<up, taken, seen, duplicate_docs>>
               /\ \A t \in Threads \ {s} : Rests(t)
               /\ \A e \in Clients \ {c} : Stays(e)
  BY <1>s, <1>0, OthersApart DEF Apart, Stays
<1> DEFINE A1 == \/ ConnectFails(c) \/ ConnectionLost(c) \/ ProcessLocally(c) \/ ProcessFails(c)
                 \/ Start(c) \/ Wake(c)
           A2 == \/ HearKey(c) \/ HearReady(c) \/ HearConfirmation(c) \/ HearDone(c)
                 \/ HearRefusal(c) \/ HearTooMany(c) \/ HearResults(c)
           A3 == \/ SendHello(c) \/ SendCandidates(c) \/ SendDataHeader(c)
                 \/ SendData(c) \/ SendCalculate(c) \/ SendGetResults(c)
<1>2. ASSUME \E q : step' = [step EXCEPT ![c] = q],
             local' = local \/ \E q : local' = [local EXCEPT ![c] = q],
             file' = file \/ \E q : file' = [file EXCEPT ![c] = q],
             runs' = runs \/ \E q : runs' = [runs EXCEPT ![c] = q],
             linked' = linked \/ \E q : linked' = [linked EXCEPT ![c] = q]
      PROVE  \A e \in Clients \ {c} : Stays(e)
  BY <1>0, <1>2 DEF ClientTypes, Stays
<1>3. ASSUME pc' = pc \/ \E q : pc' = [pc EXCEPT ![s] = q],
             reply' = reply \/ \E q : reply' = [reply EXCEPT ![s] = q],
             lines' = lines \/ \E q : lines' = [lines EXCEPT ![s] = q]
      PROVE  \A t \in Threads \ {s} : Rests(t)
  <2>1. Threads = DOMAIN pc /\ Threads = DOMAIN reply /\ Threads = DOMAIN lines
    BY <1>0 DEF TypeOK
  <2> QED BY <1>3, <2>1 DEF Rests
<1>4. CASE A1
  <2>1. /\ UNCHANGED vars /\ file' = file
        /\ \E q : step' = [step EXCEPT ![c] = q]
        /\ local' = local \/ \E q : local' = [local EXCEPT ![c] = q]
        /\ runs' = runs \/ \E q : runs' = [runs EXCEPT ![c] = q]
        /\ linked' = linked \/ \E q : linked' = [linked EXCEPT ![c] = q]
    BY <1>4 DEF ConnectFails, ConnectionLost, ProcessLocally, ProcessFails, Start, Wake
  <2> QED BY <1>2, <1>3, <2>1 DEF vars
<1>5. CASE A2
  <2>1. /\ Finish(s) /\ runs' = runs
        /\ \E q : step' = [step EXCEPT ![c] = q]
        /\ file' = file \/ \E q : file' = [file EXCEPT ![c] = q]
        /\ local' = local \/ \E q : local' = [local EXCEPT ![c] = q]
        /\ linked' = linked \/ \E q : linked' = [linked EXCEPT ![c] = q]
    BY <1>s, <1>5 DEF HearKey, HearReady, HearConfirmation, HearDone, HearRefusal, HearTooMany,
                      HearResults, Hear
  <2>2. /\ UNCHANGED <<up, taken, seen, duplicate_docs, lines>>
        /\ \E q : pc' = [pc EXCEPT ![s] = q]
        /\ \E q : reply' = [reply EXCEPT ![s] = q]
    BY <2>1 DEF Finish
  <2> QED BY <1>2, <1>3, <2>1, <2>2
<1>6. CASE A3
  <2>1. /\ UNCHANGED <<up, taken, seen, duplicate_docs, runs, local, file>>
        /\ \E q : step' = [step EXCEPT ![c] = q]
        /\ \E p : pc' = [pc EXCEPT ![s] = p]
        /\ linked' = linked \/ linked' = [linked EXCEPT ![c] = TRUE]
    BY <1>s, <1>6
       DEF SendHello, SendCandidates, SendDataHeader, SendData, SendCalculate, SendGetResults,
           Take, AnswerCandidates, HandleDataHeader, Answer
  <2>2. /\ reply' = reply \/ \E r : reply' = [reply EXCEPT ![s] = r]
        /\ lines' = lines \/ \E r : lines' = [lines EXCEPT ![s] = r]
    BY <1>s, <1>6
       DEF SendHello, SendCandidates, SendDataHeader, SendData, SendCalculate, SendGetResults,
           Take, AnswerCandidates, HandleDataHeader, Answer
  <2> QED BY <1>2, <1>3, <2>1, <2>2
<1> QED BY <1>4, <1>5, <1>6 DEF Advance

(* A step of a thread: it works for a client that waits for it, and either  *)
(* its calculation ends the process, or each of the shared containers has   *)
(* the points it is changed at.                                             *)
LEMMA ServerStepOf ==
  ASSUME FedInv, Attended, NEW t \in Threads, Serve(t)
  PROVE  /\ t[1] \in Clients /\ t = Self(t[1]) /\ linked[t[1]]
         /\ pc[t] \notin {"idle", "replied", "header"} /\ Serves(step[t[1]], pc[t])
         /\ Handler(t) /\ UNCHANGED <<step, runs, local, file>>
         /\ \/ /\ pc[t] = "scan" /\ End("terminated") /\ up' # "up"
            \/ /\ UNCHANGED <<up, linked>>
               /\ \A u \in Threads \ {t} : Rests(u)
               /\ \A e \in Clients \ {t[1]} : Apart(e)
               /\ \E p, r : Moves(t, p, r)
               /\ pc[t] # "bucket" => taken' = taken
               /\ taken \subseteq taken' /\ seen \subseteq seen'
               /\ pc[t] \notin Calculating => duplicate_docs' = duplicate_docs
<1>0. ClientTypes /\ TypeOK /\ ThreadInv(t) /\ t[1] \in Clients
  BY ThreadFacts DEF FedInv, ClientsInv, ServerInv
<1>1. pc[t] # "idle" /\ Connected(t) /\ Handler(t) /\ Links
  <2>1. pc[t] # "idle"
    BY HandlerAt DEF Serve, Leave, HangUp, Finish, Storing, Calculating
  <2> QED BY <2>1 DEF Attended, Serve, Leave
<1>2. pc[t] \notin {"idle", "replied", "header"}
  BY <1>1, HandlerAt DEF Storing, Calculating
<1>3. t = Self(t[1]) /\ linked[t[1]] /\ Serves(step[t[1]], pc[t]) /\ up = "up" /\ missing[t] = 0
  BY <1>0, <1>1 DEF Connected, ThreadInv, Attending
<1>4. UNCHANGED <<step, runs, local, file>>
  BY <1>1 DEF Links
<1>5. CASE End("terminated")
  <2>1. up' # "up"
    BY <1>5 DEF End
  <2>2. pc[t] = "scan"
    BY <1>1, <1>3, <2>1, HandlerAt
  <2> QED BY <1>0, <1>1, <1>2, <1>3, <1>4, <1>5, <2>1, <2>2
<1>6. CASE ~End("terminated")
  <2>1. PICK p, r : Moves(t, p, r)
    BY <1>0, <1>1, <1>6, HandlerMoves
  <2>2. UNCHANGED <<up, linked>>
    BY <1>1, <1>3, <2>1 DEF Links, Moves
  <2>3. pc' = [pc EXCEPT ![t] = p] /\ reply' = [reply EXCEPT ![t] = r]
    BY <2>1 DEF Moves
  <2>4. lines' = lines \/ \E x : lines' = [lines EXCEPT ![t] = x]
    BY <1>1, <1>6 DEF Handler, Hello, Upload, BlockRefused, BlockAccepted, SkipLine, StoreCandidate,
                StoreInBucket, BlockStored, LineThrows, Calculate, CalculateRefused, CalculateStarts,
                ScanBucket, DecryptThrows, RecordPair, RecordPartner, BucketDone, LastBucketDone,
                ClearCandidates, ClearBuckets, GetResults
  <2>5. \A u \in Threads \ {t} : Rests(u)
    <3>1. Threads = DOMAIN pc /\ Threads = DOMAIN reply /\ Threads = DOMAIN lines
      BY <1>0 DEF TypeOK
    <3> QED BY <2>3, <2>4, <3>1 DEF Rests
  <2>6. \A e \in Clients \ {t[1]} : Apart(e)
    BY <1>0, <1>4, <2>2, <2>5, OthersApart DEF Stays
  <2>7. /\ pc[t] # "bucket" => taken' = taken
        /\ taken \subseteq taken' /\ seen \subseteq seen'
    BY <1>1, <1>6 DEF Handler, Hello, Upload, BlockRefused, BlockAccepted, SkipLine, StoreCandidate,
                StoreInBucket, BlockStored, LineThrows, Calculate, CalculateRefused, CalculateStarts,
                ScanBucket, DecryptThrows, RecordPair, RecordPartner, BucketDone, LastBucketDone,
                ClearCandidates, ClearBuckets, GetResults
  <2>8. pc[t] \notin Calculating => duplicate_docs' = duplicate_docs
    BY <1>1, <1>6 DEF Handler, Hello, Upload, BlockRefused, BlockAccepted, SkipLine, StoreCandidate,
                StoreInBucket, BlockStored, LineThrows, Calculate, CalculateRefused, CalculateStarts,
                ScanBucket, DecryptThrows, RecordPair, RecordPartner, BucketDone, LastBucketDone,
                ClearCandidates, ClearBuckets, GetResults, Calculating
  <2> QED BY <1>0, <1>1, <1>2, <1>3, <1>4, <2>1, <2>2, <2>5, <2>6, <2>7, <2>8
<1> QED BY <1>5, <1>6

(* As long as the order is kept no thread is left behind.                   *)
LEMMA AttendedNext ==
  ASSUME FedInv, Attended, [FederationNext]_allvars, in_order'
  PROVE  Attended'
<1> SUFFICES ASSUME NEW t \in Threads, pc'[t] # "idle" PROVE Connected(t)'
  BY DEF Attended
<1>0. ClientTypes /\ TypeOK /\ ThreadInv(t) /\ t[1] \in Clients
  BY ThreadFacts DEF FedInv, ClientsInv, ServerInv
<1>1. ASSUME pc[t] # "idle", runs'[t[1]] = runs[t[1]], linked'[t[1]] = linked[t[1]]
      PROVE  Connected(t)'
  BY <1>1 DEF Attended, Connected, Self
<1>2. CASE UNCHANGED allvars
  BY <1>1, <1>2 DEF allvars, client, vars
<1>3. ASSUME NEW c \in Clients, Advance(c) \/ Start(c) \/ Wake(c) PROVE Connected(t)'
  <2>1. CASE t # Self(c)
    <3>1. pc[t] # "idle"
      BY <1>3, <2>1, ClientStep DEF Rests
    <3>2. t[1] # c
      BY <2>1, <3>1 DEF Attended, Connected
    <3> QED BY <1>0, <1>1, <1>3, <3>1, <3>2, ClientStep DEF Apart, Stays
  <2>2. CASE t = Self(c)
    <3> USE DEF Goto, Connect
    <3>0. t[1] = c
      BY <2>2, SelfFacts
    <3>1. CASE Wake(c) \/ ProcessLocally(c)
      BY <1>1, <3>0, <3>1 DEF Wake, ProcessLocally, vars
    <3>2. CASE Start(c) \/ ConnectFails(c) \/ ConnectionLost(c) \/ ProcessFails(c)
      <4>1. pc[t] # "idle"
        BY <3>2 DEF Start, ConnectFails, ConnectionLost, ProcessFails, vars
      <4>2. Connected(t) /\ up = "up" /\ linked[c]
        BY <1>0, <3>0, <4>1 DEF Attended, Connected, ThreadInv, Attending
      <4>3. step[c] \notin Awaiting \cup {"data"}
        BY <3>2, <4>2, StepNames DEF Start, ConnectFails, ConnectionLost, ProcessFails, Ended
      <4> QED BY <3>0, <4>1, <4>2, <4>3, Unattended
    <3>3. CASE \/ HearKey(c) \/ HearReady(c) \/ HearConfirmation(c) \/ HearDone(c)
               \/ HearRefusal(c) \/ HearTooMany(c) \/ HearResults(c)
      <4>1. Finish(t)
        BY <2>2, <3>3 DEF HearKey, HearReady, HearConfirmation, HearDone, HearRefusal, HearTooMany,
                          HearResults, Hear
      <4> QED BY <1>0, <4>1 DEF Finish, TypeOK
    <3>4. CASE \/ SendHello(c) \/ SendCandidates(c) \/ SendDataHeader(c)
               \/ SendData(c) \/ SendCalculate(c) \/ SendGetResults(c)
      <4>1. runs' = runs /\ linked'[c]
        BY <1>0, <3>4 DEF SendHello, SendCandidates, SendDataHeader, SendData, SendCalculate,
                          SendGetResults, ClientTypes
      <4> QED BY <2>2, <3>0, <4>1 DEF Connected, Self
    <3> QED BY <1>3, <3>1, <3>2, <3>3, <3>4 DEF Advance
  <2> QED BY <2>1, <2>2
<1>4. ASSUME NEW u \in Threads, Serve(u) PROVE Connected(t)'
  <2>1. CASE End("terminated")
    BY <2>1 DEF End, Each
  <2>2. CASE UNCHANGED <<up, linked>> /\ \A x \in Threads \ {u} : Rests(x)
    <3>1. pc[t] # "idle"
      BY <1>4, <2>2, ServerStepOf DEF Rests
    <3>2. runs' = runs
      BY <1>4, ServerStepOf
    <3> QED BY <1>1, <2>2, <3>1, <3>2
  <2> QED BY <1>4, <2>1, <2>2, ServerStepOf
<1> QED BY <1>2, <1>3, <1>4, InOrder

(* While client2 has its results or is getting them the server is up, and   *)
(* nobody who asks for results is turned down.                              *)
LEMMA DoneIsServed ==
  ASSUME FedInv, Orderly, Linked, Attended, NEW c \in Clients, step[c] \in Done
  PROVE  /\ up = "up" /\ step[Trigger] \in Done
         /\ ~ConnectFails(c) /\ ~ConnectionLost(c) /\ ~HearRefusal(c)
<1>s. PICK s : s = Self(c)
  OBVIOUS
<1>0. s \in Threads /\ s[1] = c /\ Trigger \in Clients
  BY <1>s, UnderWay, SelfFacts, FederationAssumption DEF FedInv, Done
<1>1. step[Trigger] \in Done
  BY DEF Orderly, Done
<1>2. up = "up"
  BY <1>1 DEF Linked, Done
<1>3. step[c] \in Waits => linked[c]
  BY <1>2 DEF Linked
<1>4. ~ConnectionLost(c)
  BY <1>3, StepNames DEF ConnectionLost, Done, Waits
<1>5. ~HearRefusal(c)
  <2> SUFFICES ASSUME HearRefusal(c) PROVE FALSE
    OBVIOUS
  <2>1. step[c] = "get_results" /\ reply[s].kind # "RESULTS" /\ pc[s] = "replied"
    BY <1>s, StepNames DEF HearRefusal, Done, Finish
  <2>2. Connected(s) /\ ThreadInv(s)
    BY <1>0, <2>1 DEF Attended, FedInv, ClientsInv
  <2> QED BY <1>0, <2>1, <2>2 DEF ThreadInv, Attending, Says
<1> QED BY <1>1, <1>2, <1>4, <1>5 DEF ConnectFails

(* Where a client goes, and from where.                                     *)
GoesTo(c, q) ==
  /\ q \in Steps
  /\ step' = [step EXCEPT ![c] = q]
  /\ step[c] \notin Ended \cup {"sleep"} /\ q # "off"
  /\ q = "sleep" => c # Trigger
  /\ q = "fetch" => c = Trigger
  /\ q = "get_results" => step[c] = "fetch"
  /\ q = "succeeded" <=> step[c] = "get_results" /\ HearResults(c)
  /\ step[c] = "fetch" => q = "get_results" \/ ConnectFails(c)
  /\ step[c] = "get_results" => q = "succeeded" \/ ConnectionLost(c) \/ HearRefusal(c)
  /\ q \in Waits => linked'[c]
  /\ up # "up" => q = "failed" \/ step[c] = "process"

(* Every step of a client goes to one of those.                             *)
LEMMA Goes ==
  ASSUME FedInv, NEW c \in Clients, Advance(c)
  PROVE  \E q : GoesTo(c, q)
<1> USE DEF Goto, Connect
<1>0. ClientTypes /\ ClientInv(c) /\ TypeOK
  BY DEF FedInv, ClientsInv, ServerInv
<1>1. linked[c] => up = "up"
  BY <1>0 DEF ClientInv, Running
<1>2. CASE ConnectFails(c) \/ ConnectionLost(c) \/ HearRefusal(c) \/ ProcessFails(c)
  <2>1. step' = [step EXCEPT ![c] = "failed"] /\ step[c] \notin Ended \cup {"sleep"}
    BY <1>2, StepNames DEF ConnectFails, ConnectionLost, HearRefusal, ProcessFails, Fail, Ended
  <2>2. step[c] = "get_results" => ~HearResults(c)
    BY <1>0, <2>1 DEF HearResults, ClientTypes
  <2>3. step[c] = "fetch" => ConnectFails(c)
    BY <1>2, StepNames DEF ConnectFails, ConnectionLost, HearRefusal, ProcessFails
  <2>4. step[c] = "get_results" => ConnectionLost(c) \/ HearRefusal(c)
    BY <1>2, StepNames DEF ConnectFails, ConnectionLost, HearRefusal, ProcessFails
  <2>5. "failed" \in Steps /\ "failed" \notin Waits
    BY StepNames DEF Steps, Ended, Waits
  <2>6. GoesTo(c, "failed")
    BY <2>1, <2>2, <2>3, <2>4, <2>5 DEF GoesTo
  <2> QED BY <2>6
<1>3. CASE HearResults(c)
  <2>1. step' = [step EXCEPT ![c] = "succeeded"] /\ step[c] = "get_results" /\ linked[c]
    BY <1>3 DEF HearResults, Hear
  <2>2. "succeeded" \in Steps /\ "succeeded" \notin Waits
    BY StepNames DEF Steps, Ended, Waits
  <2>3. GoesTo(c, "succeeded")
    BY <1>1, <1>3, <2>1, <2>2 DEF GoesTo, Ended
  <2> QED BY <2>3
<1>4. ASSUME NEW q \in Steps \ {"succeeded", "off", "failed"}, step' = [step EXCEPT ![c] = q],
             step[c] \notin Ended \cup {"sleep", "get_results"},
             q = "sleep" => c # Trigger, q = "fetch" => c = Trigger,
             q = "get_results" <=> step[c] = "fetch",
             q \in Waits => linked'[c], up # "up" => step[c] = "process"
      PROVE  GoesTo(c, q)
  BY <1>4 DEF GoesTo
<1>5. CASE ProcessLocally(c)
  <2>1. "candidates" \in Steps /\ "candidates" \notin Waits
    BY StepNames DEF Steps, Waits
  <2> QED BY <1>4, <1>5, <2>1 DEF ProcessLocally, Ended
<1>6. CASE HearKey(c) \/ HearReady(c) \/ HearConfirmation(c) \/ HearDone(c) \/ HearTooMany(c)
  <2>1. linked[c]
    BY <1>6 DEF HearKey, HearReady, HearConfirmation, HearDone, HearTooMany, Hear
  <2>2. PICK q : /\ step' = [step EXCEPT ![c] = q]
                 /\ \/ step[c] = "get_key" /\ q = "process"
                    \/ step[c] = "get_ready" /\ q = "data_header" /\ linked' = linked
                    \/ step[c] = "get_confirmation" /\ q = "read_again" /\ linked' = linked
                    \/ step[c] = "get_confirmation" /\ q = "calculate"
                    \/ step[c] = "get_confirmation" /\ q = "sleep" /\ c # Trigger
                    \/ step[c] = "get_done" /\ q = "fetch"
    BY <1>6 DEF HearKey, HearReady, HearConfirmation, HearDone, HearTooMany, Hear
  <2>3. q = "fetch" => c = Trigger
    BY <1>0, <2>2 DEF ClientInv, Running
  <2>4. q \in Steps
    BY <2>2 DEF Steps
  <2>5. q \in Waits => linked'[c]
    BY <2>1, <2>2, StepNames DEF Waits
  <2> QED BY <1>1, <1>4, <2>1, <2>2, <2>3, <2>4, <2>5 DEF Ended
<1>7. CASE \/ SendHello(c) \/ SendCandidates(c) \/ SendDataHeader(c)
           \/ SendData(c) \/ SendCalculate(c) \/ SendGetResults(c)
  <2>1. up = "up" /\ linked'[c]
    BY <1>0, <1>7
       DEF SendHello, SendCandidates, SendDataHeader, SendData, SendCalculate, SendGetResults,
           Take, AnswerCandidates, HandleDataHeader, ClientTypes
  <2>2. PICK q : /\ step' = [step EXCEPT ![c] = q]
                 /\ \/ step[c] = "hello" /\ q = "get_key"
                    \/ step[c] = "candidates" /\ q = "get_ready"
                    \/ step[c] = "data_header" /\ q = "data"
                    \/ step[c] = "data" /\ q = "get_confirmation"
                    \/ step[c] = "calculate" /\ q = "get_done"
                    \/ step[c] = "fetch" /\ q = "get_results"
    BY <1>7 DEF SendHello, SendCandidates, SendDataHeader, SendData, SendCalculate, SendGetResults
  <2>3. q \in Steps
    BY <2>2, StepNames DEF Steps
  <2> QED BY <1>4, <2>1, <2>2, <2>3 DEF Ended
<1> QED BY <1>2, <1>3, <1>5, <1>6, <1>7 DEF Advance

(* The order of the manual can only be broken by hand, or by a fault.       *)
LEMMA OrderlyNext ==
  ASSUME FedInv, Orderly, Linked, Attended, [FederationNext]_allvars, in_order'
  PROVE  Orderly' /\ Linked'
<1>0. ClientTypes /\ Trigger \in Clients /\ TypeOK
  BY FederationAssumption DEF FedInv, ClientsInv, ServerInv
<1>1. CASE UNCHANGED allvars
  BY <1>1 DEF allvars, client, vars, Orderly, Uploaded, Linked
<1>2. ASSUME NEW c \in Clients, Start(c) \/ Wake(c), Orderly' PROVE Linked'
  <2>1. PICK q \in {"hello", "fetch"} :
          /\ step' = [step EXCEPT ![c] = q] /\ UNCHANGED <<up, linked>>
          /\ q = "fetch" => step[c] = "sleep"
    BY <1>2 DEF Start, Wake, Goto, vars
  <2>2. step'[c] = q /\ \A e \in Clients \ {c} : step'[e] = step[e]
    BY <1>0, <2>1 DEF ClientTypes
  <2>3. step'[Trigger] = step[Trigger] \/ step'[Trigger] = "hello"
    BY <1>0, <2>1, <2>2 DEF Linked
  <2>4. \A e \in Clients : step'[e] \in Waits => step'[e] = step[e]
    BY <2>1, <2>2, StepNames DEF Waits
  <2> QED BY <2>1, <2>3, <2>4 DEF Linked
<1>3. ASSUME NEW t \in Threads, Serve(t) PROVE Orderly' /\ Linked'
  <2>1. step' = step
    BY <1>3, ServerStepOf
  <2>2. Orderly'
    BY <2>1 DEF Orderly, Uploaded
  <2>3. CASE pc[t] = "scan" /\ up' # "up"
    <3>1. t[1] = Trigger /\ step[t[1]] = "get_done"
      <4>1. Serves(step[t[1]], pc[t])
        BY <1>3, ServerStepOf
      <4> QED BY <2>3, <4>1 DEF FedInv, ClientsInv, ThreadInv, Calculates, InCalculation, Calculating,
                                Serves, Storing
    <3> QED BY <2>1, <2>2, <2>3, <3>1 DEF Linked
  <2>4. CASE UNCHANGED <<up, linked>>
    BY <2>1, <2>2, <2>4 DEF Linked
  <2> QED BY <1>3, <2>3, <2>4, ServerStepOf
<1>4. ASSUME NEW c \in Clients, Advance(c) PROVE Orderly' /\ Linked'
  <2>1. PICK q : GoesTo(c, q)
    BY <1>4, Goes
  <2>2. step'[c] = q /\ \A e \in Clients \ {c} : step'[e] = step[e]
    BY <1>0, <2>1 DEF ClientTypes, GoesTo
  <2>3. step[c] \in Done => q \in Done
    BY <2>1, DoneIsServed DEF Done, Ended, GoesTo
  <2>4. c # Trigger /\ q \in Done => step[c] \in Done
    BY <2>1 DEF Done, GoesTo
  <2>5. Orderly'
    <3>1. step'[Trigger] # "off" => \A e \in Clients \ {Trigger} : Uploaded(e)'
      <4>1. step'[Trigger] # "off" => step[Trigger] # "off"
        BY <2>1, <2>2, <1>0 DEF Ended, GoesTo
      <4>2. \A e \in Clients \ {Trigger} : Uploaded(e) => Uploaded(e)'
        BY <2>1, <2>2, <2>3 DEF Uploaded, Done, GoesTo
      <4> QED BY <4>1, <4>2 DEF Orderly
    <3>2. \A e \in Clients \ {Trigger} : step'[e] \in Done => step'[Trigger] \in Done
      BY <1>0, <2>2, <2>3, <2>4 DEF Orderly, Done
    <3> QED BY <3>1, <3>2 DEF Orderly, Done
  <2>6. Linked'
    <3>1. up' = up /\ \A e \in Clients \ {c} : linked'[e] = linked[e]
      BY <1>4, ClientStep
    <3>2. step'[Trigger] # "sleep"
      BY <1>0, <2>1, <2>2 DEF Linked, GoesTo
    <3>3. up # "up" => step'[Trigger] \in {"hello", "get_done", "failed"}
      BY <1>0, <2>1, <2>2 DEF Linked, GoesTo
    <3>4. up = "up" => \A e \in Clients : step'[e] \in Waits => linked'[e]
      BY <2>1, <2>2, <3>1 DEF Linked, GoesTo
    <3> QED BY <3>1, <3>2, <3>3, <3>4 DEF Linked
  <2> QED BY <2>5, <2>6
<1> QED BY <1>1, <1>2, <1>3, <1>4, InOrder

(* Two threads write at no time: the others sleep while client2 uploads and *)
(* calculates.                                                              *)
LEMMA OneWrites == TwoClients /\ FedInv /\ Orderly /\ Attended => OneWriter
<1> SUFFICES ASSUME TwoClients, FedInv, Orderly, Attended,
                    NEW t \in Threads, NEW u \in Threads, Writing(t), Writing(u)
             PROVE  t = u
  BY DEF OneWriter
<1>1. ASSUME NEW v \in Threads, Writing(v)
      PROVE  /\ v[1] \in Clients /\ v = Self(v[1])
             /\ step[v[1]] \in {"get_confirmation", "get_done"}
  <2>1. pc[v] \notin {"idle", "hello", "header", "get", "replied"}
    BY <1>1 DEF Writing, Storing, Calculating
  <2>2. Connected(v) /\ ThreadInv(v) /\ v[1] \in Clients
    BY <2>1, ThreadFacts DEF Attended, FedInv, ClientsInv
  <2> QED BY <2>1, <2>2 DEF Connected, ThreadInv, Attending, Serves
<1>2. ASSUME NEW v \in Threads, Writing(v), v[1] # Trigger PROVE step[Trigger] = "off"
  BY <1>1, <1>2 DEF Orderly, Uploaded
<1>3. t[1] = u[1]
  BY <1>1, <1>2 DEF TwoClients
<1> QED BY <1>1, <1>3

(* The same of the next state.                                              *)
LEMMA OneWritesNext == TwoClients' /\ FedInv' /\ Orderly' /\ Attended' => OneWriter'
  BY OneWrites, PTL

(* A client whose thread and whose run a step leaves alone.                 *)
LEMMA UploadsApart ==
  ASSUME FedInv, NEW e \in Clients, Apart(e), Uploads(e), taken \subseteq taken', up' = up
  PROVE  Uploads(e)'
<1>1. Self(e)' = Self(e)
  BY DEF Apart, Stays, Self
<1>2. step[e] # "off" => Self(e) \in Threads
  BY UnderWay DEF FedInv
<1> QED BY <1>1, <1>2 DEF Apart, Stays, Rests, Uploads, Done

(* The lines that a block has left, and those it has stored.                *)
LEMMA UploadStep ==
  ASSUME FedInv, NEW c \in Clients, NEW s \in Threads, s = Self(c), Upload(s), Attending(s),
         Uploads(c), step[c] = "get_confirmation", up' = up,
         UNCHANGED <<step, runs, local>>
  PROVE  Uploads(c)'
<1>0. TypeOK /\ Self(c)' = s
  BY DEF FedInv, ServerInv, Self
<1>1. local[c] \subseteq taken \cup DocsOf(lines[s])
  <2>1. pc[s] \in {"block"} \cup Storing
    BY DEF Upload, BlockRefused, BlockAccepted, SkipLine, StoreCandidate, StoreInBucket,
           BlockStored, LineThrows, Storing
  <2> QED BY <2>1 DEF Uploads
<1>2. ASSUME pc'[s] = "replied", reply'[s].kind = "CANDIDATES_RECEIVED" => local[c] \subseteq taken'
      PROVE  Uploads(c)'
  BY <1>0, <1>2 DEF Uploads, Storing, Done
<1>3. ASSUME pc'[s] \in Storing, local[c] \subseteq taken' \cup DocsOf(lines'[s]) PROVE Uploads(c)'
  BY <1>0, <1>3 DEF Uploads, Storing, Done
<1>4. CASE BlockRefused(s)
  <2>1. pc'[s] = "replied" /\ reply'[s].kind = "TOO_MANY_CANDIDATES"
    BY <1>0, <1>4 DEF BlockRefused, Answer, Reply, TypeOK
  <2> QED BY <1>2, <2>1
<1>5. CASE BlockAccepted(s)
  <2>1. pc'[s] = "store" /\ lines' = lines /\ taken' = taken
    BY <1>0, <1>5 DEF BlockAccepted, TypeOK
  <2> QED BY <1>1, <1>3, <2>1 DEF Storing
<1>6. CASE SkipLine(s)
  <2>1. lines[s] \in Seq(Candidate) /\ lines[s] # <<>>
    BY <1>0, <1>6 DEF SkipLine, TypeOK
  <2>2. Head(lines[s]).doc \in Docs
    BY <2>1, CandidateFields
  <2> QED BY <1>6, <2>2, ConstantsAssumption, FederationAssumption DEF SkipLine
<1>7. CASE StoreCandidate(s)
  <2>1. pc'[s] = "bucket" /\ lines' = lines /\ taken' = taken
    BY <1>0, <1>7 DEF StoreCandidate, TypeOK
  <2> QED BY <1>1, <1>3, <2>1 DEF Storing
<1>8. CASE StoreInBucket(s)
  <2>1. pc'[s] = "store" /\ lines'[s] = Tail(lines[s]) /\ taken' = taken \cup {Head(lines[s]).doc}
    BY <1>0, <1>8 DEF StoreInBucket, TypeOK
  <2>2. lines[s] \in Seq(Candidate) /\ lines[s] # <<>>
    BY <1>0, <1>8 DEF StoreInBucket, TypeOK
  <2>3. DocsOf(lines[s]) = {Head(lines[s]).doc} \cup DocsOf(Tail(lines[s]))
    BY <2>2, DocsOfTail DEF FedInv, ServerInv, Fresh
  <2> QED BY <1>1, <1>3, <2>1, <2>3 DEF Storing
<1>9. CASE BlockStored(s)
  <2>1. pc'[s] = "replied" /\ lines[s] = <<>> /\ taken' = taken
    BY <1>0, <1>9 DEF BlockStored, Answer, TypeOK
  <2>2. local[c] \subseteq taken
    BY <1>1, <2>1, DocsOfEmpty
  <2> QED BY <1>2, <2>1, <2>2
<1>10. CASE LineThrows(s)
  BY <1>10 DEF LineThrows, Attending
<1> QED BY <1>4, <1>5, <1>6, <1>7, <1>8, <1>9, <1>10 DEF Upload

(* Every line of a client is stored before it is told so.                   *)
LEMMA UploadsNext ==
  ASSUME FedInv, [FederationNext]_allvars, in_order', Linked, Attended,
         \A e \in Clients : Uploads(e)
  PROVE  \A e \in Clients : Uploads(e)'
<1>0. ClientTypes /\ TypeOK
  BY DEF FedInv, ClientsInv, ServerInv
<1>1. CASE UNCHANGED allvars
  BY <1>1 DEF allvars, client, vars, Uploads, Self
<1>2. ASSUME NEW c \in Clients, Advance(c) \/ Start(c) \/ Wake(c) PROVE \A e \in Clients : Uploads(e)'
  <2>s. PICK s : s = Self(c)
    OBVIOUS
  <2>1. UNCHANGED <<up, taken>> /\ \A e \in Clients \ {c} : Apart(e)
    BY <1>2, ClientStep
  <2>2. \A e \in Clients \ {c} : Uploads(e)'
    BY <2>1, UploadsApart
  <2>3. ASSUME NEW q \in Steps \ ({"get_confirmation", "sleep", "calculate", "get_done"} \cup Done),
               step' = [step EXCEPT ![c] = q]
        PROVE  Uploads(c)'
    <3>1. step'[c] = q
      BY <1>0, <2>3 DEF ClientTypes
    <3> QED BY <3>1 DEF Uploads
  <2>4. ASSUME NEW q \in {"sleep", "calculate", "get_done"} \cup Done,
               step' = [step EXCEPT ![c] = q], local' = local,
               up = "up" => local[c] \subseteq taken
        PROVE  Uploads(c)'
    <3>1. step'[c] = q
      BY <1>0, <2>4 DEF ClientTypes
    <3> QED BY <2>1, <2>4, <3>1 DEF Uploads, Done
  <2>5. Uploads(c)'
    <3> USE DEF Goto, Fail
    <3>1. CASE SendData(c)
      <4>0. Self(c)' = s /\ s \in Threads
        BY <2>s, <3>1, UnderWay DEF SendData, Self, FedInv
      <4>1. PICK ds \in Orders(local[c]) :
              Take(s, "block", NoClient, [i \in DOMAIN ds |-> [doc |-> ds[i], key |-> server_key[c]]], 0)
        BY <2>s, <3>1 DEF SendData
      <4>2. IsFiniteSet(local[c])
        <5>1. runs[c] \in 1..Len(RunDocs[c])
          BY <3>1, UnderWay DEF FedInv, SendData
        <5>2. local[c] \subseteq IdMapping(c)
          BY <3>1 DEF FedInv, ClientsInv, ClientInv, Sending, Kept, SendData
        <5> QED BY <5>1, <5>2, RunFacts, FS_Subset DEF IdMapping
      <4>3. DOMAIN ds = 1..Cardinality(local[c]) /\ {ds[i] : i \in DOMAIN ds} = local[c]
        BY <4>2, OrdersList
      <4>4. lines'[s] = [i \in DOMAIN ds |-> [doc |-> ds[i], key |-> server_key[c]]]
            /\ pc'[s] = "block" /\ local' = local
        BY <1>0, <3>1, <4>0, <4>1 DEF Take, TypeOK, SendData
      <4>5. DocsOf(lines'[s]) = local[c]
        BY <4>3, <4>4 DEF DocsOf
      <4>6. step'[c] = "get_confirmation"
        BY <1>0, <3>1 DEF SendData, ClientTypes
      <4> QED BY <4>0, <4>4, <4>5, <4>6 DEF Uploads, Done
    <3>2. CASE HearConfirmation(c)
      <4>1. step[c] = "get_confirmation" /\ pc[Self(c)] = "replied"
            /\ reply[Self(c)].kind = "CANDIDATES_RECEIVED"
        BY <3>2, StepNames DEF HearConfirmation, Hear, Finish
      <4>2. local[c] \subseteq taken
        BY <4>1 DEF Uploads
      <4> QED BY <2>4, <3>2, <4>2 DEF HearConfirmation
    <3>3. CASE SendCalculate(c) \/ HearDone(c) \/ SendGetResults(c) \/ HearResults(c) \/ Wake(c)
      <4>1. PICK q \in {"get_done"} \cup Done : step' = [step EXCEPT ![c] = q] /\ local' = local
        BY <3>3 DEF SendCalculate, HearDone, SendGetResults, HearResults, Wake, Done
      <4>2. step[c] \in {"sleep", "calculate", "get_done"} \cup Done
        BY <3>3, StepNames DEF SendCalculate, HearDone, SendGetResults, HearResults, Wake, Hear, Done
      <4> QED BY <2>4, <4>1, <4>2 DEF Uploads
    <3>4. CASE \/ ConnectFails(c) \/ ConnectionLost(c) \/ HearRefusal(c) \/ HearTooMany(c)
               \/ ProcessFails(c) \/ SendHello(c) \/ HearKey(c) \/ ProcessLocally(c) \/ Start(c)
               \/ SendCandidates(c) \/ HearReady(c) \/ SendDataHeader(c)
      BY <2>3, <3>4 DEF ConnectFails, ConnectionLost, HearRefusal, HearTooMany, ProcessFails,
           SendHello, HearKey, ProcessLocally, Start, SendCandidates, HearReady, SendDataHeader,
           Steps, Ended, Awaiting, Wanted, Done
    <3> QED BY <1>2, <3>1, <3>2, <3>3, <3>4 DEF Advance
  <2> QED BY <2>2, <2>5
<1>3. ASSUME NEW t \in Threads, Serve(t) PROVE \A e \in Clients : Uploads(e)'
  <2>c. PICK c \in Clients : c = t[1] /\ t = Self(c)
    BY <1>3, ServerStepOf
  <2>0. Handler(t) /\ UNCHANGED <<step, runs, local>> /\ Serves(step[c], pc[t]) /\ ThreadInv(t)
    BY <1>3, <2>c, ServerStepOf DEF FedInv, ClientsInv
  <2>1. CASE End("terminated") /\ up' # "up"
    <3>1. \A e \in Clients : step[e] # "off" => Self(e)' \in Threads
      BY <2>0, UnderWay DEF Self, FedInv
    <3>2. \A e \in Clients : step[e] # "off" => pc'[Self(e)'] = "idle"
      BY <2>1, <3>1 DEF End, Each
    <3> QED BY <2>0, <2>1, <3>2 DEF Uploads, Storing
  <2>2. CASE /\ UNCHANGED <<up, linked>>
             /\ \A e \in Clients \ {c} : Apart(e)
             /\ taken \subseteq taken'
    <3>1. \A e \in Clients \ {c} : Uploads(e)'
      BY <2>2, UploadsApart
    <3>2. CASE Upload(t)
      <4>1. step[c] = "get_confirmation"
        <5>1. pc[t] \in {"block"} \cup Storing
          BY <3>2 DEF Upload, BlockRefused, BlockAccepted, SkipLine, StoreCandidate, StoreInBucket,
                      BlockStored, LineThrows, Storing
        <5> QED BY <2>0, <5>1 DEF Serves, Storing, Calculating
      <4> QED BY <2>0, <2>2, <2>c, <3>1, <3>2, <4>1, UploadStep DEF ThreadInv
    <3>3. CASE Hello(t) \/ Calculate(t) \/ GetResults(t)
      <4>1. step[c] # "get_confirmation"
        <5>1. pc[t] \in {"hello", "get", "calculate"} \cup Calculating
          BY <3>3 DEF Hello, GetResults, Calculate, CalculateRefused, CalculateStarts, ScanBucket,
                      DecryptThrows, RecordPair, RecordPartner, BucketDone, LastBucketDone,
                      ClearCandidates, ClearBuckets, Calculating
        <5> QED BY <2>0, <5>1 DEF Serves, Storing, Calculating
      <4>2. Uploads(c)'
        BY <2>0, <2>2, <4>1 DEF Uploads
      <4> QED BY <3>1, <4>2
    <3> QED BY <2>0, <3>2, <3>3 DEF Handler
  <2> QED BY <1>3, <2>1, <2>2, <2>c, ServerStepOf
<1> QED BY <1>1, <1>2, <1>3, InOrder

(* When client2 hears that the calculation is done it has gone over every   *)
(* candidate, and none is stored after it.                                  *)
LEMMA GoneOverNext ==
  ASSUME FedInv, Orderly, Linked, Attended, Passing, GoneOver, [FederationNext]_allvars, in_order'
  PROVE  GoneOver'
<1>0. ClientTypes /\ TypeOK /\ Trigger \in Clients
  BY FederationAssumption DEF FedInv, ClientsInv, ServerInv
<1>s. PICK s : s = Self(Trigger)
  OBVIOUS
<1>1. step[Trigger] # "off" => s \in Threads
  BY <1>0, <1>s, UnderWay DEF FedInv
<1>2. ASSUME Over' => Over, taken' = taken, seen \subseteq seen' PROVE GoneOver'
  BY <1>2 DEF GoneOver
<1>3. ASSUME ~Over' PROVE GoneOver'
  BY <1>3 DEF GoneOver
<1>4. CASE UNCHANGED allvars
  <2>1. UNCHANGED <<step, runs, pc, reply, taken, seen>>
    BY <1>4 DEF allvars, client, vars
  <2> QED BY <1>2, <2>1 DEF Over, Self
<1>5. ASSUME NEW c \in Clients, Advance(c) \/ Start(c) \/ Wake(c) PROVE GoneOver'
  <2>1. UNCHANGED <<taken, seen>> /\ \A e \in Clients \ {c} : Apart(e)
    BY <1>5, ClientStep
  <2> SUFFICES Over' => Over
    BY <2>1, <1>2
  <2>2. CASE c # Trigger
    <3>1. Apart(Trigger) /\ Self(Trigger)' = s
      BY <1>0, <1>s, <2>1, <2>2 DEF Apart, Stays, Self
    <3> QED BY <1>1, <1>s, <3>1 DEF Apart, Stays, Rests, Over, Done
  <2>3. CASE c = Trigger
    <3> USE DEF Goto, Fail
    <3>1. CASE HearDone(c)
      BY <2>3, <3>1, StepNames DEF HearDone, Hear, Finish, Over
    <3>2. CASE HearResults(c) \/ SendGetResults(c)
      BY <2>3, <3>2, StepNames DEF HearResults, SendGetResults, Hear, Over, Done
    <3>3. CASE Wake(c)
      BY <2>3, <3>3 DEF Wake, Linked
    <3>4. CASE SendCalculate(c)
      <4>1. s \in Threads /\ Self(Trigger)' = s
        BY <1>1, <1>s, <2>3, <3>4 DEF SendCalculate, Self
      <4>2. step'[Trigger] = "get_done" /\ pc'[s] = "calculate"
        BY <1>0, <1>s, <2>3, <3>4, <4>1 DEF SendCalculate, Take, TypeOK, ClientTypes
      <4> QED BY <4>1, <4>2 DEF Over, Done
    <3>5. CASE \/ ConnectFails(c) \/ ConnectionLost(c) \/ HearRefusal(c) \/ HearTooMany(c)
               \/ ProcessFails(c) \/ SendHello(c) \/ HearKey(c) \/ ProcessLocally(c) \/ Start(c)
               \/ SendCandidates(c) \/ HearReady(c) \/ SendDataHeader(c) \/ SendData(c)
               \/ HearConfirmation(c)
      <4>1. step'[Trigger] \notin Done \cup {"get_done"}
        <5>1. CASE HearConfirmation(c)
          <6>1. step' = [step EXCEPT ![c] = "calculate"]
            BY <2>3, <5>1 DEF HearConfirmation
          <6> QED BY <1>0, <2>3, <6>1 DEF Done, ClientTypes
        <5>2. CASE Start(c) \/ ConnectFails(c) \/ ConnectionLost(c) \/ HearRefusal(c) \/ ProcessFails(c)
          BY <1>0, <2>3, <5>2 DEF Start, ConnectFails, ConnectionLost, HearRefusal, ProcessFails, Done,
                                  ClientTypes
        <5>3. CASE HearTooMany(c) \/ SendHello(c) \/ HearKey(c) \/ ProcessLocally(c)
          BY <1>0, <2>3, <5>3 DEF HearTooMany, SendHello, HearKey, ProcessLocally, Done, ClientTypes
        <5>4. CASE SendCandidates(c) \/ HearReady(c) \/ SendDataHeader(c) \/ SendData(c)
          BY <1>0, <2>3, <5>4 DEF SendCandidates, HearReady, SendDataHeader, SendData, Done, ClientTypes
        <5> QED BY <3>5, <5>1, <5>2, <5>3, <5>4
      <4> QED BY <4>1 DEF Over, Done
    <3> QED BY <1>5, <3>1, <3>2, <3>3, <3>4, <3>5 DEF Advance
  <2> QED BY <2>2, <2>3
<1>6. ASSUME NEW t \in Threads, Serve(t) PROVE GoneOver'
  <2>0. /\ t[1] \in Clients /\ t = Self(t[1]) /\ Handler(t) /\ UNCHANGED <<step, runs>>
        /\ Serves(step[t[1]], pc[t]) /\ ThreadInv(t)
        /\ pc[t] \notin {"idle", "replied", "header"}
    BY <1>6, ServerStepOf DEF FedInv, ClientsInv
  <2>1. Self(Trigger)' = s
    BY <1>s, <2>0 DEF Self
  <2>2. CASE pc[t] = "scan" /\ End("terminated")
    <3>1. t[1] = Trigger /\ step[Trigger] = "get_done"
      BY <2>0, <2>2 DEF ThreadInv, Calculates, InCalculation, Calculating, Serves, Storing
    <3>2. pc'[s] = "idle"
      BY <1>1, <2>2, <3>1 DEF End, Each
    <3> QED BY <1>3, <2>0, <2>1, <3>1, <3>2 DEF Over, Done
  <2>3. CASE /\ \A u \in Threads \ {t} : Rests(u)
             /\ pc[t] # "bucket" => taken' = taken
             /\ taken \subseteq taken' /\ seen \subseteq seen'
             /\ \E p, r : Moves(t, p, r)
    <3>1. pc[t] = "bucket" => step[t[1]] = "get_confirmation"
      BY <2>0 DEF Serves, Storing, Calculating
    <3>2. CASE t[1] # Trigger
      <4>1. t # s
        BY <1>0, <1>s, <3>2, SelfFacts
      <4>2. Over' => Over
        BY <1>1, <1>s, <2>0, <2>1, <2>3, <4>1 DEF Rests, Over, Done
      <4>3. Over => taken' = taken
        BY <2>0, <2>3, <3>1, <3>2 DEF Orderly, Uploaded, Over, Done
      <4> QED BY <1>2, <1>3, <2>3, <4>2, <4>3
    <3>3. CASE t[1] = Trigger /\ step[Trigger] \in Done
      <4>1. Over /\ taken' = taken
        BY <2>3, <3>1, <3>3 DEF Over, Done
      <4> QED BY <1>2, <2>3, <4>1
    <3>4. CASE t[1] = Trigger /\ step[Trigger] \notin Done
      <4>0. t = s
        BY <1>s, <2>0, <3>4
      <4>1. CASE ClearBuckets(t)
        <5>1. Stored \subseteq seen
          BY <2>0, <4>1 DEF ClearBuckets, Passing
        <5>2. taken' = taken /\ seen' = seen
          BY <4>1 DEF ClearBuckets
        <5> QED BY <5>1, <5>2 DEF Passing, NothingLost, GoneOver
      <4>2. CASE ~ClearBuckets(t)
        <5>1. PICK p, r : Moves(t, p, r)
          BY <2>3
        <5>2. pc'[t] = p /\ reply'[t] = r
          BY <1>0, <5>1 DEF Moves, TypeOK
        <5>3. p = "replied" => r.kind # "CALCULATION_DONE"
          <6>1. CASE pc[t] \in {"hello", "get", "block"} \cup Storing
            BY <5>1, <6>1 DEF Moves, Move, Told, Listed, Reply, Storing, Calculating
          <6>2. CASE CalculateRefused(t)
            <7>1. reply'[t] = Reply("NO_CANDIDATES")
              BY <1>0, <6>2 DEF CalculateRefused, Answer, TypeOK
            <7> QED BY <5>2, <7>1 DEF Reply
          <6>3. CASE CalculateStarts(t) \/ ScanBucket(t) \/ RecordPair(t) \/ RecordPartner(t)
            BY <1>0, <5>2, <6>3 DEF CalculateStarts, ScanBucket, RecordPair, RecordPartner, TypeOK
          <6>4. CASE BucketDone(t) \/ LastBucketDone(t) \/ ClearCandidates(t) \/ DecryptThrows(t)
            BY <1>0, <5>2, <6>4
               DEF BucketDone, LastBucketDone, ClearCandidates, DecryptThrows, End, Each, TypeOK
          <6>5. CASE Hello(t) \/ Upload(t) \/ GetResults(t)
            BY <6>1, <6>5 DEF Hello, Upload, BlockRefused, BlockAccepted, SkipLine, StoreCandidate,
                 StoreInBucket, BlockStored, LineThrows, GetResults, Storing
          <6> QED BY <2>0, <4>2, <6>2, <6>3, <6>4, <6>5 DEF Handler, Calculate
        <5>4. ~Over'
          BY <2>0, <2>1, <3>4, <4>0, <5>2, <5>3 DEF Over
        <5> QED BY <1>3, <5>4
      <4> QED BY <4>1, <4>2
    <3> QED BY <3>2, <3>3, <3>4
  <2> QED BY <1>6, <2>2, <2>3, ServerStepOf
<1> QED BY <1>4, <1>5, <1>6, InOrder

(* Nobody is recorded once a client has its results.                        *)
LEMMA ResultsApart ==
  ASSUME FedInv, NEW e \in Clients, Apart(e), Results(e), duplicate_docs' = duplicate_docs
  PROVE  Results(e)'
<1>1. Self(e)' = Self(e)
  BY DEF Apart, Stays, Self
<1>2. step[e] # "off" => Self(e) \in Threads
  BY UnderWay DEF FedInv
<1> QED BY <1>1, <1>2 DEF Apart, Stays, Rests, Results, Heard, IdMapping

(* In order, nothing is added to a list that its client has fetched.        *)
LEMMA ResultsNext ==
  ASSUME FedInv, Orderly, Linked, Attended, \A e \in Clients : Results(e),
         [FederationNext]_allvars, in_order'
  PROVE  \A e \in Clients : Results(e)'
<1>0. ClientTypes /\ TypeOK
  BY DEF FedInv, ClientsInv, ServerInv
<1>2. CASE UNCHANGED allvars
  BY <1>2 DEF allvars, client, vars, Results, Heard, IdMapping, Self
<1>3. ASSUME NEW c \in Clients, Advance(c) \/ Start(c) \/ Wake(c) PROVE \A e \in Clients : Results(e)'
  <2>s. PICK s : s = Self(c)
    OBVIOUS
  <2>1. duplicate_docs' = duplicate_docs /\ \A e \in Clients \ {c} : Apart(e)
    BY <1>3, ClientStep
  <2>2. Results(c)'
    <3> USE DEF Goto, Fail
    <3>1. CASE HearResults(c)
      <4>1. /\ step[c] = "get_results" /\ pc[s] = "replied" /\ runs' = runs
            /\ step' = [step EXCEPT ![c] = "succeeded"]
            /\ file' = [file EXCEPT ![c] = Heard(reply[s].ids) \cap IdMapping(c)]
        BY <2>s, <3>1 DEF HearResults, Hear, Finish
      <4>2. step'[c] = "succeeded" /\ file'[c] = Heard(reply[s].ids) \cap IdMapping(c)
        BY <1>0, <4>1 DEF ClientTypes
      <4>3. reply[s].ids = duplicate_docs[c]
        BY <2>s, <4>1 DEF Results
      <4> QED BY <2>1, <4>1, <4>2, <4>3 DEF Results, Heard, IdMapping
    <3>2. CASE SendGetResults(c)
      <4>1. s \in Threads /\ Self(c)' = s
        BY <2>s, <3>2, UnderWay DEF SendGetResults, Self, FedInv
      <4>2. step'[c] = "get_results" /\ pc'[s] = "get"
        BY <1>0, <2>s, <3>2, <4>1 DEF SendGetResults, Take, ClientTypes, TypeOK
      <4> QED BY <4>1, <4>2 DEF Results
    <3>3. CASE Start(c) \/ Wake(c)
      <4>1. step'[c] \notin {"get_results", "succeeded"}
        BY <1>0, <3>3 DEF Start, Wake, ClientTypes
      <4> QED BY <4>1 DEF Results
    <3>4. CASE Advance(c) /\ ~HearResults(c) /\ ~SendGetResults(c)
      <4>1. step'[c] \notin {"get_results", "succeeded"}
        <5>1. CASE \/ ConnectFails(c) \/ ConnectionLost(c) \/ HearRefusal(c) \/ HearTooMany(c)
                   \/ SendHello(c) \/ HearKey(c) \/ ProcessLocally(c) \/ ProcessFails(c)
          BY <1>0, <5>1 DEF ConnectFails, ConnectionLost, HearRefusal, HearTooMany, SendHello,
                            HearKey, ProcessLocally, ProcessFails, ClientTypes
        <5>2. CASE \/ SendCandidates(c) \/ HearReady(c) \/ SendDataHeader(c) \/ SendData(c)
                   \/ HearConfirmation(c) \/ SendCalculate(c) \/ HearDone(c)
          BY <1>0, <5>2 DEF SendCandidates, HearReady, SendDataHeader, SendData, HearConfirmation,
                            SendCalculate, HearDone, ClientTypes
        <5> QED BY <3>4, <5>1, <5>2 DEF Advance
      <4> QED BY <4>1 DEF Results
    <3> QED BY <1>3, <3>1, <3>2, <3>3, <3>4
  <2> QED BY <2>1, <2>2, ResultsApart
<1>4. ASSUME NEW t \in Threads, Serve(t) PROVE \A e \in Clients : Results(e)'
  <2>c. PICK c \in Clients : c = t[1] /\ t = Self(c)
    BY <1>4, ServerStepOf
  <2>0. /\ Handler(t) /\ UNCHANGED <<step, runs, file>> /\ Serves(step[c], pc[t])
        /\ linked[c] /\ ThreadInv(t) /\ pc[t] \notin {"idle", "replied", "header"}
    BY <1>4, <2>c, ServerStepOf DEF FedInv, ClientsInv
  <2>1. CASE pc[t] \in Calculating
    <3>1. c = Trigger /\ step[c] = "get_done"
      BY <2>0, <2>1, <2>c DEF ThreadInv, Calculates, InCalculation, Serves, Storing, Calculating
    <3>2. \A e \in Clients : step[e] \notin Done
      BY <3>1 DEF Orderly, Done
    <3> QED BY <2>0, <3>2 DEF Results, Done
  <2>2. CASE pc[t] \notin Calculating
    <3>1. duplicate_docs' = duplicate_docs /\ \A e \in Clients \ {c} : Apart(e)
      BY <1>4, <2>2, <2>c, ServerStepOf DEF Calculating
    <3>2. ASSUME step[c] = "get_results", pc'[t] = "replied" PROVE reply'[t].ids = duplicate_docs[c]
      <4>1. pc[t] = "get"
        BY <2>0, <3>2 DEF Serves
      <4>2. GetResults(t)
        BY <2>0, <4>1
           DEF Handler, Hello, Upload, BlockRefused, BlockAccepted, SkipLine, StoreCandidate,
               StoreInBucket, BlockStored, LineThrows, Calculate, CalculateRefused, CalculateStarts,
               ScanBucket, DecryptThrows, RecordPair, RecordPartner, BucketDone, LastBucketDone,
               ClearCandidates, ClearBuckets
      <4>3. who[t] = c
        BY <2>0, <2>c, <4>1 DEF ThreadInv, Attending
      <4>4. reply' = [reply EXCEPT ![t] = [Reply("RESULTS") EXCEPT !.ids = duplicate_docs[c]]]
        BY <4>2, <4>3, FederationAssumption DEF GetResults, Answer
      <4>5. reply'[t] = [Reply("RESULTS") EXCEPT !.ids = duplicate_docs[c]]
        BY <1>0, <4>4 DEF TypeOK
      <4> QED BY <4>5 DEF Reply
    <3>3. Results(c)'
      <4>1. Self(c)' = t
        BY <2>0, <2>c DEF Self
      <4> QED BY <2>0, <3>1, <3>2, <4>1 DEF Results, Heard, IdMapping
    <3> QED BY <3>1, <3>3, ResultsApart
  <2> QED BY <2>1, <2>2
<1> QED BY <1>2, <1>3, <1>4, InOrder

(* Every step in order keeps what the order gives.                          *)
LEMMA OrderNext ==
  TwoClients /\ FedInv /\ OrderInv /\ [FederationNext]_allvars /\ in_order' => OrderInv'
<1> SUFFICES ASSUME TwoClients, FedInv, OrderInv, [FederationNext]_allvars, in_order'
             PROVE  OrderInv'
  OBVIOUS
<1>1. Orderly' /\ Linked' /\ Attended'
  BY OrderlyNext, AttendedNext DEF OrderInv
<1>2. Passing'
  <2>1. FedInv' /\ [Next]_vars
    BY FedNext
  <2>2. TwoClients'
    BY DEF TwoClients
  <2>3. OneWriter'
    BY <1>1, <2>1, <2>2, OneWritesNext
  <2>4. [Next /\ OneWriter']_vars
    BY <2>1, <2>3
  <2> QED BY <2>4, PassingNext DEF FedInv, ServerInv, OrderInv
<1>3. GoneOver'
  BY GoneOverNext DEF OrderInv
<1>4. \A c \in Clients : Uploads(c)'
  BY UploadsNext DEF OrderInv
<1>5. \A c \in Clients : Results(c)'
  BY ResultsNext DEF OrderInv
<1> QED BY <1>1, <1>2, <1>3, <1>4, <1>5 DEF OrderInv

(* It holds at the start.                                                   *)
LEMMA OrderInit == FederationInit => OrderInv
<1> SUFFICES ASSUME FederationInit PROVE OrderInv
  OBVIOUS
<1>1. Passing
  BY PassingInit DEF FederationInit
<1>2. up = "up" /\ (\A c \in Clients : step[c] = "off") /\ \A t \in Threads : pc[t] = "idle"
  BY DEF FederationInit, Init, Each
<1>3. Orderly /\ Linked /\ Attended /\ GoneOver
  BY <1>2, StepNames, FederationAssumption DEF Orderly, Linked, Attended, GoneOver, Over, Waits, Done
<1>4. ASSUME NEW c \in Clients PROVE Uploads(c) /\ Results(c)
  BY <1>2 DEF Uploads, Results, Done
<1> QED BY <1>1, <1>3, <1>4 DEF OrderInv

(* The invariant of a run, as long as it is in order.                       *)
InOrderInv == in_order => OrderInv
(* It is kept as long as the order is.                                      *)
LEMMA InOrderNext ==
  TwoClients /\ FedInv /\ InOrderInv /\ [FederationNext]_allvars => InOrderInv'
<1> SUFFICES ASSUME TwoClients, FedInv, InOrderInv, [FederationNext]_allvars, in_order'
             PROVE  OrderInv'
  BY DEF InOrderInv
<1>1. in_order
  BY InOrder
<1> QED BY <1>1, OrderNext DEF InOrderInv

(* What the two clients of the repository get from a run in the order of    *)
(* the manual: every candidate was gone over, and the files hold every      *)
(* result.  (With a third client it fails: two that upload at once race for *)
(* a slot of their bucket, and a line is lost.)                             *)
THEOREM Complete == ASSUME TwoClients PROVE FederationSpec => []ResultsComplete
<1> DEFINE CompleteInv == FedInv /\ AllMet /\ InOrderInv
<1>1. FederationInit => CompleteInv
  BY FedInit, AllMetInit, OrderInit DEF FederationInit, InOrderInv
<1>2. CompleteInv /\ [FederationNext]_allvars => CompleteInv'
  BY FedNext, AllMetNext, InOrderNext DEF FedInv
<1>3. CompleteInv => ResultsComplete
  <2> SUFFICES ASSUME CompleteInv, in_order,
                      \A c \in Clients : step[c] = "succeeded" /\ Len(duplicate_docs[c]) <= ReplyIds,
                      NEW c \in Clients
               PROVE  local[c] \subseteq seen /\ file[c] = Recorded(c) \cap local[c]
    BY DEF ResultsComplete
  <2>0. OrderInv /\ TypeOK /\ ClientInv(c) /\ Trigger \in Clients
    BY FederationAssumption DEF InOrderInv, FedInv, ClientsInv, ServerInv
  <2>1. up = "up"
    BY <2>0 DEF OrderInv, Linked
  <2>2. local[c] \subseteq taken
    BY <2>0, <2>1 DEF OrderInv, Uploads, Done
  <2>3. taken \subseteq seen
    BY <2>0 DEF OrderInv, GoneOver, Over, Done
  <2>4. file[c] = Heard(duplicate_docs[c]) \cap IdMapping(c)
    BY <2>0 DEF OrderInv, Results
  <2>5. Heard(duplicate_docs[c]) = Recorded(c)
    <3>1. duplicate_docs[c] \in Seq(Docs) /\ Len(duplicate_docs[c]) <= ReplyIds /\ ReplyIds \in Nat
      BY <2>0, FederationAssumption DEF TypeOK
    <3>2. DOMAIN duplicate_docs[c] = 1..Len(duplicate_docs[c]) /\ Len(duplicate_docs[c]) \in Nat
      BY <3>1
    <3>3. \A j \in DOMAIN duplicate_docs[c] : j <= ReplyIds
      BY <3>1, <3>2
    <3> QED BY <3>3 DEF Heard, Recorded
  <2>6. Recorded(c) \subseteq sent
    BY DEF AllMet, RecordsMet, Met
  <2>7. IdMapping(c) \cap sent = local[c]
    BY <2>0 DEF ClientInv, Sending, After
  <2> QED BY <2>2, <2>3, <2>4, <2>5, <2>6, <2>7
<1> QED BY <1>1, <1>2, <1>3, PTL DEF FederationSpec
=============================================================================
