--------------------------- MODULE DataPreprocessor ---------------------------
(***************************************************************************)
(* load_documents_parallel (src/fed/data_preprocessor.cpp): one loader      *)
(* thread reads the lines of a file into raw_queue_, num_threads_ workers   *)
(* take them, parse and filter them, and each appends what it kept to the   *)
(* result when it ends.  raw_mutex_ makes each access of the queue atomic;  *)
(* loading_done_ is atomic and set outside the lock.  The client calls it   *)
(* for one file after the other, on one preprocessor                        *)
(* (FedClient::process_local_data).                                         *)
(***************************************************************************)
EXTENDS Integers, Sequences, FiniteSets

CONSTANTS
  Files,     \* the files, in directory order: Files[f][l] says whether line l
             \* has a text of at least min_length_ bytes
  Workers,   \* the processing threads (num_threads_)
  NoLine     \* what `raw' holds between two lines

ASSUME PreprocessorAssumption ==
  /\ Files \in Seq(Seq(BOOLEAN))
  /\ Workers # {}
  /\ NoLine \notin Nat

VARIABLES
  phase,             \* the client: "next" between files, "loading", "done"
  next_file,         \* files begun so far
  local_candidates,  \* the client's list, each as <<file, line>>
  loading_done,      \* loading_done_
  raw_queue,         \* raw_queue_, the line numbers
  line_number,       \* lines the loader has pushed
  loader,            \* where the loader thread is
  at,                \* where each worker is in process_worker
  raw,               \* the line each worker has in hand
  local_results,     \* the lines each worker has kept
  documents,         \* the result of this file
  opened             \* history: the files that could be opened

caller == <<phase, next_file, local_candidates>>
queue  == <<loading_done, raw_queue, line_number, loader, opened>>
work   == <<at, raw, local_results, documents>>
vars   == <<caller, queue, work>>

Each(v) == [w \in Workers |-> v]

Init ==
  /\ phase = "next" /\ next_file = 0 /\ local_candidates = <<>>
  /\ loading_done = FALSE /\ raw_queue = <<>> /\ line_number = 0
  /\ loader = "ended" /\ opened = {}
  /\ at = Each("ended") /\ raw = Each(NoLine) /\ local_results = Each(<<>>)
  /\ documents = <<>>

-----------------------------------------------------------------------------
(* The caller.                                                              *)

(* Mutant: loading_done_ keeps its value of the file before.                *)
StartLoadingStale ==
  /\ phase = "next"
  /\ next_file < Len(Files)
  /\ phase' = "loading"
  /\ next_file' = next_file + 1
  /\ raw_queue' = <<>>
  /\ line_number' = 0
  /\ loader' = "opening"
  /\ at' = Each("polling") /\ raw' = Each(NoLine) /\ local_results' = Each(<<>>)
  /\ documents' = <<>>
  /\ UNCHANGED <<loading_done, local_candidates, opened>>

(* Mutant: the loop over the files runs once too often.                     *)
StartLoadingOnceMore ==
  /\ phase = "next"
  /\ next_file <= Len(Files)
  /\ phase' = "loading"
  /\ next_file' = next_file + 1
  /\ loading_done' = FALSE
  /\ raw_queue' = <<>>
  /\ line_number' = 0
  /\ loader' = "opening"
  /\ at' = Each("polling") /\ raw' = Each(NoLine) /\ local_results' = Each(<<>>)
  /\ documents' = <<>>
  /\ UNCHANGED <<local_candidates, opened>>

(* The flags and the queue are reset, then the threads are started.         *)
StartLoading ==
  /\ phase = "next"
  /\ next_file < Len(Files)
  /\ phase' = "loading"
  /\ next_file' = next_file + 1
  /\ loading_done' = FALSE
  /\ raw_queue' = <<>>
  /\ line_number' = 0
  /\ loader' = "opening"
  /\ at' = Each("polling") /\ raw' = Each(NoLine) /\ local_results' = Each(<<>>)
  /\ documents' = <<>>
  /\ UNCHANGED <<local_candidates, opened>>

(* Every thread has been joined; the documents join the client's list.      *)
Collect ==
  /\ phase = "loading"
  /\ loader = "ended"
  /\ \A w \in Workers : at[w] = "ended"
  /\ phase' = "next"
  /\ local_candidates' =
       local_candidates \o [i \in DOMAIN documents |-> <<next_file, documents[i]>>]
  /\ UNCHANGED <<next_file, queue, work>>

(* Without a single candidate the client makes up sample documents.         *)
Samples == <<<<0, 1>>, <<0, 2>>>>

AllLoaded ==
  /\ phase = "next"
  /\ next_file = Len(Files)
  /\ phase' = "done"
  /\ local_candidates' = IF local_candidates = <<>> THEN Samples ELSE local_candidates
  /\ UNCHANGED <<next_file, queue, work>>

-----------------------------------------------------------------------------
(* load_worker                                                              *)

(* Mutant: loading_done_ is set before the lines are pushed.                *)
OpenFileDone ==
  /\ loader = "opening"
  /\ loader' = "reading"
  /\ loading_done' = TRUE
  /\ opened' = opened \cup {next_file}
  /\ UNCHANGED <<caller, raw_queue, line_number, work>>

OpenFile ==
  /\ loader = "opening"
  /\ loader' = "reading"
  /\ opened' = opened \cup {next_file}
  /\ UNCHANGED <<caller, loading_done, raw_queue, line_number, work>>

OpenFails ==
  /\ loader = "opening"
  /\ loader' = "ended"
  /\ loading_done' = TRUE
  /\ UNCHANGED <<caller, raw_queue, line_number, opened, work>>

PushLine ==
  /\ loader = "reading"
  /\ line_number < Len(Files[next_file])
  /\ line_number' = line_number + 1
  /\ raw_queue' = Append(raw_queue, line_number + 1)
  /\ UNCHANGED <<caller, loading_done, loader, opened, work>>

(* Mutant: the loader does not say that it is done.                         *)
EndOfFileUnsaid ==
  /\ loader = "reading"
  /\ line_number = Len(Files[next_file])
  /\ loader' = "ended"
  /\ UNCHANGED <<caller, loading_done, raw_queue, line_number, opened, work>>

EndOfFile ==
  /\ loader = "reading"
  /\ line_number = Len(Files[next_file])
  /\ loading_done' = TRUE
  /\ loader' = "ended"
  /\ UNCHANGED <<caller, raw_queue, line_number, opened, work>>

Loader == OpenFile \/ OpenFails \/ PushLine \/ EndOfFile

-----------------------------------------------------------------------------
(* process_worker.  With raw_mutex_ held the queue cannot change between    *)
(* the two tests, so they are one step; a worker that finds the queue empty *)
(* and the loader still at work sleeps and tries again (no step).           *)

(* Mutant: without the lock two workers can read one front().               *)
PopUnlocked(w) ==
  /\ at[w] = "polling"
  /\ raw_queue # <<>>
  /\ raw' = [raw EXCEPT ![w] = Head(raw_queue)]
  /\ raw_queue' \in {raw_queue, Tail(raw_queue)}
  /\ at' = [at EXCEPT ![w] = "parsing"]
  /\ UNCHANGED <<caller, loading_done, line_number, loader, opened, local_results, documents>>

PopLine(w) ==
  /\ at[w] = "polling"
  /\ raw_queue # <<>>
  /\ raw' = [raw EXCEPT ![w] = Head(raw_queue)]
  /\ raw_queue' = Tail(raw_queue)
  /\ at' = [at EXCEPT ![w] = "parsing"]
  /\ UNCHANGED <<caller, loading_done, line_number, loader, opened, local_results, documents>>

ProcessLine(w) ==
  /\ at[w] = "parsing"
  /\ local_results' = IF Files[next_file][raw[w]]
                        THEN [local_results EXCEPT ![w] = Append(@, raw[w])]
                        ELSE local_results
  /\ raw' = [raw EXCEPT ![w] = NoLine]
  /\ at' = [at EXCEPT ![w] = "polling"]
  /\ UNCHANGED <<caller, queue, documents>>

NoMoreLines(w) ==
  /\ at[w] = "polling"
  /\ raw_queue = <<>>
  /\ loading_done
  /\ at' = [at EXCEPT ![w] = "merging"]
  /\ UNCHANGED <<caller, queue, raw, local_results, documents>>

(* Under processed_mutex_.                                                  *)
MergeResults(w) ==
  /\ at[w] = "merging"
  /\ documents' = documents \o local_results[w]
  /\ local_results' = [local_results EXCEPT ![w] = <<>>]
  /\ at' = [at EXCEPT ![w] = "ended"]
  /\ UNCHANGED <<caller, queue, raw>>

Worker(w) == PopLine(w) \/ ProcessLine(w) \/ NoMoreLines(w) \/ MergeResults(w)

-----------------------------------------------------------------------------
Next == StartLoading \/ Collect \/ AllLoaded \/ Loader \/ \E w \in Workers : Worker(w)

Spec == Init /\ [][Next]_vars

(* Every thread that can take a step does so in the end.                    *)
FairSpec ==
  /\ Spec
  /\ WF_vars(StartLoading \/ Collect \/ AllLoaded)
  /\ WF_vars(Loader)
  /\ \A w \in Workers : WF_vars(Worker(w))

-----------------------------------------------------------------------------
(* Properties                                                               *)

LongLines == {l \in DOMAIN Files[next_file] : Files[next_file][l]}

(* The type invariant of the queue, the threads and the two lists.          *)
TypeOK ==
  /\ phase \in {"next", "loading", "done"}
  /\ next_file \in 0..Len(Files)
  /\ local_candidates \in Seq(Nat \X Nat)
  /\ loading_done \in BOOLEAN
  /\ raw_queue \in Seq(Nat)
  /\ line_number \in Nat
  /\ loader \in {"opening", "reading", "ended"}
  /\ at \in [Workers -> {"polling", "parsing", "merging", "ended"}]
  /\ raw \in [Workers -> Nat \cup {NoLine}]
  /\ local_results \in [Workers -> Seq(Nat)]
  /\ documents \in Seq(Nat)
  /\ opened \subseteq 1..Len(Files)
  /\ phase = "loading" => next_file \in 1..Len(Files)
  /\ loader # "ended" => phase = "loading"
  /\ \A w \in Workers : at[w] = "parsing" => raw[w] \in Nat

(* A worker leaves only when no line is left for it: the queue is empty,    *)
(* and the loader will not push another (load_worker sets loading_done_     *)
(* after its last push, process_worker reads it after the queue).           *)
LeavesNothing ==
  \A w \in Workers : phase = "loading" /\ at[w] \in {"merging", "ended"} =>
    /\ raw_queue = <<>>
    /\ next_file \in opened => line_number = Len(Files[next_file])

(* When the threads of a file have been joined, the result holds each line  *)
(* that is long enough, once: no worker dropped a line, none took a line    *)
(* that another had, none of an earlier file came along.                    *)
EveryLineOnce ==
  phase = "loading" /\ loader = "ended" /\ (\A w \in Workers : at[w] = "ended") =>
    /\ {documents[i] : i \in DOMAIN documents} =
         IF next_file \in opened THEN LongLines ELSE {}
    /\ \A i, j \in DOMAIN documents : documents[i] = documents[j] => i = j

(* A file counts as loaded when its threads have been joined.  The sample   *)
(* documents are the client's own.                                          *)
Promise == INSTANCE Loading WITH
  next_file <- IF phase = "loading" THEN next_file - 1 ELSE next_file,
  opened <- IF phase = "loading" THEN opened \ {next_file} ELSE opened,
  local_candidates <- IF local_candidates = Samples THEN <<>> ELSE local_candidates

(* load_documents_parallel does what a sequential loader promises, up to    *)
(* the order of the lines of one file.                                      *)
LoadsLikeOne == Promise!Spec

(* The client gets through all of its files: the joins return.              *)
AllFilesLoaded == <>(phase = "done")
=============================================================================
