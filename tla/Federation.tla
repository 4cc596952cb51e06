----------------------------- MODULE Federation -----------------------------
(***************************************************************************)
(* The clients (src/fed/client.cpp, FedClient::run) against the server of   *)
(* FedServer.  Each request of a client opens a connection of its own, and  *)
(* the server a detached thread for it.  A run has one connection at a      *)
(* time, so <<c, r>> names the thread that serves run r of client c.  A     *)
(* connection may break, and a client be killed, alone: its thread then     *)
(* goes on with what it is doing, beside the thread of the client's next    *)
(* run.                                                                     *)
(***************************************************************************)
EXTENDS FedServer

CONSTANTS
  RunDocs,     \* [Clients -> Seq(SUBSET Docs)]: the candidates of each run; their
               \* random ids are drawn anew, so no two runs share one
  Trigger,     \* the client that sends CALCULATE ("client2")
  ReplyIds,    \* ids of a RESULTS line that fit the client's 1024-byte buffer
  MaxLost      \* bound: connections broken and clients killed

ASSUME FederationAssumption ==
  /\ Threads = UNION {{c} \X DOMAIN RunDocs[c] : c \in Clients}
  /\ Registered = Clients
  /\ Trigger \in Clients
  /\ ReplyIds \in Nat /\ MaxLost \in Nat
  /\ RunDocs \in [Clients -> Seq(SUBSET Docs)]
  /\ \A c \in Clients : \A r \in DOMAIN RunDocs[c] :
       /\ RunDocs[c][r] # {} /\ IsFiniteSet(RunDocs[c][r])
       /\ \A d \in RunDocs[c][r] : Owner[d] = c
       /\ \A s \in DOMAIN RunDocs[c] : s # r => RunDocs[c][s] \cap RunDocs[c][r] = {}

(* The bounds of FedServer's environment leave room for all the runs.       *)
ASSUME RoomAssumption ==
  \A c \in Clients :
    /\ Len(RunDocs[c]) <= MaxKeys
    /\ \A r \in DOMAIN RunDocs[c] : Cardinality(RunDocs[c][r]) <= MaxBlock

VARIABLES
  step,        \* where FedClient::run of each client is
  runs,        \* runs started so far
  server_key,  \* the key of the last HELLO
  local,       \* local_candidates after the local deduplication
  linked,      \* whether the connection of the client is alive
  file,        \* the ids mapped back into global_duplicates.txt, by client
  in_order,    \* history: everything so far was done in the order of the manual
  cut_off,     \* history: this server process has calculated for a client2
               \* that had gone
  lost         \* environment: connections broken and clients killed so far

client  == <<step, runs, server_key, local, linked, file>>
history == <<in_order, cut_off, lost>>
allvars == <<vars, client, history>>

(* The thread that serves the run of c under way.                           *)
Self(c) == <<c, runs[c]>>
Connected(t) == t = Self(t[1]) /\ linked[t[1]]

(* id_mapping holds the ids of the current run, those of documents that the *)
(* local deduplication removed included.                                    *)
IdMapping(c) == RunDocs[c][runs[c]]

(* Where a client waits, and the answer it goes on with.                     *)
Wanted == [get_key |-> "PARAMS", get_ready |-> "READY",
           get_confirmation |-> "CANDIDATES_RECEIVED",
           get_done |-> "CALCULATION_DONE", get_results |-> "RESULTS"]
Awaiting == DOMAIN Wanted
Ended    == {"off", "succeeded", "failed"}

FederationInit ==
  /\ Init
  /\ step = [c \in Clients |-> "off"]
  /\ runs = [c \in Clients |-> 0]
  /\ server_key = [c \in Clients |-> 0]
  /\ local = [c \in Clients |-> {}]
  /\ linked = [c \in Clients |-> FALSE]
  /\ file  = [c \in Clients |-> {}]
  /\ in_order = TRUE /\ cut_off = FALSE /\ lost = 0

-----------------------------------------------------------------------------
Goto(c, s) == step' = [step EXCEPT ![c] = s]

Connect(c) == linked' = [linked EXCEPT ![c] = TRUE]
Close(c)   == linked' = [linked EXCEPT ![c] = FALSE]

(* A process has no key and no candidates at first, and none when it has    *)
(* failed; its file stays.                                                  *)
Forget(c) == /\ server_key' = [server_key EXCEPT ![c] = 0]
             /\ local' = [local EXCEPT ![c] = {}]
Fail(c)   == Goto(c, "failed") /\ Close(c) /\ Forget(c) /\ UNCHANGED <<runs, file>>

(* The process is started, by hand.                                         *)
Start(c) ==
  /\ step[c] \in Ended
  /\ runs[c] < Len(RunDocs[c])
  /\ runs' = [runs EXCEPT ![c] = @ + 1]
  /\ Goto(c, "hello")
  /\ Forget(c)
  /\ UNCHANGED <<vars, linked, file>>

(* connect() to a server that is not there fails, and so does the run.      *)
ConnectFails(c) ==
  /\ up # "up"
  /\ step[c] \in {"hello", "candidates", "calculate", "fetch"}
  /\ Fail(c)
  /\ UNCHANGED vars

(* Mutant: only a failing send() is noticed, a failing read() is not.       *)
SendFailsOnly(c) ==
  /\ step[c] \in {"data_header", "data"}
  /\ ~linked[c]
  /\ Fail(c)
  /\ UNCHANGED vars

(* The connection is closed before an answer: every caller gives up.        *)
ConnectionLost(c) ==
  /\ step[c] \in Awaiting \cup {"data_header", "data", "read_again"}
  /\ ~linked[c]
  /\ Fail(c)
  /\ UNCHANGED vars

(* After the answer that it waits for a client closes the connection,       *)
(* unless it has more to send.                                              *)
Hear(c, s) ==
  /\ step[c] = s
  /\ linked[c]
  /\ reply[Self(c)].kind = Wanted[s]
  /\ Finish(Self(c))

(* get_global_params                                                        *)
SendHello(c) ==
  /\ step[c] = "hello"
  /\ Take(Self(c), "hello", c, <<>>, 0) /\ UNCHANGED sent
  /\ Connect(c)
  /\ Goto(c, "get_key")
  /\ UNCHANGED <<runs, server_key, local, file>>

(* Mutant: the client counts the key it will get next.                      *)
HearNextKey(c) ==
  /\ Hear(c, "get_key")
  /\ server_key' = [server_key EXCEPT ![c] = reply[Self(c)].key + 1]
  /\ Close(c)
  /\ Goto(c, "process")
  /\ UNCHANGED <<runs, local, file>>

HearKey(c) ==
  /\ Hear(c, "get_key")
  /\ server_key' = [server_key EXCEPT ![c] = reply[Self(c)].key]
  /\ Close(c)
  /\ Goto(c, "process")
  /\ UNCHANGED <<runs, local, file>>

(* process_local_data and perform_local_deduplication: at least one         *)
(* document of every group of local duplicates stays.                       *)
ProcessLocally(c) ==
  /\ step[c] = "process"
  /\ \E kept \in SUBSET IdMapping(c) \ {{}} : local' = [local EXCEPT ![c] = kept]
  /\ Goto(c, "candidates")
  /\ UNCHANGED <<vars, runs, server_key, linked, file>>

(* The GPU or the preprocessor cannot be initialised.                       *)
ProcessFails(c) ==
  /\ step[c] = "process"
  /\ Fail(c)
  /\ UNCHANGED vars

(* send_encrypted_candidates: CANDIDATES, CANDIDATES_DATA and the block on  *)
(* one connection.                                                          *)
SendCandidates(c) ==
  /\ step[c] = "candidates"
  /\ AnswerCandidates(Self(c), c)
  /\ Connect(c)
  /\ Goto(c, "get_ready")
  /\ UNCHANGED <<runs, server_key, local, file>>

HearReady(c) ==
  /\ Hear(c, "get_ready")
  /\ Goto(c, "data_header")
  /\ UNCHANGED <<runs, server_key, local, linked, file>>

SendDataHeader(c) ==
  /\ linked[c]
  /\ step[c] = "data_header"
  /\ HandleDataHeader(Self(c))
  /\ Goto(c, "data")
  /\ UNCHANGED <<runs, server_key, local, linked, file>>

Orders(S) == {f \in [1..Cardinality(S) -> S] : \A i, j \in DOMAIN f : f[i] = f[j] => i = j}

SendData(c) ==
  /\ linked[c]
  /\ step[c] = "data"
  /\ \E ds \in Orders(local[c]) :
       Take(Self(c), "block", NoClient,
            [i \in DOMAIN ds |-> [doc |-> ds[i], key |-> server_key[c]]], 0)
  /\ sent' = sent \cup local[c]
  /\ Goto(c, "get_confirmation")
  /\ UNCHANGED <<runs, server_key, local, linked, file>>

(* Mutant: nobody sends CALCULATE.                                          *)
HearConfirmationAndFetch(c) ==
  /\ Hear(c, "get_confirmation")
  /\ Close(c)
  /\ Goto(c, IF c = Trigger THEN "fetch" ELSE "sleep")
  /\ UNCHANGED <<runs, server_key, local, file>>

(* run() goes on with CALCULATE in client2; the others sleep ten seconds.   *)
HearConfirmation(c) ==
  /\ Hear(c, "get_confirmation")
  /\ Close(c)
  /\ Goto(c, IF c = Trigger THEN "calculate" ELSE "sleep")
  /\ UNCHANGED <<runs, server_key, local, file>>

SendCalculate(c) ==
  /\ step[c] = "calculate"
  /\ Take(Self(c), "calculate", NoClient, <<>>, 0) /\ UNCHANGED sent
  /\ Connect(c)
  /\ Goto(c, "get_done")
  /\ UNCHANGED <<runs, server_key, local, file>>

HearDone(c) ==
  /\ Hear(c, "get_done")
  /\ Close(c)
  /\ Goto(c, "fetch")
  /\ UNCHANGED <<runs, server_key, local, file>>

(* Nothing but time ends the sleep.                                         *)
Wake(c) ==
  /\ step[c] = "sleep"
  /\ Goto(c, "fetch")
  /\ UNCHANGED <<vars, runs, server_key, local, linked, file>>

(* Any other answer makes the run fail, except in place of a confirmation:  *)
(* there the client reads a second time, and the server has no more to say. *)
HearRefusal(c) ==
  /\ step[c] \in Awaiting \ {"get_confirmation"}
  /\ linked[c]
  /\ reply[Self(c)].kind \notin {"none", Wanted[step[c]]}
  /\ Finish(Self(c))
  /\ Fail(c)

HearTooMany(c) ==
  /\ step[c] = "get_confirmation"
  /\ linked[c]
  /\ reply[Self(c)].kind = "TOO_MANY_CANDIDATES"
  /\ Finish(Self(c))
  /\ Goto(c, "read_again")
  /\ UNCHANGED <<runs, server_key, local, linked, file>>

SendGetResults(c) ==
  /\ step[c] = "fetch"
  /\ Take(Self(c), "get", c, <<>>, 0) /\ UNCHANGED sent
  /\ Connect(c)
  /\ Goto(c, "get_results")
  /\ UNCHANGED <<runs, server_key, local, file>>

(* receive_and_process_results: the ids in the first 1024 bytes, those of   *)
(* this run mapped back; the file is overwritten.                           *)
Heard(ids) == {ids[i] : i \in {j \in DOMAIN ids : j <= ReplyIds}}

(* Mutant: ids that are not in id_mapping are kept.                         *)
HearResultsUnmapped(c) ==
  /\ Hear(c, "get_results")
  /\ file' = [file EXCEPT ![c] = Heard(reply[Self(c)].ids)]
  /\ Close(c)
  /\ Goto(c, "succeeded")
  /\ UNCHANGED <<runs, server_key, local>>

HearResults(c) ==
  /\ Hear(c, "get_results")
  /\ file' = [file EXCEPT ![c] = Heard(reply[Self(c)].ids) \cap IdMapping(c)]
  /\ Close(c)
  /\ Goto(c, "succeeded")
  /\ UNCHANGED <<runs, server_key, local>>

-----------------------------------------------------------------------------
Advance(c) ==
  \/ ConnectFails(c) \/ ConnectionLost(c) \/ HearRefusal(c) \/ HearTooMany(c)
  \/ SendHello(c) \/ HearKey(c) \/ ProcessLocally(c) \/ ProcessFails(c)
  \/ SendCandidates(c) \/ HearReady(c) \/ SendDataHeader(c) \/ SendData(c)
  \/ HearConfirmation(c) \/ SendCalculate(c) \/ HearDone(c)
  \/ SendGetResults(c) \/ HearResults(c)

(* With the server's process end all connections, and what it remembers.    *)
Links == /\ linked' = IF up' = "up" THEN linked ELSE [c \in Clients |-> FALSE]
         /\ cut_off' = (cut_off /\ up' = "up")
         /\ UNCHANGED <<step, runs, server_key, local, file, lost>>

(* A thread works on for a client that has gone, and answers nobody.        *)
Leave(t) ==
  /\ ~Connected(t)
  /\ HangUp(t) \/ Finish(t)
  /\ UNCHANGED <<client, cut_off, lost>>

Serve(t) == (Handler(t) /\ Links) \/ Leave(t)

ServerFaults == (Kill \/ Restart) /\ Links

(* One connection breaks; the client finds out when it reads or sends.      *)
CutOff(c) ==
  /\ linked[c]
  /\ Close(c)
  /\ UNCHANGED <<vars, step, runs, server_key, local, file>>

(* A client's process is killed, or cannot connect.                         *)
Abort(c) ==
  /\ step[c] \notin Ended
  /\ Fail(c)
  /\ UNCHANGED vars

InCalculation(t) == pc[t] \in Calculating \cup {"calculate"}

ClientFaults == \E c \in Clients :
  /\ lost < MaxLost /\ lost' = lost + 1
  /\ CutOff(c) \/ Abort(c)
  /\ cut_off' = (cut_off \/ (c = Trigger /\ linked[c] /\ InCalculation(Self(c))))

(* The order of the manual: client2 is started when the others have         *)
(* uploaded, and finishes its calculation while they sleep.  An operator    *)
(* who starts a process, a sleep that ends, a server or client that is      *)
(* killed and a broken connection may break it.                             *)
Uploaded(c) == step[c] \in {"sleep", "fetch", "get_results", "succeeded"}
Orderly ==
  /\ step[Trigger] # "off" => \A c \in Clients \ {Trigger} : Uploaded(c)
  /\ \A c \in Clients \ {Trigger} :
       step[c] \in {"fetch", "get_results", "succeeded"} =>
         step[Trigger] \in {"fetch", "get_results", "succeeded"}

Sleeps(c)   == Wake(c) /\ in_order' = (in_order /\ Orderly') /\ UNCHANGED <<cut_off, lost>>
ByHand(c)   == Start(c) /\ in_order' = (in_order /\ Orderly') /\ UNCHANGED <<cut_off, lost>>
ByItself(c) == (Advance(c) /\ UNCHANGED history) \/ Sleeps(c)
Serving(t)  == Serve(t) /\ UNCHANGED in_order
Broken      == (ServerFaults \/ ClientFaults) /\ in_order' = FALSE

(* A process that can go on does, asleep or not.                            *)
GoesOn == (\E c \in Clients : ByItself(c)) \/ (\E t \in Threads : Serving(t))

FederationNext == (\E c \in Clients : ByHand(c)) \/ GoesOn \/ Broken
FederationSpec == FederationInit /\ [][FederationNext]_allvars
FairFederationSpec == FederationSpec /\ WF_allvars(GoesOn)

-----------------------------------------------------------------------------
(* Properties                                                               *)

(* The type invariant of the clients: no process has a key that the server  *)
(* has not generated, or more runs than were started.                       *)
FederationTypeOK ==
  /\ step \in [Clients -> Ended \cup Awaiting \cup
        {"hello", "process", "candidates", "data_header", "data", "read_again",
         "calculate", "sleep", "fetch"}]
  /\ \A c \in Clients : runs[c] \in 0..Len(RunDocs[c]) /\ server_key[c] \in 0..issued[c]
  /\ \A c \in Clients : local[c] \subseteq Docs /\ file[c] \subseteq Docs
  /\ history \in BOOLEAN \X BOOLEAN \X (0..MaxLost)

(* Only client2 calculates and waits for the answer, so one calculation     *)
(* runs at a time and no result is recorded without its counterpart: as     *)
(* long as this server process has not gone on calculating for a client2    *)
(* that was cut off, whoever else is killed, cut off or run again.          *)
ResultsPaired == cut_off \/ (OneCalculator /\ NoLoneResult)

(* What a client writes into its file it sent to the server in this run,    *)
(* and another client sent a document of the same bucket.                   *)
SavedHaveWitness ==
  \A c \in Clients : step[c] = "succeeded" =>
    \A d \in file[c] : d \in local[c] /\
      \E e \in sent : Owner[e] # c /\ BucketOf[e] = BucketOf[d]

(* When the runs were made in the order of the manual and have all          *)
(* succeeded, every candidate was gone over by a calculation and every      *)
(* result of this run is in its client's file, if the answers fit.          *)
ResultsComplete ==
  in_order /\ (\A c \in Clients : step[c] = "succeeded" /\ Len(duplicate_docs[c]) <= ReplyIds) =>
    \A c \in Clients : /\ local[c] \subseteq seen
                       /\ file[c] = Recorded(c) \cap local[c]

(* The processes that were started, finitely many, all end, except one       *)
(* whose block was refused: it reads on for a confirmation while the server *)
(* waits for a request.                                                     *)
RunsEnd == <>[](\A c \in Clients : step[c] \in Ended \cup {"read_again"})

=============================================================================
