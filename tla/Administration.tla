--------------------------- MODULE Administration ---------------------------
(***************************************************************************)
(* Who may use the server and what it writes down: AuthManager and         *)
(* AuditLogger (src/fed/auth_manager.cpp, audit_logger.cpp), which         *)
(* FedServer::init creates and every connection thread uses while it       *)
(* handles a request.  Each object has one mutex, and every public         *)
(* operation holds it from its first line to its return.  An operation of  *)
(* AuthManager is therefore one step; the logger's are split where its     *)
(* lock, the state of the stream and the write are told apart.             *)
(*                                                                         *)
(* The operations that the server does not call are called by an operator  *)
(* beside the threads.                                                     *)
(***************************************************************************)
EXTENDS Integers, Sequences, SequencesExt, Functions, Folds

CONSTANTS
  Threads,      \* connection threads
  Clients,      \* client ids that occur in requests and calls
  Defaults,     \* the ids that FedServer::init registers
  Keys,         \* API keys
  NumFiles,     \* log files that can be named; the first is audit.log
  NoClient,     \* no client is named: CALCULATE, a block, an unknown request
  Nobody,       \* nobody: the holder of a free mutex
  MaxRequests,  \* bound: requests of all threads
  MaxChanges,   \* bound: calls of set_log_file
  MaxUpdates    \* bound: calls that change the table of clients

ASSUME AdministrationAssumption ==
  /\ Defaults \subseteq Clients /\ NoClient \notin Clients
  /\ Keys # {} /\ "operator" \notin Threads /\ Nobody \notin Threads \cup {"operator"}
  /\ NumFiles \in Nat \ {0} /\ MaxRequests \in Nat /\ MaxChanges \in Nat /\ MaxUpdates \in Nat

VARIABLES
  stage,         \* FedServer::init: "logger", "auth", then "serving" or "refused"
  clients,       \* AuthManager::clients_
  initialized_,  \* of the logger
  open,          \* the stream is open
  log_file_,     \* the file it writes to
  mutex,         \* who holds the mutex of the logger
  pc,            \* where a thread is in its handler
  who,           \* the client id of its request
  reply,         \* "none" yet, "served" or "UNAUTHORIZED"
  op,            \* where the operator is in set_log_file
  answer,        \* what the operator's last authenticate_client returned
  files,         \* what the log files hold: the numbers of the requests
  asked,         \* requests a thread has taken
  changes,       \* calls of set_log_file
  updates,       \* calls that changed the table
  dropped,       \* history: entries the logger refused, as it was not initialized
  first,         \* history: the key a client id was first registered with
  revoked        \* history: clients that have been revoked

logger == <<initialized_, open, log_file_, mutex, files, dropped>>
table  == <<clients, first, revoked, answer, updates>>
threads == <<pc, who, reply, asked>>
operator == <<op, changes>>
vars   == <<stage, logger, table, threads, operator>>

NoAnswer == [yes |-> FALSE]
Info(k) == [api_key |-> k, write |-> TRUE, is_active |-> TRUE, seen |-> FALSE]
With(f, c, v) == [x \in DOMAIN f \cup {c} |-> IF x = c THEN v ELSE f[x]]

Init ==
  /\ stage = "logger"
  /\ clients = [c \in {} |-> 0] /\ first = [c \in {} |-> 0]
  /\ initialized_ = FALSE /\ open = FALSE /\ log_file_ = 1 /\ mutex = Nobody
  /\ pc = [t \in Threads |-> "idle"] /\ who = [t \in Threads |-> NoClient]
  /\ reply = [t \in Threads |-> "none"]
  /\ op = "idle" /\ changes = 0 /\ updates = 0 /\ answer = NoAnswer
  /\ files = [i \in 1..NumFiles |-> <<>>]
  /\ asked = [t \in Threads |-> 0] /\ dropped = {} /\ revoked = {}

-----------------------------------------------------------------------------
(* FedServer::init, before any thread.  The entries it logs itself are left *)
(* out.                                                                     *)

StartLogger ==
  /\ stage = "logger"
  /\ \E ok \in BOOLEAN :
       /\ open' = ok /\ initialized_' = ok
       /\ stage' = IF ok THEN "auth" ELSE "refused"
  /\ UNCHANGED <<log_file_, mutex, files, dropped, table, threads, operator>>

StartAuth ==
  /\ stage = "auth"
  /\ \E k \in [Defaults -> Keys] :
       /\ clients' = [c \in Defaults |-> Info(k[c])]
       /\ first' = k
  /\ stage' = "serving"
  /\ UNCHANGED <<logger, answer, revoked, updates, threads, operator>>

-----------------------------------------------------------------------------
(* A thread takes a request, looks the client up where the request names    *)
(* one, answers it, and logs one entry.                                     *)

Request(t) ==
  /\ stage = "serving" /\ pc[t] = "idle" /\ FoldFunction(+, 0, asked) < MaxRequests
  /\ \E c \in Clients \cup {NoClient} : who' = [who EXCEPT ![t] = c]
  /\ asked' = [asked EXCEPT ![t] = @ + 1]
  /\ pc' = [pc EXCEPT ![t] = "check"]
  /\ UNCHANGED <<stage, logger, table, reply, operator>>

(* is_client_registered does not look at is_active.                         *)
IsRegistered(c) == c \in DOMAIN clients

Check(t) ==
  /\ pc[t] = "check"
  /\ reply' = [reply EXCEPT ![t] = IF who[t] = NoClient \/ IsRegistered(who[t])
                                     THEN "served" ELSE "UNAUTHORIZED"]
  /\ pc' = [pc EXCEPT ![t] = "log"]
  /\ UNCHANGED <<stage, logger, table, who, asked, operator>>

Entry(t) == <<t, asked[t]>>

Return(t) ==
  /\ pc' = [pc EXCEPT ![t] = "idle"]
  /\ who' = [who EXCEPT ![t] = NoClient]
  /\ reply' = [reply EXCEPT ![t] = "none"]

(* log: the mutex, then the tests.  The entry of a logger that is not       *)
(* initialized is dropped.                                                  *)
LogBegins(t) ==
  /\ pc[t] = "log" /\ mutex = Nobody
  /\ IF initialized_ /\ open
       THEN /\ mutex' = t
            /\ pc' = [pc EXCEPT ![t] = "write"]
            /\ UNCHANGED <<dropped, who, reply>>
       ELSE /\ dropped' = dropped \cup {Entry(t)}
            /\ Return(t)
            /\ UNCHANGED mutex
  /\ UNCHANGED <<stage, initialized_, open, log_file_, files, table, asked, operator>>

(* The write and the flush.  What is written to a closed stream is gone.    *)
LogWrites(t) ==
  /\ pc[t] = "write"
  /\ files' = IF open THEN [files EXCEPT ![log_file_] = Append(@, Entry(t))] ELSE files
  /\ mutex' = Nobody
  /\ Return(t)
  /\ UNCHANGED <<stage, initialized_, open, log_file_, dropped, table, asked, operator>>

-----------------------------------------------------------------------------
(* set_log_file: closes the stream and opens it again on another file.  The *)
(* log entry of a change that succeeded is written by log, which waits for  *)
(* the mutex this call holds.                                               *)

(* Mutant: the stream is changed without the mutex.                         *)
SetLogFileUnlocked ==
  /\ stage = "serving" /\ op = "idle" /\ changes < MaxChanges
  /\ open' = FALSE
  /\ log_file_' \in 1..NumFiles
  /\ op' = "opening" /\ changes' = changes + 1
  /\ UNCHANGED <<stage, initialized_, mutex, files, dropped, table, threads>>

SetLogFile ==
  /\ stage = "serving" /\ op = "idle" /\ changes < MaxChanges /\ mutex = Nobody
  /\ mutex' = "operator"
  /\ open' = FALSE
  /\ log_file_' \in 1..NumFiles
  /\ op' = "opening" /\ changes' = changes + 1
  /\ UNCHANGED <<stage, initialized_, files, dropped, table, threads>>

(* Mutant: a change that failed is logged too.                              *)
OpenFailsAndLogs ==
  /\ op = "opening"
  /\ initialized_' = FALSE
  /\ op' = "relock"
  /\ UNCHANGED <<stage, open, log_file_, mutex, files, dropped, table, threads, changes>>

OpenFails ==
  /\ op = "opening"
  /\ initialized_' = FALSE
  /\ mutex' = Nobody
  /\ op' = "idle"
  /\ UNCHANGED <<stage, open, log_file_, files, dropped, table, threads, changes>>

OpenSucceeds ==
  /\ op = "opening"
  /\ initialized_' = TRUE /\ open' = TRUE
  /\ op' = "relock"
  /\ UNCHANGED <<stage, log_file_, mutex, files, dropped, table, threads, changes>>

-----------------------------------------------------------------------------
(* The operator's calls of AuthManager.                                     *)

Calls == stage = "serving" /\ op = "idle"
Update(new) ==
  /\ Calls /\ updates < MaxUpdates
  /\ clients' = new
  /\ answer' = NoAnswer
  /\ updates' = updates + 1
  /\ UNCHANGED <<stage, logger, threads, operator>>

(* Mutant: an id that is known gets the new key and rights.                 *)
RegisterClientAgain(c, k) ==
  /\ Update(With(clients, c, Info(k)))
  /\ first' = IF c \in DOMAIN first THEN first ELSE With(first, c, k)
  /\ UNCHANGED revoked

(* register_client refuses an id it has.                                    *)
RegisterClient(c, k) ==
  /\ c \notin DOMAIN clients
  /\ Update(With(clients, c, Info(k)))
  /\ first' = With(first, c, k)
  /\ UNCHANGED revoked

(* authenticate_client, in the order of its tests                           *)
Authentic(c, k) ==
  c \in DOMAIN clients /\ clients[c].is_active /\ clients[c].api_key = k

AuthenticateClient(c, k) ==
  /\ Calls
  /\ answer' = IF Authentic(c, k) THEN [yes |-> TRUE, client |-> c, key |-> k] ELSE NoAnswer
  /\ UNCHANGED <<stage, logger, clients, first, revoked, updates, threads, operator>>

(* revoke_client keeps the entry, its key and its permissions.              *)
RevokeClient(c) ==
  /\ c \in DOMAIN clients
  /\ Update([clients EXCEPT ![c].is_active = FALSE])
  /\ revoked' = revoked \cup {c}
  /\ UNCHANGED first

UpdatePermissions(c) ==
  /\ c \in DOMAIN clients
  /\ \E w \in BOOLEAN : Update([clients EXCEPT ![c].write = w])
  /\ UNCHANGED <<first, revoked>>

UpdateLastSeen(c) ==
  /\ c \in DOMAIN clients
  /\ Update([clients EXCEPT ![c].seen = TRUE])
  /\ UNCHANGED <<first, revoked>>

-----------------------------------------------------------------------------

Handle(t) == Check(t) \/ LogBegins(t) \/ LogWrites(t)
Reopen    == OpenFails \/ OpenSucceeds

Next ==
  \/ StartLogger \/ StartAuth
  \/ \E t \in Threads : Request(t) \/ Handle(t)
  \/ SetLogFile \/ Reopen
  \/ \E c \in Clients :
       \/ \E k \in Keys : RegisterClient(c, k) \/ AuthenticateClient(c, k)
       \/ RevokeClient(c) \/ UpdatePermissions(c) \/ UpdateLastSeen(c)

Spec == Init /\ [][Next]_vars

(* Threads that can go on are scheduled, and set_log_file goes on.  Nothing *)
(* is assumed of who gets the mutex, and the operator need never call.      *)
FairSpec ==
  /\ Spec
  /\ WF_vars(\E t \in Threads : Handle(t))
  /\ WF_vars(Reopen)

-----------------------------------------------------------------------------
(* Properties                                                               *)

(* The account of the log: every request whose handling has ended has its   *)
(* entry exactly once, in one of the files, unless the logger dropped it;   *)
(* and a file has the entries of a thread in the order of its requests.     *)
(* No change of the file loses an entry that log has let through.           *)
Ended == UNION {{<<t, n>> : n \in 1..(IF pc[t] = "idle" THEN asked[t] ELSE asked[t] - 1)} :
                  t \in Threads}
Logged == UNION {ToSet(files[f]) : f \in 1..NumFiles}
LogAccounts ==
  /\ \A f, g \in 1..NumFiles : \A i \in DOMAIN files[f], j \in DOMAIN files[g] :
       files[f][i] = files[g][j] => f = g /\ i = j
  /\ Logged \cap dropped = {}
  /\ Logged \cup dropped = Ended
  /\ \A f \in 1..NumFiles : \A i, j \in DOMAIN files[f] :
       i < j /\ files[f][i][1] = files[f][j][1] => files[f][i][2] < files[f][j][2]

(* Registration lasts: whatever the calls, only the key a client was first  *)
(* registered with authenticates it, and never after it has been revoked;   *)
(* and no thread refuses a client that FedServer::init registered (what     *)
(* the constant Registered of FedServer stands for), revoked or not.        *)
RegistrationLasts ==
  /\ answer.yes => answer.client \notin revoked /\ answer.key = first[answer.client]
  /\ \A t \in Threads : reply[t] = "UNAUTHORIZED" => who[t] \notin Defaults

(* Every request that a thread has taken is handled and logged, unless the  *)
(* log file has been changed: the call that opened the new file waits for   *)
(* the mutex it holds, and every thread that logs waits for it.             *)
ChangedFile == op = "relock" /\ open
RequestsEnd ==
  \A t \in Threads : pc[t] = "check" ~> pc[t] = "idle" \/ ChangedFile

=============================================================================
