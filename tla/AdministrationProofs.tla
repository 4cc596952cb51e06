------------------------ MODULE AdministrationProofs ------------------------
(* Theorems about Administration for all threads, clients, keys and bounds. *)
EXTENDS Administration, TLAPS

USE DEF logger, table, threads, operator

-----------------------------------------------------------------------------
(* The table.  An entry has the key its client was first registered with    *)
(* and is active only while nobody has revoked it; an answer that named a   *)
(* client is gone when the table changes.                                   *)

ClientInfo == [api_key : Keys, write : BOOLEAN, is_active : BOOLEAN, seen : BOOLEAN]

Tables ==
  /\ clients \in [DOMAIN clients -> ClientInfo]
  /\ first \in [DOMAIN clients -> Keys]

FirstKeys ==
  /\ \A c \in DOMAIN clients :
       clients[c].api_key = first[c] /\ (clients[c].is_active => c \notin revoked)
  /\ revoked \subseteq DOMAIN clients
  /\ \/ answer = NoAnswer
     \/ \E c \in DOMAIN clients \ revoked :
          answer = [yes |-> TRUE, client |-> c, key |-> first[c]]

(* No thread serves before the default clients are in the table, and a      *)
(* thread has a reply only after it has looked the client up.               *)
DefaultsServed ==
  /\ stage = "serving" => Defaults \subseteq DOMAIN clients
  /\ stage # "serving" => revoked = {} /\ answer = NoAnswer
  /\ pc \in [Threads -> {"idle", "check", "log", "write"}]
  /\ who \in [Threads -> Clients \cup {NoClient}]
  /\ reply \in [Threads -> {"none", "served", "UNAUTHORIZED"}]
  /\ \A t \in Threads : pc[t] # "idle" => stage = "serving"
  /\ \A t \in Threads : pc[t] \in {"idle", "check"} => reply[t] = "none"
  /\ \A t \in Threads : reply[t] = "UNAUTHORIZED" => who[t] \notin Defaults

Lasting == Tables /\ FirstKeys /\ DefaultsServed

(* The invariant is what the property says, and more.                       *)
LEMMA LastingRegistration == Lasting => RegistrationLasts
  BY DEF Lasting, FirstKeys, DefaultsServed, RegistrationLasts, NoAnswer

(* The table is empty when the server starts.                               *)
LEMMA LastingInit == Init => Lasting
  BY DEF Init, Lasting, Tables, FirstKeys, DefaultsServed, NoAnswer

(* Steps that leave the table alone, and the requests of the threads.       *)
LEMMA LastingQuiet ==
  ASSUME Lasting, UNCHANGED <<table, threads>>, UNCHANGED stage
  PROVE  Lasting'
  BY DEF Lasting, Tables, FirstKeys, DefaultsServed

(* A new entry, or a changed one that keeps its key and is not made active, *)
(* keeps what is said of the others.                                        *)
LEMMA LastingUpdate ==
  ASSUME Lasting, NEW new, Update(new),
         new \in [DOMAIN new -> ClientInfo], DOMAIN clients \subseteq DOMAIN new,
         first' \in [DOMAIN new -> Keys], revoked' \subseteq DOMAIN new,
         \A c \in DOMAIN new : new[c].api_key = first'[c] /\ (new[c].is_active => c \notin revoked')
  PROVE  Lasting'
<1>1. clients' = new /\ answer' = NoAnswer /\ stage = "serving"
      /\ UNCHANGED <<stage, pc, who, reply>>
  BY DEF Update, Calls
<1>2. Tables'
  BY <1>1 DEF Tables
<1>3. FirstKeys'
  BY <1>1 DEF FirstKeys
<1>4. DefaultsServed'
  BY <1>1 DEF Lasting, DefaultsServed
<1> QED BY <1>2, <1>3, <1>4 DEF Lasting

(* The defaults are registered before any call and any request.             *)
LEMMA LastingStart == Lasting /\ (StartLogger \/ StartAuth) => Lasting'
<1> SUFFICES ASSUME Lasting, StartLogger \/ StartAuth PROVE Lasting'
  OBVIOUS
<1>1. CASE StartLogger
  BY <1>1 DEF StartLogger, Lasting, Tables, FirstKeys, DefaultsServed
<1>2. CASE StartAuth
  <2>1. PICK k \in [Defaults -> Keys] :
          clients' = [c \in Defaults |-> Info(k[c])] /\ first' = k
    BY <1>2 DEF StartAuth
  <2>2. revoked' = {} /\ answer' = NoAnswer /\ stage' = "serving"
        /\ UNCHANGED <<pc, who, reply>>
    BY <1>2 DEF StartAuth, Lasting, DefaultsServed
  <2>3. Tables' /\ FirstKeys'
    BY <2>1, <2>2 DEF Tables, FirstKeys, Info, ClientInfo
  <2> QED BY <2>1, <2>2, <2>3 DEF Lasting, DefaultsServed
<1> QED BY <1>1, <1>2

(* A thread is refused only when its client is not in the table, where the  *)
(* defaults are.                                                            *)
LEMMA LastingThread ==
  ASSUME Lasting, NEW t \in Threads, Request(t) \/ Handle(t)
  PROVE  Lasting'
<1>1. UNCHANGED <<clients, first, revoked, answer, stage>>
  BY DEF Request, Handle, Check, LogBegins, LogWrites
<1>2. Tables' /\ FirstKeys'
  BY <1>1 DEF Lasting, Tables, FirstKeys
<1>3. CASE Request(t)
  <2>1. PICK c \in Clients \cup {NoClient} : who' = [who EXCEPT ![t] = c]
    BY <1>3 DEF Request
  <2>2. stage = "serving" /\ pc[t] = "idle" /\ pc' = [pc EXCEPT ![t] = "check"] /\ reply' = reply
    BY <1>3 DEF Request
  <2>3. DefaultsServed'
    BY <1>1, <2>1, <2>2 DEF Lasting, DefaultsServed
  <2> QED BY <1>2, <2>3 DEF Lasting
<1>4. CASE Check(t)
  <2>1. reply' = [reply EXCEPT ![t] = IF who[t] = NoClient \/ IsRegistered(who[t])
                                        THEN "served" ELSE "UNAUTHORIZED"]
        /\ pc[t] = "check" /\ pc' = [pc EXCEPT ![t] = "log"] /\ who' = who
    BY <1>4 DEF Check
  <2>2. who[t] \in Defaults => IsRegistered(who[t])
    BY <2>1 DEF Lasting, DefaultsServed, IsRegistered
  <2>3. DefaultsServed'
    BY <1>1, <2>1, <2>2 DEF Lasting, DefaultsServed
  <2> QED BY <1>2, <2>3 DEF Lasting
<1>5. CASE LogBegins(t) \/ LogWrites(t)
  <2>1. /\ pc[t] \in {"log", "write"}
        /\ \/ Return(t)
           \/ pc' = [pc EXCEPT ![t] = "write"] /\ UNCHANGED <<who, reply>>
    BY <1>5 DEF LogBegins, LogWrites
  <2>2. DefaultsServed'
    BY <1>1, <2>1 DEF Lasting, DefaultsServed, Return
  <2> QED BY <1>2, <2>2 DEF Lasting
<1> QED BY <1>3, <1>4, <1>5 DEF Handle

(* An entry more makes a table of the same kind.                            *)
LEMMA WithType ==
  ASSUME NEW S, NEW D, NEW f \in [D -> S], NEW c, NEW v \in S
  PROVE  With(f, c, v) \in [D \cup {c} -> S] /\ DOMAIN With(f, c, v) = D \cup {c}
  BY DEF With

(* The calls of the operator.                                               *)
LEMMA LastingCall ==
  ASSUME Lasting, NEW c \in Clients, NEW k \in Keys,
         \/ RegisterClient(c, k) \/ AuthenticateClient(c, k)
         \/ RevokeClient(c) \/ UpdatePermissions(c) \/ UpdateLastSeen(c)
  PROVE  Lasting'
<1> USE DEF Lasting, Tables, FirstKeys, ClientInfo
<1>1. CASE RegisterClient(c, k)
  <2> DEFINE new == With(clients, c, Info(k))
  <2>1. c \notin DOMAIN clients /\ Update(new) /\ first' = With(first, c, k) /\ revoked' = revoked
    BY <1>1 DEF RegisterClient
  <2>2. /\ DOMAIN new = DOMAIN clients \cup {c}
        /\ new[c] = Info(k) /\ \A d \in DOMAIN clients : new[d] = clients[d]
    BY <2>1 DEF With
  <2>3. /\ DOMAIN first' = DOMAIN clients \cup {c}
        /\ first'[c] = k /\ \A d \in DOMAIN clients : first'[d] = first[d]
    BY <2>1 DEF With
  <2>4. new \in [DOMAIN new -> ClientInfo] /\ first' \in [DOMAIN new -> Keys]
    <3>1. Info(k) \in ClientInfo
      BY DEF Info
    <3>2. new \in [DOMAIN clients \cup {c} -> ClientInfo]
      <4> HIDE DEF ClientInfo, Tables
      <4>1. clients \in [DOMAIN clients -> ClientInfo]
        BY DEF Tables
      <4> QED BY <3>1, <4>1, WithType
    <3>3. With(first, c, k) \in [DOMAIN clients \cup {c} -> Keys]
      BY WithType
    <3> QED BY <2>1, <2>2, <3>2, <3>3
  <2> HIDE DEF new
  <2>5. \A d \in DOMAIN new : new[d].api_key = first'[d] /\ (new[d].is_active => d \notin revoked')
    BY <2>1, <2>2, <2>3 DEF Info
  <2> QED BY <2>1, <2>2, <2>4, <2>5, LastingUpdate
<1>2. CASE AuthenticateClient(c, k)
  <2>1. \/ answer' = NoAnswer
        \/ \E d \in DOMAIN clients \ revoked :
             answer' = [yes |-> TRUE, client |-> d, key |-> first[d]]
    BY <1>2 DEF AuthenticateClient, Authentic
  <2>2. stage = "serving" /\ UNCHANGED <<clients, first, revoked, stage, pc, who, reply>>
    BY <1>2 DEF AuthenticateClient, Calls
  <2> QED BY <2>1, <2>2 DEF DefaultsServed
<1>3. CASE RevokeClient(c)
  <2>1. c \in DOMAIN clients /\ Update([clients EXCEPT ![c].is_active = FALSE])
        /\ revoked' = revoked \cup {c} /\ first' = first
    BY <1>3 DEF RevokeClient
  <2> QED BY <2>1, LastingUpdate
<1>4. CASE UpdatePermissions(c)
  <2>1. PICK w \in BOOLEAN : Update([clients EXCEPT ![c].write = w])
    BY <1>4 DEF UpdatePermissions
  <2>2. c \in DOMAIN clients /\ revoked' = revoked /\ first' = first
    BY <1>4 DEF UpdatePermissions
  <2> QED BY <2>1, <2>2, LastingUpdate
<1>5. CASE UpdateLastSeen(c)
  <2>1. c \in DOMAIN clients /\ Update([clients EXCEPT ![c].seen = TRUE])
        /\ revoked' = revoked /\ first' = first
    BY <1>5 DEF UpdateLastSeen
  <2> QED BY <2>1, LastingUpdate
<1> QED BY <1>1, <1>2, <1>3, <1>4, <1>5

(* Every step keeps the registrations.                                      *)
LEMMA LastingNext == Lasting /\ [Next]_vars => Lasting'
<1> SUFFICES ASSUME Lasting, [Next]_vars PROVE Lasting'
  OBVIOUS
<1>1. CASE UNCHANGED vars
  BY <1>1, LastingQuiet DEF vars
<1>2. CASE SetLogFile \/ Reopen
  BY <1>2, LastingQuiet DEF SetLogFile, Reopen, OpenFails, OpenSucceeds
<1>3. ASSUME NEW c \in Clients,
             \/ \E k \in Keys : RegisterClient(c, k) \/ AuthenticateClient(c, k)
             \/ RevokeClient(c) \/ UpdatePermissions(c) \/ UpdateLastSeen(c)
      PROVE  Lasting'
  BY <1>3, LastingCall, AdministrationAssumption
<1> QED BY <1>1, <1>2, <1>3, LastingStart, LastingThread DEF Next

(* Whatever the calls and the interleaving, only the key a client was first *)
(* registered with authenticates it, never after it has been revoked, and   *)
(* no thread refuses a client that FedServer::init registered.              *)
THEOREM RegistrationIsKept == Spec => []RegistrationLasts
  BY LastingInit, LastingNext, LastingRegistration, PTL DEF Spec


-----------------------------------------------------------------------------
(* The log.  A thread that is about to write has the mutex and found the    *)
(* stream open, and a call of set_log_file keeps the mutex until it has     *)
(* failed.                                                                  *)

LogTypes ==
  /\ asked \in [Threads -> Nat]
  /\ files \in [1..NumFiles -> Seq(Threads \X Nat)]
  /\ log_file_ \in 1..NumFiles

Guarded ==
  /\ \A t \in Threads : pc[t] = "write" => mutex = t /\ open
  /\ op # "idle" => mutex = "operator"
  /\ \A t \in Threads : pc[t] # "idle" => asked[t] # 0

Accounted == LogTypes /\ Guarded /\ LogAccounts

(* The requests of a thread that have ended are those before the one it is  *)
(* at.                                                                      *)
LEMMA InEnded ==
  ASSUME LogTypes, NEW e
  PROVE  e \in Ended <=>
           \E t \in Threads, n \in Nat :
             e = <<t, n>> /\ 1 <= n /\ n <= asked[t] /\ (pc[t] = "idle" \/ n < asked[t])
<1>1. \A t \in Threads : asked[t] \in Nat
  BY DEF LogTypes
<1>2. \A t \in Threads, n \in Nat :
        n \in 1..(IF pc[t] = "idle" THEN asked[t] ELSE asked[t] - 1)
          <=> 1 <= n /\ n <= asked[t] /\ (pc[t] = "idle" \/ n < asked[t])
  BY <1>1
<1>3. \A t \in Threads : 1..(IF pc[t] = "idle" THEN asked[t] ELSE asked[t] - 1) \subseteq Nat
  BY <1>1
<1> QED BY <1>2, <1>3 DEF Ended

(* What is in the log is a value in one of the files.                       *)
LEMMA InLogged ==
  \A e : e \in Logged <=> \E f \in 1..NumFiles : \E i \in DOMAIN files[f] : files[f][i] = e
  BY DEF Logged, ToSet

(* The accounts hold while the log, what was dropped and who is at which    *)
(* request stay what they are.                                              *)
LEMMA AccountsStay ==
  ASSUME Accounted, Ended' = Ended, UNCHANGED <<files, dropped>>
  PROVE  LogAccounts'
<1>1. Logged' = Logged
  BY DEF Logged
<1> QED BY <1>1 DEF Accounted, LogAccounts

(* Nothing has been asked and the files are empty when the server starts.   *)
LEMMA AccountedInit == Init => Accounted
<1> SUFFICES ASSUME Init PROVE Accounted
  OBVIOUS
<1>1. LogTypes
  BY AdministrationAssumption DEF Init, LogTypes
<1>2. Guarded
  BY DEF Init, Guarded
<1>3. \A f \in 1..NumFiles : DOMAIN files[f] = {}
  BY DEF Init
<1>4. Logged = {}
  BY <1>3, InLogged
<1>5. Ended = {}
  <2>1. \A t \in Threads : asked[t] = 0
    BY DEF Init
  <2> QED BY <1>1, <2>1, InEnded
<1>6. LogAccounts
  BY <1>3, <1>4, <1>5 DEF LogAccounts, Init
<1> QED BY <1>1, <1>2, <1>6 DEF Accounted

(* Steps of the operator and of init: the threads stand still.              *)
LEMMA AccountedCalls ==
  ASSUME Lasting, Accounted, UNCHANGED <<threads, files, dropped>>,
         log_file_' \in 1..NumFiles, Guarded'
  PROVE  Accounted'
<1>1. LogTypes'
  BY DEF Accounted, LogTypes
<1>2. Ended' = Ended
  BY DEF Ended
<1>3. LogAccounts'
  BY <1>2, AccountsStay
<1> QED BY <1>1, <1>3 DEF Accounted

(* A thread takes a request: it has not ended.                              *)
LEMMA AccountedRequest ==
  ASSUME Lasting, Accounted, NEW t \in Threads, Request(t) \/ Check(t)
  PROVE  Accounted'
<1>1. /\ UNCHANGED <<files, log_file_, dropped, mutex, open, op>>
      /\ pc \in [Threads -> {"idle", "check", "log", "write"}]
      /\ \/ pc[t] = "idle" /\ asked' = [asked EXCEPT ![t] = @ + 1] /\ pc' = [pc EXCEPT ![t] = "check"]
         \/ pc[t] = "check" /\ asked' = asked /\ pc' = [pc EXCEPT ![t] = "log"]
  BY DEF Request, Check, Lasting, DefaultsServed
<1>2. LogTypes'
  BY <1>1 DEF Accounted, LogTypes
<1>3. Guarded'
  BY <1>1 DEF Accounted, LogTypes, Guarded
<1>4. Ended' = Ended
  <2>1. \A u \in Threads : (IF pc[u] = "idle" THEN asked[u] ELSE asked[u] - 1)'
                             = (IF pc[u] = "idle" THEN asked[u] ELSE asked[u] - 1)
    BY <1>1 DEF Accounted, LogTypes
  <2> QED BY <2>1 DEF Ended
<1>5. LogAccounts'
  BY <1>1, <1>4, AccountsStay
<1> QED BY <1>2, <1>3, <1>5 DEF Accounted

(* A thread returns from log: its request has ended, and had not before.    *)
LEMMA EndsOne ==
  ASSUME Lasting, Accounted, NEW t \in Threads, pc[t] # "idle", Return(t), asked' = asked
  PROVE  Ended' = Ended \cup {Entry(t)} /\ Entry(t) \notin Ended
<1>1. /\ pc' = [pc EXCEPT ![t] = "idle"] /\ pc \in [Threads -> {"idle", "check", "log", "write"}]
      /\ asked[t] \in Nat /\ asked[t] >= 1
  BY DEF Return, Lasting, DefaultsServed, Accounted, LogTypes, Guarded
<1>2. Entry(t) \notin Ended
  BY <1>1, InEnded DEF Accounted, Entry
<1>3. \A u \in Threads \ {t} :
        (IF pc[u] = "idle" THEN asked[u] ELSE asked[u] - 1)'
          = (IF pc[u] = "idle" THEN asked[u] ELSE asked[u] - 1)
  BY <1>1
<1>4. 1..(IF pc[t] = "idle" THEN asked[t] ELSE asked[t] - 1)'
        = 1..(IF pc[t] = "idle" THEN asked[t] ELSE asked[t] - 1) \cup {asked[t]}
  BY <1>1
<1>5. Ended' = Ended \cup {Entry(t)}
  BY <1>3, <1>4 DEF Ended, Entry
<1> QED BY <1>2, <1>5

(* The mutex keeps set_log_file away from a thread that writes, and two     *)
(* threads from each other.                                                 *)
LEMMA AccountedBegins ==
  ASSUME Lasting, Accounted, NEW t \in Threads, LogBegins(t)
  PROVE  Accounted'
<1>1. /\ pc[t] = "log" /\ mutex = Nobody
      /\ UNCHANGED <<files, log_file_, open, op, asked>>
      /\ pc \in [Threads -> {"idle", "check", "log", "write"}]
  BY DEF LogBegins, Lasting, DefaultsServed
<1>2. op = "idle" /\ \A u \in Threads : pc[u] # "write"
  BY <1>1, AdministrationAssumption DEF Accounted, Guarded
<1>3. LogTypes'
  BY <1>1 DEF Accounted, LogTypes
<1>4. CASE initialized_ /\ open
  <2>1. mutex' = t /\ pc' = [pc EXCEPT ![t] = "write"] /\ dropped' = dropped
    BY <1>4 DEF LogBegins
  <2>2. Guarded'
    BY <1>1, <1>2, <1>4, <2>1 DEF Accounted, Guarded
  <2>3. Ended' = Ended
    <3>1. \A u \in Threads : (IF pc[u] = "idle" THEN asked[u] ELSE asked[u] - 1)'
                               = (IF pc[u] = "idle" THEN asked[u] ELSE asked[u] - 1)
      BY <1>1, <2>1
    <3> QED BY <3>1 DEF Ended
  <2>4. LogAccounts'
    BY <1>1, <2>1, <2>3, AccountsStay
  <2> QED BY <1>3, <2>2, <2>4 DEF Accounted
<1>5. CASE ~(initialized_ /\ open)
  <2>1. mutex' = mutex /\ Return(t) /\ dropped' = dropped \cup {Entry(t)}
    BY <1>5 DEF LogBegins
  <2>2. Guarded'
    BY <1>1, <1>2, <2>1 DEF Accounted, Guarded, Return
  <2>3. Ended' = Ended \cup {Entry(t)} /\ Entry(t) \notin Ended
    BY <1>1, <2>1, EndsOne
  <2>4. Logged' = Logged
    BY <1>1 DEF Logged
  <2>5. LogAccounts'
    BY <1>1, <2>1, <2>3, <2>4 DEF Accounted, LogAccounts
  <2> QED BY <1>3, <2>2, <2>5 DEF Accounted
<1> QED BY <1>4, <1>5

(* What is written is the entry of the request that ends, after all the     *)
(* entries of its thread.                                                   *)
LEMMA AccountedWrites ==
  ASSUME Lasting, Accounted, NEW t \in Threads, LogWrites(t)
  PROVE  Accounted'
<1> DEFINE e == Entry(t)
           file == files[log_file_]
<1>1. /\ pc[t] = "write" /\ Return(t) /\ mutex' = Nobody
      /\ UNCHANGED <<log_file_, open, op, asked, dropped>>
      /\ pc \in [Threads -> {"idle", "check", "log", "write"}]
  BY DEF LogWrites, Lasting, DefaultsServed
<1>2. open /\ mutex = t
  BY <1>1 DEF Accounted, Guarded
<1>3. files' = [files EXCEPT ![log_file_] = Append(@, e)]
  BY <1>2 DEF LogWrites
<1>4. /\ asked \in [Threads -> Nat] /\ files \in [1..NumFiles -> Seq(Threads \X Nat)]
      /\ log_file_ \in 1..NumFiles /\ file \in Seq(Threads \X Nat)
      /\ e = <<t, asked[t]>> /\ asked[t] \in Nat /\ e \in Threads \X Nat
  BY DEF Accounted, LogTypes, Entry
<1> HIDE DEF e
<1>5. LogTypes'
  <2>1. Append(file, e) \in Seq(Threads \X Nat)
    BY <1>4
  <2> QED BY <1>1, <1>3, <1>4, <2>1 DEF LogTypes
<1>6. Guarded'
  <2>1. op = "idle" /\ \A u \in Threads : pc[u] = "write" => u = t
    BY <1>2, AdministrationAssumption DEF Accounted, Guarded
  <2>2. pc' = [pc EXCEPT ![t] = "idle"]
    BY <1>1 DEF Return
  <2> QED BY <1>1, <2>1, <2>2 DEF Accounted, Guarded
<1>7. Ended' = Ended \cup {e} /\ e \notin Ended
  BY <1>1, EndsOne DEF e
<1>8. /\ DOMAIN files'[log_file_] = DOMAIN file \cup {Len(file) + 1}
      /\ files'[log_file_][Len(file) + 1] = e
      /\ \A i \in DOMAIN file : files'[log_file_][i] = file[i] /\ i \in 1..Len(file)
      /\ \A f \in 1..NumFiles \ {log_file_} : files'[f] = files[f]
      /\ Len(file) \in Nat
  BY <1>3, <1>4
<1>9. \A f \in 1..NumFiles : \A i \in DOMAIN files'[f] :
        \/ i \in DOMAIN files[f] /\ files'[f][i] = files[f][i]
        \/ f = log_file_ /\ i = Len(file) + 1 /\ files'[f][i] = e
  BY <1>8
<1>10. \A f \in 1..NumFiles : \A i \in DOMAIN files[f] :
         files[f][i] \in Logged /\ files[f][i] \in Ended /\ files[f][i] # e
  BY <1>7, InLogged DEF Accounted, LogAccounts
<1>11. Logged' = Logged \cup {e}
  <2>1. \A x \in Logged' : x \in Logged \cup {e}
    BY <1>9, <1>10 DEF Logged, ToSet
  <2>2. \A f \in 1..NumFiles : \A i \in DOMAIN files[f] :
          i \in DOMAIN files'[f] /\ files'[f][i] = files[f][i]
    BY <1>8
  <2>3. \A x \in Logged : x \in Logged'
    BY <2>2, InLogged DEF Logged, ToSet
  <2>4. e \in Logged'
    BY <1>8, <1>4 DEF Logged, ToSet
  <2> QED BY <2>1, <2>3, <2>4
<1>12. \A f, g \in 1..NumFiles : \A i \in DOMAIN files'[f], j \in DOMAIN files'[g] :
         files'[f][i] = files'[g][j] => f = g /\ i = j
  BY <1>9, <1>10 DEF Accounted, LogAccounts
<1>13. \A f \in 1..NumFiles : \A i \in DOMAIN files[f] :
         files[f][i][1] = t => files[f][i][2] < asked[t]
  BY <1>10, <1>1, InEnded DEF Accounted
<1>14. \A f \in 1..NumFiles : \A i, j \in DOMAIN files'[f] :
         i < j /\ files'[f][i][1] = files'[f][j][1] => files'[f][i][2] < files'[f][j][2]
  <2> SUFFICES ASSUME NEW f \in 1..NumFiles, NEW i \in DOMAIN files'[f], NEW j \in DOMAIN files'[f],
                      i < j, files'[f][i][1] = files'[f][j][1]
               PROVE  files'[f][i][2] < files'[f][j][2]
    OBVIOUS
  <2>1. i \in DOMAIN files[f] /\ files'[f][i] = files[f][i]
    BY <1>8, <1>9
  <2>2. CASE j \in DOMAIN files[f] /\ files'[f][j] = files[f][j]
    BY <2>1, <2>2 DEF Accounted, LogAccounts
  <2>3. CASE files'[f][j] = e
    BY <2>1, <2>3, <1>4, <1>13
  <2> QED BY <1>9, <2>2, <2>3
<1>15. LogAccounts'
  <2>1. Logged' \cap dropped' = {} /\ Logged' \cup dropped' = Ended'
    BY <1>1, <1>7, <1>11 DEF Accounted, LogAccounts
  <2> QED BY <1>12, <1>14, <2>1 DEF LogAccounts
<1> QED BY <1>5, <1>6, <1>15 DEF Accounted

(* The steps of set_log_file and of init.                                   *)
LEMMA AccountedOperator ==
  ASSUME Lasting, Accounted,
         \/ StartLogger \/ StartAuth \/ SetLogFile \/ Reopen
         \/ \E c \in Clients :
              \/ \E k \in Keys : RegisterClient(c, k) \/ AuthenticateClient(c, k)
              \/ RevokeClient(c) \/ UpdatePermissions(c) \/ UpdateLastSeen(c)
         \/ UNCHANGED vars
  PROVE  Accounted'
<1>1. CASE StartLogger
  <2>1. \A t \in Threads : pc[t] = "idle"
    BY <1>1 DEF StartLogger, Lasting, DefaultsServed
  <2> QED BY <1>1, <2>1, AccountedCalls DEF StartLogger, Accounted, LogTypes, Guarded
<1>2. CASE StartAuth \/ UNCHANGED vars
  BY <1>2, AccountedCalls DEF StartAuth, vars, Accounted, LogTypes, Guarded
<1>3. CASE SetLogFile
  <2>1. \A t \in Threads : pc[t] # "write"
    BY <1>3, AdministrationAssumption DEF SetLogFile, Accounted, Guarded
  <2> QED BY <1>3, <2>1, AccountedCalls DEF SetLogFile, Accounted, Guarded
<1>4. CASE Reopen
  <2>1. \A t \in Threads : pc[t] # "write"
    BY <1>4, AdministrationAssumption DEF Reopen, OpenFails, OpenSucceeds, Accounted, Guarded
  <2> QED BY <1>4, <2>1, AccountedCalls
          DEF Reopen, OpenFails, OpenSucceeds, Accounted, LogTypes, Guarded
<1>5. ASSUME NEW c \in Clients,
             \/ \E k \in Keys : RegisterClient(c, k) \/ AuthenticateClient(c, k)
             \/ RevokeClient(c) \/ UpdatePermissions(c) \/ UpdateLastSeen(c)
      PROVE  Accounted'
  <2>1. UNCHANGED <<logger, threads, operator>>
    BY <1>5 DEF RegisterClient, AuthenticateClient, RevokeClient, UpdatePermissions,
                UpdateLastSeen, Update
  <2> QED BY <2>1, AccountedCalls DEF Accounted, LogTypes, Guarded
<1> QED BY <1>1, <1>2, <1>3, <1>4, <1>5

(* Every step keeps the accounts.                                           *)
LEMMA AccountedNext == Lasting /\ Accounted /\ [Next]_vars => Accounted'
<1> SUFFICES ASSUME Lasting, Accounted, [Next]_vars PROVE Accounted'
  OBVIOUS
<1>1. ASSUME NEW t \in Threads, Request(t) \/ Handle(t) PROVE Accounted'
  BY <1>1, AccountedRequest, AccountedBegins, AccountedWrites DEF Handle
<1> QED BY <1>1, AccountedOperator DEF Next

(* However the threads and the changes of the log file interleave, every    *)
(* request whose handling has ended is in exactly one file, once, unless    *)
(* the logger dropped it, and a file has a thread's entries in order.       *)
THEOREM LogIsComplete == Spec => []LogAccounts
<1>1. Accounted => LogAccounts
  BY DEF Accounted
<1> QED BY LastingInit, LastingNext, AccountedInit, AccountedNext, <1>1, PTL DEF Spec
=============================================================================
