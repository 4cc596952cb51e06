----------------------------- MODULE TextProofs -----------------------------
(***************************************************************************)
(* Theorems about the texts on their way to a comparison: how they are     *)
(* loaded (DataPreprocessor) and how they are hashed, encrypted and        *)
(* decrypted (Signatures).  The two modules share no constant and no       *)
(* variable: what is proved of one holds whatever the other's values are.  *)
(*                                                                         *)
(* Loading, for every number of workers and all files: the inductive       *)
(* invariant follows each line; the lines popped so far that are long      *)
(* enough are each in exactly one place (in the hands of a worker, in the  *)
(* results of a worker, or among the documents), and the queue holds the   *)
(* rest of what was pushed, in order.                                      *)
(*                                                                         *)
(* Signatures, for any lines, batches, parameters and ciphers: the loops   *)
(* are polynomials reduced modulo q, the rolled sum follows its window,    *)
(* and every signature is of its own text from the hashing to the server.  *)
(***************************************************************************)
EXTENDS DataPreprocessor, Signatures, ForestProofs, FunctionTheorems, FiniteSetTheorems

-----------------------------------------------------------------------------
(* Loading.                                                                 *)

In(s, l) == \E k \in DOMAIN s : s[k] = l
Once(s)  == \A k, j \in DOMAIN s : s[k] = s[j] => k = j

Popped == line_number - Len(raw_queue)
Long(l) == l \in DOMAIN Files[next_file] /\ Files[next_file][l]

(* The loader's side of the conveyor.                                       *)
Feeding ==
  /\ phase # "loading" => loader = "ended" /\ \A w \in Workers : at[w] = "ended"
  /\ \A f \in opened : f <= next_file
  /\ phase = "loading" =>
       /\ line_number <= Len(Files[next_file])
       /\ loader = "opening" => next_file \notin opened
       /\ next_file \notin opened => line_number = 0 /\ loader # "reading"
       /\ loading_done <=> loader = "ended"
       /\ loader = "ended" /\ next_file \in opened => line_number = Len(Files[next_file])
       /\ Len(raw_queue) <= line_number
       /\ \A k \in DOMAIN raw_queue : raw_queue[k] = Popped + k
       /\ \A w \in Workers : at[w] \in {"merging", "ended"} => raw_queue = <<>> /\ loading_done

(* The workers' side: the places are disjoint, hold what was popped, and    *)
(* together hold all of it that is long enough.                             *)
Conveyed ==
  phase = "loading" =>
    /\ \A w \in Workers :
         /\ raw[w] # NoLine => raw[w] \in 1..Popped
         /\ at[w] = "parsing" <=> raw[w] # NoLine
         /\ at[w] = "ended" => local_results[w] = <<>>
         /\ \A l \in Nat : In(local_results[w], l) => l \in 1..Popped /\ Long(l)
         /\ Once(local_results[w])
    /\ \A l \in Nat : In(documents, l) => l \in 1..Popped /\ Long(l)
    /\ Once(documents)
    /\ \A u, w \in Workers : \A l \in Nat :
         /\ raw[u] = l /\ raw[w] = l => u = w
         /\ In(local_results[u], l) /\ In(local_results[w], l) => u = w
         /\ ~(raw[u] = l /\ In(local_results[w], l))
    /\ \A w \in Workers : \A l \in Nat :
         In(documents, l) => raw[w] # l /\ ~In(local_results[w], l)
    /\ \A l \in 1..Popped : Long(l) =>
         \/ In(documents, l)
         \/ \E w \in Workers : raw[w] = l \/ In(local_results[w], l)

-----------------------------------------------------------------------------
(* The number of files is a number.                                         *)
LEMMA FilesTyped == Len(Files) \in Nat
BY PreprocessorAssumption

(* The empty list is a list of lines.                                       *)
LEMMA EmptyTyped == <<>> \in Seq(Nat) /\ <<>> \in Seq(Nat \X Nat)
OBVIOUS

(* A function that is constant over the workers.                            *)
LEMMA EachTyped ==
  ASSUME NEW S, NEW v \in S
  PROVE  Each(v) \in [Workers -> S] /\ \A w \in Workers : Each(v)[w] = v
BY DEF Each

(* What both the start of the process and of a file set the workers to.    *)
LEMMA FreshWorkers ==
  /\ \A s \in {"polling", "ended"} :
       /\ Each(s) \in [Workers -> {"polling", "parsing", "merging", "ended"}]
       /\ \A w \in Workers : Each(s)[w] = s
  /\ Each(NoLine) \in [Workers -> Nat \cup {NoLine}]
  /\ Each(<<>>) \in [Workers -> Seq(Nat)]
<1>1. \A s \in {"polling", "ended"} :
       /\ Each(s) \in [Workers -> {"polling", "parsing", "merging", "ended"}]
       /\ \A w \in Workers : Each(s)[w] = s
  BY DEF Each
<1>2. Each(NoLine) \in [Workers -> Nat \cup {NoLine}]
  BY DEF Each
<1>3. Each(<<>>) \in [Workers -> Seq(Nat)]
  BY EachTyped, EmptyTyped
<1> QED BY <1>1, <1>2, <1>3

(* The type invariant holds at the start.                                   *)
LEMMA InitTyped == Init => TypeOK
<1> SUFFICES ASSUME Init PROVE TypeOK OBVIOUS
<1>1. at \in [Workers -> {"polling", "parsing", "merging", "ended"}]
      /\ \A w \in Workers : at[w] = "ended"
  BY FreshWorkers DEF Init
<1>2. raw \in [Workers -> Nat \cup {NoLine}] /\ local_results \in [Workers -> Seq(Nat)]
  BY FreshWorkers DEF Init
<1>3. \A w \in Workers : at[w] # "parsing"
  BY <1>1
<1>4. raw_queue \in Seq(Nat) /\ documents \in Seq(Nat) /\ local_candidates \in Seq(Nat \X Nat)
  BY EmptyTyped DEF Init
<1>5. next_file \in 0..Len(Files) /\ opened \subseteq 1..Len(Files)
  BY FilesTyped DEF Init
<1>6. loading_done \in BOOLEAN /\ line_number \in Nat /\ loader = "ended" /\ phase = "next"
  BY DEF Init
<1> QED BY <1>1, <1>2, <1>3, <1>4, <1>5, <1>6 DEF TypeOK

(* Every step keeps the types.                                              *)
LEMMA NextTyped == TypeOK /\ [Next]_vars => TypeOK'
<1> SUFFICES ASSUME TypeOK, [Next]_vars PROVE TypeOK' OBVIOUS
<1> USE FilesTyped, EmptyTyped
<1>1. CASE StartLoading
  <2>1. at' \in [Workers -> {"polling", "parsing", "merging", "ended"}]
        /\ \A w \in Workers : at'[w] # "parsing"
    BY <1>1, FreshWorkers DEF StartLoading
  <2>2. raw' \in [Workers -> Nat \cup {NoLine}] /\ local_results' \in [Workers -> Seq(Nat)]
    BY <1>1, FreshWorkers DEF StartLoading
  <2>3. /\ raw_queue' \in Seq(Nat) /\ documents' \in Seq(Nat)
        /\ local_candidates' \in Seq(Nat \X Nat)
    BY <1>1 DEF StartLoading, TypeOK
  <2>4. next_file' \in 1..Len(Files) /\ opened' \subseteq 1..Len(Files)
    BY <1>1 DEF StartLoading, TypeOK
  <2>5. /\ loading_done' \in BOOLEAN /\ line_number' \in Nat
        /\ loader' = "opening" /\ phase' = "loading"
    BY <1>1 DEF StartLoading
  <2>6. next_file' \in 0..Len(Files)
    BY <2>4
  <2> QED BY <2>1, <2>2, <2>3, <2>4, <2>5, <2>6 DEF TypeOK
<1>2. CASE Collect
  <2>1. [k \in DOMAIN documents |-> <<next_file, documents[k]>>] \in Seq(Nat \X Nat)
    <3>1. documents \in Seq(Nat) /\ next_file \in Nat
      BY DEF TypeOK
    <3>2. DOMAIN documents = 1..Len(documents) /\ Len(documents) \in Nat
      BY <3>1
    <3>3. \A k \in 1..Len(documents) : <<next_file, documents[k]>> \in Nat \X Nat
      BY <3>1
    <3> QED BY <3>2, <3>3
  <2>2. local_candidates' \in Seq(Nat \X Nat)
    BY <1>2, <2>1 DEF Collect, TypeOK
  <2> QED BY <1>2, <2>2 DEF Collect, TypeOK, queue, work
<1>3. CASE AllLoaded
  <2>1. Samples \in Seq(Nat \X Nat)
    BY DEF Samples
  <2> QED BY <1>3, <2>1 DEF AllLoaded, TypeOK, queue, work
<1>4. CASE OpenFile
  BY <1>4 DEF OpenFile, TypeOK, caller, work
<1>5. CASE OpenFails
  BY <1>5 DEF OpenFails, TypeOK, caller, work
<1>6. CASE PushLine
  BY <1>6 DEF PushLine, TypeOK, caller, work
<1>7. CASE EndOfFile
  BY <1>7 DEF EndOfFile, TypeOK, caller, work
<1>8. ASSUME NEW w \in Workers, PopLine(w) PROVE TypeOK'
  BY <1>8 DEF PopLine, TypeOK, caller
<1>9. ASSUME NEW w \in Workers, ProcessLine(w) PROVE TypeOK'
  BY <1>9 DEF ProcessLine, TypeOK, caller, queue
<1>10. ASSUME NEW w \in Workers, NoMoreLines(w) PROVE TypeOK'
  BY <1>10 DEF NoMoreLines, TypeOK, caller, queue
<1>11. ASSUME NEW w \in Workers, MergeResults(w) PROVE TypeOK'
  BY <1>11 DEF MergeResults, TypeOK, caller, queue
<1>12. CASE UNCHANGED vars
  BY <1>12 DEF TypeOK, vars, caller, queue, work
<1> QED
  BY <1>1, <1>2, <1>3, <1>4, <1>5, <1>6, <1>7, <1>8, <1>9, <1>10, <1>11, <1>12
  DEF Next, Loader, Worker

-----------------------------------------------------------------------------
(* The loader's side.                                                       *)

(* The loader's part of the invariant holds at the start.                   *)
LEMMA FeedingInit == Init => Feeding
<1> SUFFICES ASSUME Init PROVE Feeding OBVIOUS
<1>1. \A w \in Workers : at[w] = "ended"
  BY FreshWorkers DEF Init
<1> QED BY <1>1 DEF Init, Feeding

(* Every step keeps the loader's part of the invariant.                     *)
LEMMA FeedingNext ==
  ASSUME TypeOK, Feeding, [Next]_vars
  PROVE  Feeding'
<1> USE PreprocessorAssumption
<1>1. CASE StartLoading
  <2>1. \A w \in Workers : at'[w] = "polling"
    BY <1>1, FreshWorkers DEF StartLoading
  <2>2. next_file' = next_file + 1 /\ next_file' \in 1..Len(Files) /\ opened' = opened
    BY <1>1, FilesTyped DEF StartLoading, TypeOK
  <2>3. next_file' \notin opened'
    BY <2>2, FilesTyped DEF Feeding, TypeOK
  <2>4. Len(Files[next_file']) \in Nat
    BY <2>2
  <2>5. Len(raw_queue') = 0 /\ DOMAIN raw_queue' = {} /\ line_number' = 0
    BY <1>1 DEF StartLoading
  <2>6. phase' = "loading" /\ loader' = "opening" /\ ~loading_done'
    BY <1>1 DEF StartLoading
  <2>7. \A f \in opened' : f <= next_file'
    BY <2>2, FilesTyped DEF Feeding, TypeOK
  <2> QED BY <2>1, <2>3, <2>4, <2>5, <2>6, <2>7 DEF Feeding
<1>2. CASE Collect
  BY <1>2 DEF Collect, Feeding, TypeOK, queue, work
<1>3. CASE AllLoaded
  BY <1>3 DEF AllLoaded, Feeding, TypeOK, queue, work
<1>4. CASE OpenFile
  BY <1>4, FilesTyped DEF OpenFile, Feeding, TypeOK, caller, work, Popped
<1>5. CASE OpenFails
  BY <1>5, FilesTyped DEF OpenFails, Feeding, TypeOK, caller, work, Popped
<1>6. CASE PushLine
  <2>1. phase = "loading" /\ next_file \in 1..Len(Files) /\ next_file \in opened /\ ~loading_done
    BY <1>6 DEF PushLine, Feeding, TypeOK
  <2>2. Files[next_file] \in Seq(BOOLEAN) /\ Len(Files[next_file]) \in Nat
    BY <2>1
  <2>3. /\ Len(raw_queue') = Len(raw_queue) + 1
        /\ \A k \in DOMAIN raw_queue' :
             raw_queue'[k] = IF k \in DOMAIN raw_queue THEN raw_queue[k] ELSE line_number + 1
        /\ DOMAIN raw_queue' = 1..(Len(raw_queue) + 1)
    BY <1>6 DEF PushLine, TypeOK
  <2>4. Popped' = Popped
    BY <1>6, <2>3 DEF PushLine, Popped, TypeOK
  <2>5. \A k \in DOMAIN raw_queue' : raw_queue'[k] = Popped + k
    <3>1. /\ DOMAIN raw_queue = 1..Len(raw_queue) /\ Len(raw_queue) \in Nat /\ line_number \in Nat
          /\ \A k \in DOMAIN raw_queue : raw_queue[k] = (line_number - Len(raw_queue)) + k
      BY <2>1 DEF Popped, Feeding, TypeOK
    <3> QED BY <2>3, <3>1 DEF Popped
  <2>6. \A w \in Workers : at[w] \notin {"merging", "ended"}
    BY <2>1 DEF Feeding
  <2>7. line_number' = line_number + 1 /\ line_number' <= Len(Files[next_file]) /\ loader' = "reading"
    BY <1>6, <2>2 DEF PushLine, TypeOK
  <2>8. Len(raw_queue') <= line_number'
    BY <2>1, <2>3, <2>7 DEF Feeding, TypeOK
  <2> QED BY <1>6, <2>1, <2>4, <2>5, <2>6, <2>7, <2>8 DEF PushLine, Feeding, caller, work
<1>7. CASE EndOfFile
  BY <1>7, FilesTyped DEF EndOfFile, Feeding, TypeOK, caller, work, Popped
<1>8. ASSUME NEW w \in Workers, PopLine(w) PROVE Feeding'
  <2>1. phase = "loading"
    BY <1>8 DEF PopLine, Feeding
  <2>2. /\ Len(raw_queue') = Len(raw_queue) - 1 /\ Len(raw_queue) \in Nat
        /\ DOMAIN raw_queue' = 1..(Len(raw_queue) - 1)
        /\ \A k \in DOMAIN raw_queue' : raw_queue'[k] = raw_queue[k+1] /\ k + 1 \in DOMAIN raw_queue
    BY <1>8 DEF PopLine, TypeOK
  <2>3. Popped' = Popped + 1 /\ line_number' = line_number /\ line_number \in Nat
    BY <1>8, <2>2 DEF PopLine, Popped, TypeOK
  <2>4. \A k \in DOMAIN raw_queue' : raw_queue'[k] = Popped' + k
    BY <2>1, <2>2, <2>3 DEF Feeding, Popped
  <2>5. \A u \in Workers : at'[u] \notin {"merging", "ended"}
    BY <1>8, <2>1 DEF PopLine, Feeding, TypeOK
  <2>6. Len(raw_queue') <= line_number'
    BY <2>1, <2>2, <2>3 DEF Feeding
  <2> QED BY <1>8, <2>1, <2>4, <2>5, <2>6 DEF PopLine, Feeding, caller
<1>9. ASSUME NEW w \in Workers, ProcessLine(w) PROVE Feeding'
  <2>1. phase = "loading" /\ at' = [at EXCEPT ![w] = "polling"]
    BY <1>9 DEF ProcessLine, Feeding
  <2>2. \A u \in Workers : at'[u] \in {"merging", "ended"} => at[u] \in {"merging", "ended"}
    BY <2>1 DEF TypeOK
  <2> QED BY <1>9, <2>1, <2>2 DEF ProcessLine, Feeding, caller, queue, Popped
<1>10. ASSUME NEW w \in Workers, NoMoreLines(w) PROVE Feeding'
  <2>1. phase = "loading" /\ at' = [at EXCEPT ![w] = "merging"]
    BY <1>10 DEF NoMoreLines, Feeding
  <2> QED BY <1>10, <2>1 DEF NoMoreLines, Feeding, TypeOK, caller, queue, Popped
<1>11. ASSUME NEW w \in Workers, MergeResults(w) PROVE Feeding'
  <2>1. phase = "loading" /\ at' = [at EXCEPT ![w] = "ended"]
    BY <1>11 DEF MergeResults, Feeding
  <2> QED BY <1>11, <2>1 DEF MergeResults, Feeding, TypeOK, caller, queue, Popped
<1>12. CASE UNCHANGED vars
  BY <1>12 DEF Feeding, vars, caller, queue, work, Popped
<1> QED
  BY <1>1, <1>2, <1>3, <1>4, <1>5, <1>6, <1>7, <1>8, <1>9, <1>10, <1>11, <1>12
  DEF Next, Loader, Worker

-----------------------------------------------------------------------------
(* Membership and uniqueness under the operations on sequences.             *)

(* Nothing is in the empty list.                                            *)
LEMMA InEmpty == \A l : ~In(<<>>, l)
BY DEF In

(* Appending adds one member, and no repetition if it is new.               *)
LEMMA InAppend ==
  ASSUME NEW s \in Seq(Nat), NEW x \in Nat
  PROVE  /\ \A l : In(Append(s, x), l) <=> In(s, l) \/ l = x
         /\ Once(s) /\ ~In(s, x) => Once(Append(s, x))
<1>1. /\ DOMAIN Append(s, x) = 1..(Len(s) + 1) /\ DOMAIN s = 1..Len(s) /\ Len(s) \in Nat
      /\ \A k \in DOMAIN s : Append(s, x)[k] = s[k]
      /\ Append(s, x)[Len(s) + 1] = x
  OBVIOUS
<1>2. \A l : In(Append(s, x), l) <=> In(s, l) \/ l = x
  <2> TAKE l
  <2>1. ASSUME In(Append(s, x), l) PROVE In(s, l) \/ l = x
    <3>1. PICK k \in DOMAIN Append(s, x) : Append(s, x)[k] = l
      BY <2>1 DEF In
    <3>2. k \in DOMAIN s \/ k = Len(s) + 1
      BY <1>1
    <3> QED BY <1>1, <3>1, <3>2 DEF In
  <2>2. ASSUME In(s, l) PROVE In(Append(s, x), l)
    <3>1. PICK k \in DOMAIN s : s[k] = l
      BY <2>2 DEF In
    <3>2. k \in DOMAIN Append(s, x) /\ Append(s, x)[k] = l
      BY <1>1, <3>1
    <3> QED BY <3>2 DEF In
  <2>3. In(Append(s, x), x)
    <3>1. Len(s) + 1 \in DOMAIN Append(s, x)
      BY <1>1
    <3> QED BY <1>1, <3>1 DEF In
  <2> QED BY <2>1, <2>2, <2>3
<1>3. Once(s) /\ ~In(s, x) => Once(Append(s, x))
  BY <1>1 DEF Once, In
<1> QED BY <1>2, <1>3

(* Concatenation joins the members, and repeats none of disjoint lists.     *)
LEMMA InConcat ==
  ASSUME NEW s \in Seq(Nat), NEW t \in Seq(Nat)
  PROVE  /\ \A l : In(s \o t, l) <=> In(s, l) \/ In(t, l)
         /\ Once(s) /\ Once(t) /\ (\A l \in Nat : ~(In(s, l) /\ In(t, l))) => Once(s \o t)
<1>1. /\ DOMAIN (s \o t) = 1..(Len(s) + Len(t)) /\ DOMAIN s = 1..Len(s) /\ DOMAIN t = 1..Len(t)
      /\ Len(s) \in Nat /\ Len(t) \in Nat
      /\ \A k \in DOMAIN s : (s \o t)[k] = s[k]
      /\ \A k \in DOMAIN (s \o t) : k \notin DOMAIN s =>
           k - Len(s) \in DOMAIN t /\ (s \o t)[k] = t[k - Len(s)]
  OBVIOUS
<1>2. \A l : In(s \o t, l) <=> In(s, l) \/ In(t, l)
  <2> TAKE l
  <2>1. ASSUME In(s \o t, l) PROVE In(s, l) \/ In(t, l)
    <3>1. PICK k \in DOMAIN (s \o t) : (s \o t)[k] = l
      BY <2>1 DEF In
    <3> QED BY <1>1, <3>1 DEF In
  <2>2. ASSUME In(s, l) PROVE In(s \o t, l)
    <3>1. PICK k \in DOMAIN s : s[k] = l
      BY <2>2 DEF In
    <3>2. k \in DOMAIN (s \o t) /\ (s \o t)[k] = l
      BY <1>1, <3>1
    <3> QED BY <3>2 DEF In
  <2>3. ASSUME In(t, l) PROVE In(s \o t, l)
    <3>1. PICK k \in DOMAIN t : t[k] = l
      BY <2>3 DEF In
    <3>2. k + Len(s) \in DOMAIN (s \o t) /\ k + Len(s) \notin DOMAIN s /\ (k + Len(s)) - Len(s) = k
      BY <1>1, <3>1
    <3>3. (s \o t)[k + Len(s)] = l
      BY <1>1, <3>1, <3>2
    <3> QED BY <3>2, <3>3 DEF In
  <2> QED BY <2>1, <2>2, <2>3
<1>3. ASSUME Once(s), Once(t), \A l \in Nat : ~(In(s, l) /\ In(t, l))
      PROVE  Once(s \o t)
  <2> SUFFICES ASSUME NEW k \in DOMAIN (s \o t), NEW j \in DOMAIN (s \o t),
                      (s \o t)[k] = (s \o t)[j]
               PROVE  k = j
    BY DEF Once
  <2>1. ASSUME NEW m \in DOMAIN (s \o t), NEW n \in DOMAIN (s \o t),
               m \in DOMAIN s, n \notin DOMAIN s, (s \o t)[m] = (s \o t)[n]
        PROVE  FALSE
    <3>1. In(s, s[m]) /\ In(t, s[m]) /\ s[m] \in Nat
      BY SMTT(30), <1>1, <2>1 DEF In
    <3> QED BY <1>3, <3>1
  <2>2. CASE k \in DOMAIN s /\ j \in DOMAIN s
    BY <1>1, <1>3, <2>2 DEF Once
  <2>3. CASE k \notin DOMAIN s /\ j \notin DOMAIN s
    <3>1. k - Len(s) = j - Len(s)
      BY <1>1, <1>3, <2>3 DEF Once
    <3> QED BY <1>1, <3>1
  <2> QED BY <2>1, <2>2, <2>3
<1> QED BY <1>2, <1>3

-----------------------------------------------------------------------------
(* The workers' side.                                                       *)

(* Every step keeps the workers' part of the invariant.                     *)
LEMMA ConveyedNext ==
  ASSUME TypeOK, TypeOK', Feeding, Conveyed, [Next]_vars
  PROVE  Conveyed'
<1> USE PreprocessorAssumption
<1>1. CASE StartLoading
  <2>1. \A w \in Workers : at'[w] = "polling" /\ raw'[w] = NoLine /\ local_results'[w] = <<>>
    BY <1>1, FreshWorkers, EachTyped DEF StartLoading
  <2>2. documents' = <<>> /\ Popped' = 0
    <3>1. documents' = <<>> /\ raw_queue' = <<>> /\ line_number' = 0 /\ Len(<<>>) = 0
      BY <1>1 DEF StartLoading
    <3>2. Len(raw_queue') = 0
      BY <3>1
    <3>3. line_number' = 0 /\ documents' = <<>>
      BY <3>1
    <3> QED BY <3>2, <3>3 DEF Popped
  <2>3. Once(<<>>)
    BY DEF Once
  <2> QED BY <2>1, <2>2, <2>3, InEmpty DEF Conveyed
<1>2. CASE Collect
  BY <1>2 DEF Collect, Conveyed
<1>3. CASE AllLoaded
  BY <1>3 DEF AllLoaded, Conveyed
<1>4. CASE Loader
  <2>1. /\ UNCHANGED <<at, raw, local_results, documents, next_file, phase>>
        /\ Popped' = Popped
    <3>1. CASE PushLine
      BY <3>1 DEF PushLine, Popped, TypeOK, caller, work
    <3> QED BY <1>4, <3>1 DEF Loader, OpenFile, OpenFails, EndOfFile, Popped, caller, work
  <2> QED BY <2>1 DEF Conveyed, Long
<1>5. ASSUME NEW w \in Workers, PopLine(w) PROVE Conveyed'
  <2>1. phase = "loading" /\ at[w] = "polling" /\ raw[w] = NoLine
    BY <1>5 DEF PopLine, Feeding, Conveyed
  <2>2. Popped' = Popped + 1 /\ Popped \in Nat /\ Head(raw_queue) = Popped + 1
    BY SMTT(30), <1>5, <2>1 DEF PopLine, Popped, TypeOK, Feeding
  <2>3. /\ raw' = [raw EXCEPT ![w] = Popped + 1]
        /\ at' = [at EXCEPT ![w] = "parsing"]
        /\ UNCHANGED <<local_results, documents, next_file, phase>>
    BY <1>5, <2>2 DEF PopLine, caller
  <2>4. \A l : Long(l)' <=> Long(l)
    BY <2>3 DEF Long
  <2>5. /\ raw'[w] = Popped + 1 /\ at'[w] = "parsing"
        /\ \A u \in Workers \ {w} : raw'[u] = raw[u] /\ at'[u] = at[u]
    BY <2>3 DEF TypeOK
  <2>6. \A u \in Workers : raw'[u] # NoLine => raw'[u] \in 1..(Popped + 1)
    BY <2>1, <2>2, <2>5 DEF Conveyed
  <2>7. \A u \in Workers \ {w} : raw[u] # Popped + 1
    BY <2>1, <2>2 DEF Conveyed
  <2>8. Popped + 1 \in Nat /\ Popped + 1 \notin 1..Popped /\ Popped + 1 # NoLine
    BY <2>2
  <2>9. /\ ~In(documents, Popped + 1)
        /\ \A u \in Workers : ~In(local_results[u], Popped + 1)
    BY <2>1, <2>8 DEF Conveyed
  <2>10. \A l \in 1..(Popped + 1) : l \in 1..Popped \/ l = Popped + 1
    BY <2>2
  <2>11. \A l \in 1..Popped : l \in 1..(Popped + 1)
    BY <2>2
  <2>12. \A u \in Workers :
          /\ raw'[u] # NoLine => raw'[u] \in 1..Popped'
          /\ at'[u] = "parsing" <=> raw'[u] # NoLine
          /\ at'[u] = "ended" => local_results'[u] = <<>>
          /\ \A l \in Nat : In(local_results'[u], l) => l \in 1..Popped' /\ Long(l)'
          /\ Once(local_results'[u])
    BY <2>1, <2>2, <2>3, <2>4, <2>5, <2>6, <2>8, <2>11 DEF Conveyed
  <2>13. (\A l \in Nat : In(documents', l) => l \in 1..Popped' /\ Long(l)') /\ Once(documents')
    BY <2>1, <2>2, <2>3, <2>4, <2>11 DEF Conveyed
  <2>14. \A u, v \in Workers : \A l \in Nat :
          /\ raw'[u] = l /\ raw'[v] = l => u = v
          /\ In(local_results'[u], l) /\ In(local_results'[v], l) => u = v
          /\ ~(raw'[u] = l /\ In(local_results'[v], l))
    BY <2>1, <2>3, <2>5, <2>7, <2>9 DEF Conveyed
  <2>15. \A u \in Workers : \A l \in Nat :
          In(documents', l) => raw'[u] # l /\ ~In(local_results'[u], l)
    BY <2>1, <2>3, <2>5, <2>9 DEF Conveyed
  <2>16. \A l \in 1..Popped' : Long(l)' =>
          \/ In(documents', l)
          \/ \E u \in Workers : raw'[u] = l \/ In(local_results'[u], l)
    <3> SUFFICES ASSUME NEW l \in 1..Popped', Long(l)
                 PROVE  \/ In(documents', l)
                        \/ \E u \in Workers : raw'[u] = l \/ In(local_results'[u], l)
      BY <2>4
    <3>1. CASE l = Popped + 1
      BY <2>5, <3>1
    <3>2. CASE l \in 1..Popped
      <4>1. CASE In(documents, l)
        BY <2>3, <4>1
      <4>2. ASSUME NEW u \in Workers, raw[u] = l \/ In(local_results[u], l)
            PROVE  \E v \in Workers : raw'[v] = l \/ In(local_results'[v], l)
        <5>1. l # NoLine
          BY <3>2, <2>2
        <5> QED BY <2>1, <2>3, <2>5, <4>2, <5>1
      <4> QED BY <2>1, <3>2, <4>1, <4>2 DEF Conveyed
    <3> QED BY <2>2, <2>10, <3>1, <3>2
  <2> QED BY <2>12, <2>13, <2>14, <2>15, <2>16 DEF Conveyed
<1>6. ASSUME NEW w \in Workers, ProcessLine(w) PROVE Conveyed'
  <2>1. phase = "loading" /\ at[w] = "parsing" /\ raw[w] \in 1..Popped /\ raw[w] \in Nat
    BY <1>6 DEF ProcessLine, Feeding, Conveyed, TypeOK
  <2>2. /\ Popped' = Popped /\ raw'[w] = NoLine /\ at'[w] = "polling"
        /\ \A u \in Workers \ {w} : raw'[u] = raw[u] /\ at'[u] = at[u]
                                   /\ local_results'[u] = local_results[u]
        /\ UNCHANGED <<documents, next_file, phase>>
    BY <1>6 DEF ProcessLine, caller, queue, Popped, TypeOK
  <2>3. \A l : Long(l)' <=> Long(l)
    BY <2>2 DEF Long
  <2>4. /\ \A l : In(local_results'[w], l) <=> In(local_results[w], l) \/ (l = raw[w] /\ Long(raw[w]))
        /\ Once(local_results'[w])
    <3>1. raw[w] \in DOMAIN Files[next_file]
      <4>1. next_file \in 1..Len(Files) /\ Files[next_file] \in Seq(BOOLEAN)
        BY SMTT(30), <2>1, FilesTyped DEF TypeOK
      <4>2. DOMAIN Files[next_file] = 1..Len(Files[next_file]) /\ Len(Files[next_file]) \in Nat
        BY <4>1
      <4>3. Popped <= line_number /\ line_number <= Len(Files[next_file]) /\ line_number \in Nat
        BY <2>1 DEF Feeding, TypeOK, Popped
      <4>4. Popped \in Int
        BY DEF TypeOK, Popped
      <4> QED BY <2>1, <4>2, <4>3, <4>4
    <3>2. local_results[w] \in Seq(Nat) /\ Once(local_results[w]) /\ ~In(local_results[w], raw[w])
      BY <2>1 DEF TypeOK, Conveyed
    <3>3. CASE Files[next_file][raw[w]]
      <4>1. local_results'[w] = Append(local_results[w], raw[w])
        BY <1>6, <3>3 DEF ProcessLine, TypeOK
      <4>2. Long(raw[w])
        BY <3>1, <3>3 DEF Long
      <4> QED BY <2>1, <3>2, <4>1, <4>2, InAppend
    <3>4. CASE ~Files[next_file][raw[w]]
      <4>1. local_results'[w] = local_results[w] /\ ~Long(raw[w])
        BY <1>6, <3>4 DEF ProcessLine, Long
      <4> QED BY <3>2, <4>1
    <3> QED BY <3>3, <3>4
  <2>5. \A u \in Workers :
          /\ raw'[u] # NoLine => raw'[u] \in 1..Popped'
          /\ at'[u] = "parsing" <=> raw'[u] # NoLine
          /\ at'[u] = "ended" => local_results'[u] = <<>>
          /\ \A l \in Nat : In(local_results'[u], l) => l \in 1..Popped' /\ Long(l)'
          /\ Once(local_results'[u])
    BY <2>1, <2>2, <2>3, <2>4 DEF Conveyed
  <2>6. (\A l \in Nat : In(documents', l) => l \in 1..Popped' /\ Long(l)') /\ Once(documents')
    BY <2>1, <2>2, <2>3 DEF Conveyed
  <2>7. \A u \in Workers : \A l \in Nat :
          /\ raw'[u] = l => raw[u] = l /\ u # w
          /\ In(local_results'[u], l) =>
                \/ In(local_results[u], l)
                \/ u = w /\ l = raw[w]
    BY <2>2, <2>4
  <2>8. \A u, v \in Workers : \A l \in Nat :
          /\ raw'[u] = l /\ raw'[v] = l => u = v
          /\ In(local_results'[u], l) /\ In(local_results'[v], l) => u = v
          /\ ~(raw'[u] = l /\ In(local_results'[v], l))
    <3> SUFFICES ASSUME NEW u \in Workers, NEW v \in Workers, NEW l \in Nat
                 PROVE  /\ raw'[u] = l /\ raw'[v] = l => u = v
                        /\ In(local_results'[u], l) /\ In(local_results'[v], l) => u = v
                        /\ ~(raw'[u] = l /\ In(local_results'[v], l))
      OBVIOUS
    <3>1. \A a, b \in {u, v, w} :
            /\ raw[a] = l /\ raw[b] = l => a = b
            /\ In(local_results[a], l) /\ In(local_results[b], l) => a = b
            /\ ~(raw[a] = l /\ In(local_results[b], l))
      BY <2>1 DEF Conveyed
    <3>2. \A a \in {u, v} :
            /\ raw'[a] = l => raw[a] = l /\ a # w
            /\ In(local_results'[a], l) => In(local_results[a], l) \/ (a = w /\ l = raw[w])
      BY <2>7
    <3> QED BY <3>1, <3>2
  <2>9. \A u \in Workers : \A l \in Nat :
          In(documents', l) => raw'[u] # l /\ ~In(local_results'[u], l)
    BY <2>1, <2>2, <2>7 DEF Conveyed
  <2>10. \A l \in 1..Popped' : Long(l)' =>
          \/ In(documents', l)
          \/ \E u \in Workers : raw'[u] = l \/ In(local_results'[u], l)
    <3> SUFFICES ASSUME NEW l \in 1..Popped, Long(l)
                 PROVE  \/ In(documents, l)
                        \/ \E u \in Workers : raw'[u] = l \/ In(local_results'[u], l)
      BY <2>2, <2>3
    <3>1. ASSUME NEW u \in Workers, raw[u] = l \/ In(local_results[u], l)
          PROVE  \E v \in Workers : raw'[v] = l \/ In(local_results'[v], l)
      <4>1. CASE u = w
        BY <2>4, <3>1, <4>1
      <4>2. CASE u # w
        BY <2>2, <3>1, <4>2
      <4> QED BY <4>1, <4>2
    <3> QED BY <2>1, <3>1 DEF Conveyed
  <2> QED BY <2>5, <2>6, <2>8, <2>9, <2>10 DEF Conveyed
<1>7. ASSUME NEW w \in Workers, NoMoreLines(w) PROVE Conveyed'
  <2>1. /\ Popped' = Popped /\ UNCHANGED <<raw, local_results, documents, next_file, phase>>
        /\ at[w] = "polling" /\ at' = [at EXCEPT ![w] = "merging"]
    BY <1>7 DEF NoMoreLines, caller, queue, Popped
  <2>2. \A u \in Workers : /\ at'[u] = "parsing" <=> at[u] = "parsing"
                           /\ at'[u] = "ended" <=> at[u] = "ended"
    BY <2>1 DEF TypeOK
  <2> QED BY <2>1, <2>2 DEF Conveyed, Long
<1>8. ASSUME NEW w \in Workers, MergeResults(w) PROVE Conveyed'
  <2>1. phase = "loading" /\ at[w] = "merging" /\ raw[w] = NoLine
    BY <1>8 DEF MergeResults, Feeding, Conveyed
  <2>2. /\ Popped' = Popped /\ UNCHANGED <<raw, next_file, phase>>
        /\ at'[w] = "ended" /\ local_results'[w] = <<>>
        /\ \A u \in Workers \ {w} : at'[u] = at[u] /\ local_results'[u] = local_results[u]
    BY <1>8 DEF MergeResults, caller, queue, Popped, TypeOK
  <2>3. \A l : Long(l)' <=> Long(l)
    BY <2>2 DEF Long
  <2>4. /\ \A l : In(documents', l) <=> In(documents, l) \/ In(local_results[w], l)
        /\ Once(documents')
    <3>1. /\ documents \in Seq(Nat) /\ local_results[w] \in Seq(Nat)
          /\ documents' = documents \o local_results[w]
      BY <1>8 DEF MergeResults, TypeOK
    <3>2. /\ Once(documents) /\ Once(local_results[w])
          /\ \A l \in Nat : ~(In(documents, l) /\ In(local_results[w], l))
      BY <2>1 DEF Conveyed
    <3> QED BY <3>1, <3>2, InConcat
  <2>5. \A u \in Workers :
          /\ raw'[u] # NoLine => raw'[u] \in 1..Popped'
          /\ at'[u] = "parsing" <=> raw'[u] # NoLine
          /\ at'[u] = "ended" => local_results'[u] = <<>>
          /\ \A l \in Nat : In(local_results'[u], l) => l \in 1..Popped' /\ Long(l)'
          /\ Once(local_results'[u])
    <3>1. Once(<<>>)
      BY DEF Once
    <3> QED BY <2>1, <2>2, <2>3, <3>1, InEmpty DEF Conveyed
  <2>6. (\A l \in Nat : In(documents', l) => l \in 1..Popped' /\ Long(l)') /\ Once(documents')
    BY <2>1, <2>2, <2>3, <2>4 DEF Conveyed
  <2>7. \A u \in Workers : \A l \in Nat :
          In(local_results'[u], l) => In(local_results[u], l) /\ u # w
    BY <2>2, InEmpty
  <2>8. \A u, v \in Workers : \A l \in Nat :
          /\ raw'[u] = l /\ raw'[v] = l => u = v
          /\ In(local_results'[u], l) /\ In(local_results'[v], l) => u = v
          /\ ~(raw'[u] = l /\ In(local_results'[v], l))
    BY <2>1, <2>2, <2>7 DEF Conveyed
  <2>9. \A u \in Workers : \A l \in Nat :
          In(documents', l) => raw'[u] # l /\ ~In(local_results'[u], l)
    BY <2>1, <2>2, <2>4, <2>7 DEF Conveyed
  <2>10. \A l \in 1..Popped' : Long(l)' =>
          \/ In(documents', l)
          \/ \E u \in Workers : raw'[u] = l \/ In(local_results'[u], l)
    BY <2>1, <2>2, <2>3, <2>4 DEF Conveyed
  <2> QED BY <2>5, <2>6, <2>8, <2>9, <2>10 DEF Conveyed
<1>9. CASE UNCHANGED vars
  BY <1>9 DEF Conveyed, Long, Popped, vars, caller, queue, work
<1> QED
  BY <1>1, <1>2, <1>3, <1>4, <1>5, <1>6, <1>7, <1>8, <1>9 DEF Next, Worker

IInv == TypeOK /\ Feeding /\ Conveyed

(* The inductive invariant holds in every reachable state.                  *)
LEMMA Invariance == Spec => []IInv
<1>1. Init => IInv
  <2>1. Init => Conveyed
    BY DEF Init, Conveyed
  <2>2. Init => TypeOK
    BY InitTyped
  <2> QED BY <2>1, <2>2, FeedingInit DEF IInv
<1>2. IInv /\ [Next]_vars => IInv'
  BY NextTyped, FeedingNext, ConveyedNext DEF IInv
<1> QED BY <1>1, <1>2, PTL DEF Spec

(* The type invariant of the queue, the threads and their results.         *)
THEOREM TypeCorrect == Spec => []TypeOK
BY Invariance, PTL DEF IInv

(* A worker leaves only when the queue is empty and the file is read.      *)
THEOREM NothingLeft == Spec => []LeavesNothing
<1>1. IInv => LeavesNothing
  BY DEF IInv, Feeding, LeavesNothing
<1> QED BY <1>1, Invariance, PTL

(* When the threads are joined, each line long enough is in the result     *)
(* once, for any number of workers and any files.                          *)
LEMMA JoinedResult ==
  ASSUME IInv, phase = "loading", loader = "ended", \A w \in Workers : at[w] = "ended"
  PROVE  /\ {documents[k] : k \in DOMAIN documents} =
              IF next_file \in opened THEN LongLines ELSE {}
         /\ Once(documents)
<1>1. /\ next_file \in 1..Len(Files) /\ documents \in Seq(Nat)
      /\ Files[next_file] \in Seq(BOOLEAN)
  BY PreprocessorAssumption, FilesTyped DEF IInv, TypeOK
<1>2. raw_queue = <<>> /\ Popped = line_number
  <2>1. PICK w \in Workers : TRUE
    BY PreprocessorAssumption
  <2>2. raw_queue = <<>> /\ line_number \in Nat
    BY <2>1 DEF IInv, Feeding, TypeOK
  <2>3. Len(raw_queue) = 0
    BY <2>2
  <2> QED BY <2>2, <2>3 DEF Popped
<1>3. \A l \in Nat : In(documents, l) <=> l \in 1..line_number /\ Long(l)
  <2>1. \A w \in Workers : raw[w] = NoLine /\ local_results[w] = <<>>
    BY DEF IInv, Conveyed
  <2>2. \A w \in Workers : \A l \in Nat : raw[w] # l /\ ~In(local_results[w], l)
    BY <2>1, InEmpty, PreprocessorAssumption
  <2>3. 1..line_number \subseteq Nat
    OBVIOUS
  <2> QED BY <1>2, <2>2, <2>3 DEF IInv, Conveyed
<1>4. \A l : In(documents, l) => l \in Nat
  BY <1>1 DEF In
<1>5. \A l : l \in {documents[k] : k \in DOMAIN documents} <=> In(documents, l)
  BY DEF In
<1>6. CASE next_file \in opened
  <2>1. line_number = Len(Files[next_file])
    BY <1>6 DEF IInv, Feeding
  <2>2. DOMAIN Files[next_file] = 1..line_number /\ 1..line_number \subseteq Nat
    BY <1>1, <2>1
  <2>3. \A l : l \in LongLines <=> l \in 1..line_number /\ Long(l)
    BY <2>2 DEF LongLines, Long
  <2> QED BY <1>3, <1>4, <1>5, <1>6, <2>2, <2>3 DEF IInv, Conveyed
<1>7. CASE next_file \notin opened
  <2>1. line_number = 0
    BY <1>7 DEF IInv, Feeding
  <2>2. \A l : ~In(documents, l)
    BY <1>3, <1>4, <2>1
  <2> QED BY <1>5, <1>7, <2>2 DEF IInv, Conveyed
<1> QED BY <1>6, <1>7

(* Whenever the threads of a file are joined, its result holds each line that is*)
(* long enough exactly once.                                                *)
THEOREM EachLineOnce == Spec => []EveryLineOnce
<1>1. IInv => EveryLineOnce
  BY JoinedResult DEF EveryLineOnce, Once
<1> QED BY <1>1, Invariance, PTL

-----------------------------------------------------------------------------
(* The preprocessor implements Loading.                                     *)

(* A list without repetition is as long as its set of elements is large.    *)
LEMMA ListLength ==
  ASSUME NEW S, NEW n \in Nat, NEW s \in [1..n -> S],
         \A k, j \in 1..n : s[k] = s[j] => k = j,
         \A x \in S : \E k \in 1..n : s[k] = x
  PROVE  Cardinality(S) = n
<1>1. s \in Bijection(1..n, S)
  BY Fun_IsBij
<1>2. ExistsBijection(1..n, S)
  BY <1>1, Fun_ExistsBij
<1> QED BY <1>2, FS_CountingElements

(* No candidate is one of the made-up samples before the list is complete.  *)
Genuine == phase # "done" => \A k \in DOMAIN local_candidates : local_candidates[k][1] # 0

(* A list without made-up documents is not the list of samples.             *)
LEMMA GenuineNotSamples ==
  ASSUME Genuine, phase # "done"
  PROVE  local_candidates # Samples
<1>1. 1 \in DOMAIN Samples /\ Samples[1][1] = 0
  BY DEF Samples
<1> QED BY <1>1 DEF Genuine

(* Every step but the last keeps made-up documents out.                     *)
LEMMA GenuineNext ==
  ASSUME IInv, Genuine, [Next]_vars
  PROVE  Genuine'
<1>1. CASE StartLoading
  BY <1>1 DEF StartLoading, Genuine
<1>2. CASE Collect
  <2> DEFINE found == [k \in DOMAIN documents |-> <<next_file, documents[k]>>]
  <2>1. documents \in Seq(Nat) /\ local_candidates \in Seq(Nat \X Nat) /\ next_file \in 1..Len(Files)
    BY <1>2, FilesTyped DEF Collect, IInv, TypeOK
  <2>2. found \in Seq(Nat \X Nat) /\ \A k \in DOMAIN found : found[k][1] # 0
    <3>1. DOMAIN documents = 1..Len(documents) /\ Len(documents) \in Nat
      BY <2>1
    <3>2. \A k \in 1..Len(documents) : <<next_file, documents[k]>> \in Nat \X Nat
      BY <2>1
    <3>3. \A k \in DOMAIN found : found[k][1] # 0
      BY <2>1, <3>1
    <3> QED BY <3>1, <3>2, <3>3
  <2>3. local_candidates' = local_candidates \o found
    BY <1>2 DEF Collect
  <2> HIDE DEF found
  <2>4. \A k \in DOMAIN (local_candidates \o found) :
          \/ k \in DOMAIN local_candidates /\ (local_candidates \o found)[k] = local_candidates[k]
          \/ /\ k - Len(local_candidates) \in DOMAIN found
             /\ (local_candidates \o found)[k] = found[k - Len(local_candidates)]
    BY SMTT(30), <2>1, <2>2
  <2>5. phase # "done"
    BY <1>2 DEF Collect
  <2> QED BY <2>2, <2>3, <2>4, <2>5 DEF Genuine
<1>3. CASE AllLoaded
  BY <1>3 DEF AllLoaded, Genuine
<1>4. CASE Loader
  BY <1>4 DEF Loader, OpenFile, OpenFails, PushLine, EndOfFile, caller, Genuine
<1>5. ASSUME NEW w \in Workers, Worker(w) PROVE Genuine'
  BY <1>5 DEF Worker, PopLine, ProcessLine, NoMoreLines, MergeResults, caller, Genuine
<1>6. CASE UNCHANGED vars
  BY <1>6 DEF vars, caller, Genuine
<1> QED BY <1>1, <1>2, <1>3, <1>4, <1>5, <1>6 DEF Next

(* The documents of a file that was read are one of the arrangements of its *)
(* kept lines.                                                              *)
LEMMA CollectLoads ==
  ASSUME IInv, Collect
  PROVE  LET found == [k \in DOMAIN documents |-> <<next_file, documents[k]>>]
         IN  IF next_file \in opened THEN found \in Promise!Lists(Promise!Kept(next_file))
                                     ELSE found = <<>>
<1> DEFINE found == [k \in DOMAIN documents |-> <<next_file, documents[k]>>]
           kept  == Promise!Kept(next_file)
<1>1. /\ documents \in Seq(Nat) /\ Once(documents)
      /\ {documents[k] : k \in DOMAIN documents} =
           IF next_file \in opened THEN LongLines ELSE {}
  BY JoinedResult DEF Collect, IInv, TypeOK
<1>2. Len(documents) \in Nat /\ DOMAIN documents = 1..Len(documents)
  BY <1>1
<1>3. CASE next_file \notin opened
  <2>1. DOMAIN documents = {}
    BY <1>1, <1>3
  <2>2. Len(documents) = 0
    BY <1>2, <2>1
  <2>3. found = <<>>
    BY <1>2, <2>2
  <2> QED BY <1>3, <2>3
<1>4. CASE next_file \in opened
  <2>1. \A x : x \in kept <=> \E l \in LongLines : x = <<next_file, l>>
    BY DEF Promise!Kept, LongLines
  <2>2. \A l : l \in LongLines <=> \E k \in 1..Len(documents) : documents[k] = l
    BY <1>1, <1>2, <1>4
  <2> HIDE DEF kept
  <2>3. found \in [1..Len(documents) -> kept]
    BY <1>2, <2>1, <2>2
  <2>4. \A k, j \in 1..Len(documents) : found[k] = found[j] => k = j
    BY <1>1, <1>2 DEF Once
  <2>5. \A x \in kept : \E k \in 1..Len(documents) : found[k] = x
    BY <1>2, <2>1, <2>2
  <2> HIDE DEF found
  <2>6. Cardinality(kept) = Len(documents)
    BY <1>2, <2>3, <2>4, <2>5, ListLength
  <2>7. DOMAIN found = 1..Len(documents)
    BY <2>3
  <2>8. found \in Promise!Lists(kept)
    <3>1. found \in [1..Cardinality(kept) -> kept]
      BY <2>3, <2>6
    <3>2. \A k, j \in DOMAIN found : found[k] = found[j] => k = j
      BY <2>4, <2>7
    <3>3. \A s : s \in Promise!Lists(kept) <=>
            s \in [1..Cardinality(kept) -> kept] /\ \A k, j \in DOMAIN s : s[k] = s[j] => k = j
      <4>1. Promise!Cardinality(kept) = Cardinality(kept)
        BY Zenon DEF Promise!Cardinality, Cardinality, Promise!IsFiniteSet, IsFiniteSet
      <4> QED BY <4>1, Zenon DEF Promise!Lists
    <3> QED BY <3>1, <3>2, <3>3
  <2> QED BY <1>4, <2>8 DEF found, kept
<1> QED BY <1>3, <1>4

(* Every step of the preprocessor is a Load of Loading or changes nothing there.*)
LEMMA StepLoads ==
  ASSUME IInv, Genuine, Genuine', [Next]_vars
  PROVE  [Promise!Load]_<<IF phase = "loading" THEN next_file - 1 ELSE next_file,
                          IF phase = "loading" THEN opened \ {next_file} ELSE opened,
                          IF local_candidates = Samples THEN <<>> ELSE local_candidates>>
<1> DEFINE n == IF phase = "loading" THEN next_file - 1 ELSE next_file
           o == IF phase = "loading" THEN opened \ {next_file} ELSE opened
           c == IF local_candidates = Samples THEN <<>> ELSE local_candidates
<1>1. CASE StartLoading
  <2>1. UNCHANGED local_candidates /\ phase = "next" /\ phase' = "loading" /\ next_file' = next_file + 1
        /\ next_file \in Nat
    BY <1>1, FilesTyped DEF StartLoading, IInv, TypeOK
  <2>2. n' = n
    BY <2>1
  <2>3. c' = c
    BY <2>1 DEF Samples
  <2>4. o' = o
    <3>1. next_file' \notin opened
      BY <2>1 DEF IInv, Feeding
    <3>2. opened' = opened
      BY <1>1 DEF StartLoading
    <3> QED BY <2>1, <3>1, <3>2
  <2> QED BY <2>2, <2>3, <2>4
<1>2. CASE Collect
  <2> DEFINE found == [k \in DOMAIN documents |-> <<next_file, documents[k]>>]
  <2>1. /\ phase = "loading" /\ phase' = "next" /\ next_file' = next_file
        /\ local_candidates' = local_candidates \o found
        /\ next_file \in 1..Len(Files)
    BY <1>2 DEF Collect, IInv, TypeOK
  <2>2. local_candidates # Samples /\ local_candidates' # Samples
    <3>1. local_candidates # Samples
      BY <2>1, GenuineNotSamples
    <3>2. 1 \in DOMAIN Samples /\ Samples[1][1] = 0
      BY DEF Samples
    <3>3. local_candidates' # Samples
      BY <2>1, <3>2 DEF Genuine
    <3> QED BY <3>1, <3>3
  <2>3. IF next_file \in opened THEN found \in Promise!Lists(Promise!Kept(next_file))
                                ELSE found = <<>>
    BY <1>2, CollectLoads
  <2>4. n < Len(Files) /\ n' = n + 1 /\ n' = next_file
    BY <2>1, FilesTyped
  <2>5. c' = c \o found
    BY <2>1, <2>2 DEF Samples
  <2>6. o' = opened /\ o = opened \ {next_file}
    BY <1>2, <2>1 DEF Collect, queue
  <2>7. c \in Seq(Nat \X Nat)
    BY <2>2 DEF IInv, TypeOK
  <2>8. CASE next_file \in opened
    <3>1. o' = o \cup {n'}
      BY <2>4, <2>6, <2>8
    <3>2. \E s \in Promise!Lists(Promise!Kept(n')) : c' = c \o s
      <4> HIDE DEF found, c
      <4> QED BY <2>3, <2>4, <2>5, <2>8
    <3> QED BY <2>4, <3>1, <3>2 DEF Promise!Load, Promise!LoadFile
  <2>9. CASE next_file \notin opened
    <3>1. o' = o
      BY <2>6, <2>9
    <3>2. c' = c
      <4>1. \A s \in Seq(Nat \X Nat) : s \o <<>> = s
        OBVIOUS
      <4> HIDE DEF found, c
      <4> QED BY <2>3, <2>5, <2>7, <2>9, <4>1
    <3> QED BY <2>4, <3>1, <3>2 DEF Promise!Load
  <2> QED BY <2>8, <2>9
<1>3. CASE AllLoaded
  <2>1. /\ phase = "next" /\ phase' = "done" /\ next_file' = next_file
        /\ local_candidates' = IF local_candidates = <<>> THEN Samples ELSE local_candidates
    BY <1>3 DEF AllLoaded
  <2>2. local_candidates # Samples
    BY <2>1, GenuineNotSamples
  <2>3. n' = n
    BY <2>1
  <2>4. Samples' = Samples
    BY DEF Samples
  <2>5. c' = c
    BY <2>1, <2>2, <2>4
  <2>6. o' = o
    BY <1>3, <2>1 DEF AllLoaded, queue
  <2> QED BY <2>3, <2>5, <2>6
<1>4. CASE UNCHANGED <<phase, next_file, opened, local_candidates>>
  <2>1. n' = n /\ o' = o /\ c' = c
    BY <1>4 DEF Samples
  <2> QED BY <2>1
<1>5. CASE Loader
  <2>1. UNCHANGED <<phase, next_file, local_candidates>>
    BY <1>5 DEF Loader, OpenFile, OpenFails, PushLine, EndOfFile, caller
  <2>2. phase = "loading" /\ opened' \ {next_file} = opened \ {next_file}
    BY <1>5 DEF Loader, OpenFile, OpenFails, PushLine, EndOfFile, IInv, TypeOK
  <2>3. n' = n /\ o' = o /\ c' = c
    BY <2>1, <2>2 DEF Samples
  <2> QED BY <2>3
<1>6. ASSUME NEW w \in Workers, Worker(w)
      PROVE  UNCHANGED <<phase, next_file, opened, local_candidates>>
  BY <1>6 DEF Worker, PopLine, ProcessLine, NoMoreLines, MergeResults, caller, queue
<1> HIDE DEF n, o, c
<1> QED BY <1>1, <1>2, <1>3, <1>4, <1>5, <1>6 DEF Next, vars, caller, queue

(* However the threads interleave, the client's list grows as if each file  *)
(* were loaded in one step.                                                 *)
THEOREM LoadsLikeSequential == Spec => LoadsLikeOne
<1>1. Init => Genuine
  BY DEF Init, Genuine
<1>2. Init => Promise!Init
  BY DEF Init, Promise!Init, Samples
<1>3. IInv /\ Genuine /\ [Next]_vars => Genuine'
  BY GenuineNext
<1>4. IInv /\ Genuine /\ Genuine' /\ [Next]_vars =>
        [Promise!Load]_<<IF phase = "loading" THEN next_file - 1 ELSE next_file,
                         IF phase = "loading" THEN opened \ {next_file} ELSE opened,
                         IF local_candidates = Samples THEN <<>> ELSE local_candidates>>
  BY StepLoads
<1> QED BY <1>1, <1>2, <1>3, <1>4, Invariance, PTL DEF Spec, LoadsLikeOne, Promise!Spec

-----------------------------------------------------------------------------
(* Remainders.  Numbers that differ by a multiple of q have the same.       *)

LEMMA ModFacts ==
  ASSUME NEW q \in Nat \ {0}, NEW x \in Int
  PROVE  /\ x % q \in 0..(q - 1)
         /\ \E k \in Int : x = (x % q) + k * q
<1>1. x = (x % q) + (x \div q) * q /\ x \div q \in Int /\ x % q \in 0..(q - 1)
  OBVIOUS
<1> QED BY <1>1

LEMMA ModUnique ==
  ASSUME NEW q \in Nat \ {0}, NEW x \in Int, NEW r \in 0..(q - 1), NEW k \in Int, x = r + k * q
  PROVE  x % q = r
  OBVIOUS

LEMMA ModSame ==
  ASSUME NEW q \in Nat \ {0}, NEW x \in Int, NEW y \in Int, NEW k \in Int, x = y + k * q
  PROVE  x % q = y % q
<1>1. PICK l \in Int : y = (y % q) + l * q
  BY ModFacts
<1>2. y % q \in 0..(q - 1) /\ y % q \in Int
  BY ModFacts
<1> DEFINE r == y % q
<1> HIDE DEF r
<1>3. r \in 0..(q - 1) /\ y = r + l * q
  BY <1>1, <1>2 DEF r
<1>4. x = r + (l + k) * q
  BY <1>3
<1>5. l + k \in Int
  OBVIOUS
<1>6. x % q = r
  BY <1>3, <1>4, <1>5, ModUnique
<1> QED BY <1>6 DEF r

(* A product is no smaller than that of smaller factors.                    *)
LEMMA ProductGrows ==
  ASSUME NEW a \in Nat, NEW b \in Nat, NEW c \in Nat, NEW d \in Nat, a <= c, b <= d
  PROVE  a * b <= c * d /\ a * b \in Nat
  OBVIOUS

-----------------------------------------------------------------------------
(* Loops.  What holds at 0 and goes on from each number to the next holds   *)
(* up to the last; a loop has a function that satisfies its recursion.      *)

LEMMA Induct ==
  ASSUME NEW N \in Nat, NEW S, 0 \in S, \A n \in 1..N : n - 1 \in S => n \in S
  PROVE  \A n \in 0..N : n \in S
<1> DEFINE T == {n \in 0..N : n \notin S}
<1> SUFFICES ASSUME T # {} PROVE FALSE
  OBVIOUS
<1>1. PICK m \in T : \A k \in T : m <= k
  <2>1. T \in SUBSET Nat
    OBVIOUS
  <2> HIDE DEF T
  <2> QED BY <2>1, Least
<1>2. m \in 1..N /\ m \notin S
  OBVIOUS
<1>3. m - 1 \in 0..N /\ ~(m <= m - 1)
  BY <1>2
<1>4. m - 1 \in S
  BY <1>1, <1>3
<1> QED BY <1>2, <1>4

(* Poly by its loop.                                                        *)
PolyRun(f, m, x, a) ==
  /\ f \in [0..Len(a) -> Int] /\ f[0] = x
  /\ \A n \in 1..Len(a) : f[n] = f[n - 1] * m + a[n]

LEMMA PolyRuns ==
  ASSUME NEW m \in Int, NEW x \in Int, NEW a \in Seq(Int)
  PROVE  \E f : PolyRun(f, m, x, a) /\ Poly(m, x, a) = f[Len(a)]
<1> DEFINE N == Len(a)
           F(f) == [n \in 0..Len(a) |-> IF n = 0 THEN x ELSE f[n - 1] * m + a[n]]
           u == CHOOSE f : f = F(f)
           step == [p \in Int \X (1..N) |-> p[1] * m + a[p[2]]]
<1>1. N \in Nat /\ \A n \in 1..N : a[n] \in Int
  OBVIOUS
<1>2. \A y \in Int, n \in 1..N : step[<<y, n>>] = y * m + a[n] /\ step[<<y, n>>] \in Int
  BY <1>1
<1> HIDE DEF step
<1>3. PICK f \in [0..N -> Int] : f[0] = x /\ \A n \in 1..N : f[n] = step[<<f[n - 1], n>>]
  <2>1. \A y \in Int, n \in 1..N : step[<<y, n>>] \in Int
    BY <1>2
  <2>2. N \in Nat
    BY <1>1
  <2>3. x \in Int
    OBVIOUS
  <2> HIDE DEF N
  <2>4. \E f : Runs(f, Int, x, step, N)
    BY <2>1, <2>2, <2>3, Recursion
  <2> QED BY <2>4 DEF Runs
<1>4. f = F(f)
  <2>1. ASSUME NEW n \in 0..N PROVE f[n] = IF n = 0 THEN x ELSE f[n - 1] * m + a[n]
    <3>1. n = 0 \/ (n \in 1..N /\ n - 1 \in 0..N)
      BY <1>1
    <3> QED BY <1>2, <1>3, <3>1
  <2> QED BY <1>3, <2>1
<1>5. u = F(u)
  <2> HIDE DEF F
  <2> QED BY <1>4
<1>6. Poly(m, x, a) = u[N]
  BY DEF Poly
<1> HIDE DEF u
<1>7. \A n \in 0..N : u[n] = IF n = 0 THEN x ELSE u[n - 1] * m + a[n]
  BY <1>5
<1>8. u[0] = x /\ \A n \in 1..N : u[n] = u[n - 1] * m + a[n]
  <2>1. \A n \in 1..N : n \in 0..N /\ n # 0
    BY <1>1
  <2> QED BY <1>1, <1>7, <2>1
<1>9. \A n \in 0..N : u[n] \in Int
  <2> DEFINE S == {n \in 0..N : u[n] \in Int}
  <2>1. 0 \in S
    BY <1>1, <1>8
  <2>2. ASSUME NEW n \in 1..N, n - 1 \in S PROVE n \in S
    <3>1. u[n - 1] \in Int /\ a[n] \in Int /\ n \in 0..N
      BY <1>1, <2>2
    <3>2. u[n - 1] * m + a[n] \in Int
      BY <3>1
    <3> QED BY <1>8, <3>1, <3>2
  <2> HIDE DEF S
  <2>3. \A n \in 0..N : n \in S
    BY <1>1, <2>1, <2>2, Induct
  <2> QED BY <2>3 DEF S
<1>10. u \in [0..N -> Int]
  BY <1>5, <1>9
<1> QED BY <1>6, <1>8, <1>10 DEF PolyRun

(* It is the only run, also of a sequence that begins with the same.        *)
LEMMA PolyOneRun ==
  ASSUME NEW m \in Int, NEW x \in Int, NEW a \in Seq(Int), NEW b \in Seq(Int), NEW f, NEW g,
         PolyRun(f, m, x, a), PolyRun(g, m, x, b), Len(a) <= Len(b),
         \A n \in 1..Len(a) : a[n] = b[n]
  PROVE  \A n \in 0..Len(a) : f[n] = g[n]
<1> DEFINE S == {n \in 0..Len(a) : f[n] = g[n]}
<1>1. 0 \in S
  BY DEF PolyRun
<1>2. ASSUME NEW n \in 1..Len(a), n - 1 \in S PROVE n \in S
  <2>1. n \in 1..Len(b) /\ f[n - 1] = g[n - 1]
    BY <1>2
  <2>2. f[n] = f[n - 1] * m + a[n] /\ g[n] = g[n - 1] * m + b[n]
    BY <2>1 DEF PolyRun
  <2> QED BY <2>1, <2>2
<1>3. Len(a) \in Nat
  OBVIOUS
<1> HIDE DEF S
<1>4. \A n \in 0..Len(a) : n \in S
  BY <1>1, <1>2, <1>3, Induct
<1> QED BY <1>4 DEF S

LEMMA PolyInt ==
  ASSUME NEW m \in Int, NEW x \in Int, NEW a \in Seq(Int)
  PROVE  Poly(m, x, a) \in Int
<1>1. PICK f : PolyRun(f, m, x, a) /\ Poly(m, x, a) = f[Len(a)]
  BY PolyRuns
<1>2. Len(a) \in 0..Len(a)
  OBVIOUS
<1> QED BY <1>1, <1>2 DEF PolyRun

LEMMA PolyEmpty ==
  ASSUME NEW m \in Int, NEW x \in Int
  PROVE  Poly(m, x, <<>>) = x
<1>1. <<>> \in Seq(Int) /\ Len(<<>>) = 0
  OBVIOUS
<1>2. PICK f : PolyRun(f, m, x, <<>>) /\ Poly(m, x, <<>>) = f[Len(<<>>)]
  BY <1>1, PolyRuns
<1> QED BY <1>1, <1>2 DEF PolyRun

(* One coefficient more.                                                    *)
LEMMA PolyAppend ==
  ASSUME NEW m \in Int, NEW x \in Int, NEW a \in Seq(Int), NEW c \in Int
  PROVE  Poly(m, x, Append(a, c)) = Poly(m, x, a) * m + c
<1> DEFINE b == Append(a, c)
<1>1. b \in Seq(Int) /\ Len(b) = Len(a) + 1 /\ b[Len(b)] = c /\ \A n \in 1..Len(a) : b[n] = a[n]
  OBVIOUS
<1> HIDE DEF b
<1>2. PICK f : PolyRun(f, m, x, a) /\ Poly(m, x, a) = f[Len(a)]
  BY PolyRuns
<1>3. PICK g : PolyRun(g, m, x, b) /\ Poly(m, x, b) = g[Len(b)]
  BY <1>1, PolyRuns
<1>4. Len(a) \in 0..Len(a) /\ Len(b) \in 1..Len(b) /\ Len(b) - 1 = Len(a) /\ Len(a) <= Len(b)
  BY <1>1
<1>5. f[Len(a)] = g[Len(a)]
  BY <1>1, <1>2, <1>3, <1>4, PolyOneRun
<1>6. g[Len(b)] = g[Len(b) - 1] * m + b[Len(b)]
  BY <1>3, <1>4 DEF PolyRun
<1> QED BY <1>1, <1>2, <1>3, <1>4, <1>5, <1>6 DEF b

(* A window one further on: the polynomial is multiplied by m, gets the new *)
(* coefficient and loses the first, times m to the length of the window.    *)
LEMMA PolyRoll ==
  ASSUME NEW m \in Int, NEW a \in Seq(Int), NEW b \in Seq(Int), NEW z \in Seq(Int),
         Len(a) >= 1, Len(b) = Len(a), Len(z) = Len(a),
         \A n \in 1..Len(a) : z[n] = 0,
         \A n \in 1..(Len(a) - 1) : b[n] = a[n + 1]
  PROVE  Poly(m, 0, b) = Poly(m, 0, a) * m + b[Len(b)] - a[1] * Poly(m, 1, z)
<1> DEFINE N == Len(a)
<1>1. N \in Nat \ {0} /\ 1 \in 1..N /\ N \in 1..N /\ N \in 0..N /\ N - 1 \in 0..N
      /\ N - 1 \in 0..(N - 1) /\ N - 1 \in Nat /\ (N - 1) + 1 = N
  OBVIOUS
<1>0. 0 \in Int /\ 1 \in Int
  OBVIOUS
<1>2. PICK f : PolyRun(f, m, 0, a) /\ Poly(m, 0, a) = f[N]
  BY <1>0, PolyRuns
<1>3. PICK g : PolyRun(g, m, 0, b) /\ Poly(m, 0, b) = g[Len(b)]
  BY <1>0, PolyRuns
<1>4. PICK h : PolyRun(h, m, 1, z) /\ Poly(m, 1, z) = h[Len(z)]
  BY <1>0, PolyRuns
<1>5. \A n \in 1..N : a[n] \in Int /\ b[n] \in Int
  OBVIOUS
<1> HIDE DEF N
<1>6. f \in [0..N -> Int] /\ f[0] = 0 /\ \A n \in 1..N : f[n] = f[n - 1] * m + a[n]
  BY <1>2 DEF PolyRun, N
<1>7. g \in [0..N -> Int] /\ g[0] = 0 /\ \A n \in 1..N : g[n] = g[n - 1] * m + b[n]
  BY <1>3 DEF PolyRun, N
<1>8. h \in [0..N -> Int] /\ h[0] = 1 /\ \A n \in 1..N : h[n] = h[n - 1] * m
  <2>1. h \in [0..N -> Int] /\ h[0] = 1 /\ \A n \in 1..N : h[n] = h[n - 1] * m + z[n]
    BY <1>4 DEF PolyRun, N
  <2>2. ASSUME NEW n \in 1..N PROVE h[n] = h[n - 1] * m
    <3>1. z[n] = 0 /\ h[n - 1] \in Int
      <4>1. n - 1 \in 0..N
        BY <1>1
      <4> QED BY <2>1, <4>1 DEF N
    <3>2. h[n - 1] * m + 0 = h[n - 1] * m
      BY <3>1
    <3> QED BY <2>1, <3>1, <3>2
  <2> QED BY <2>1, <2>2
<1>9. \A n \in 0..(N - 1) : g[n] = f[n + 1] - a[1] * h[n]
  <2> DEFINE S == {n \in 0..(N - 1) : g[n] = f[n + 1] - a[1] * h[n]}
  <2>1. 0 \in S
    <3>1. f[1] = f[1 - 1] * m + a[1] /\ 1 - 1 = 0 /\ 0 * m = 0
      BY <1>1, <1>6
    <3> DEFINE aa == a[1]
    <3>2. aa \in Int /\ h[0] = 1 /\ f[1] = 0 + aa
      BY <1>1, <1>5, <1>6, <1>8, <3>1
    <3>3. 0 \in 0..(N - 1) /\ 0 + 1 = 1 /\ g[0] = 0
      BY <1>1, <1>7
    <3> HIDE DEF aa
    <3>4. 0 + aa - aa * 1 = 0
      BY <3>2
    <3>5. g[0] = f[0 + 1] - aa * h[0]
      BY <3>2, <3>3, <3>4
    <3> QED BY <3>3, <3>5 DEF aa
  <2>2. ASSUME NEW n \in 1..(N - 1), n - 1 \in S PROVE n \in S
    <3>1. n \in 1..N /\ n + 1 \in 1..N /\ n - 1 \in 0..N /\ n \in 0..(N - 1) /\ n \in 0..N
          /\ (n - 1) + 1 = n /\ (n + 1) - 1 = n
      BY <1>1
    <3>2. g[n - 1] = f[n] - a[1] * h[n - 1]
      BY <2>2, <3>1
    <3>3. g[n] = g[n - 1] * m + b[n] /\ h[n] = h[n - 1] * m /\ f[n + 1] = f[n] * m + a[n + 1]
      BY <1>6, <1>7, <1>8, <3>1
    <3>4. b[n] = a[n + 1] /\ a[n + 1] \in Int /\ a[1] \in Int /\ f[n] \in Int /\ h[n - 1] \in Int
      BY <1>1, <1>5, <1>6, <1>8, <3>1 DEF N
    <3>5. (f[n] - a[1] * h[n - 1]) * m + a[n + 1]
            = (f[n] * m + a[n + 1]) - a[1] * (h[n - 1] * m)
      <4> DEFINE ff == f[n]
                 aa == a[1]
                 hh == h[n - 1]
                 bb == a[n + 1]
      <4>1. ff \in Int /\ aa \in Int /\ hh \in Int /\ bb \in Int
        BY <3>4
      <4> HIDE DEF ff, aa, hh, bb
      <4>2. (ff - aa * hh) * m + bb = (ff * m + bb) - aa * (hh * m)
        BY <4>1
      <4> QED BY <4>2 DEF ff, aa, hh, bb
    <3> QED BY <3>1, <3>2, <3>3, <3>4, <3>5
  <2> HIDE DEF S
  <2>3. \A n \in 0..(N - 1) : n \in S
    BY <1>1, <2>1, <2>2, Induct
  <2> QED BY <2>3 DEF S
<1>10. g[N - 1] = f[N] - a[1] * h[N - 1]
  BY <1>1, <1>9
<1>11. g[N] = g[N - 1] * m + b[N] /\ h[N] = h[N - 1] * m
  BY <1>1, <1>7, <1>8
<1>12. a[1] \in Int /\ b[N] \in Int /\ f[N] \in Int /\ h[N - 1] \in Int
  BY <1>1, <1>5, <1>6, <1>8
<1>13. (f[N] - a[1] * h[N - 1]) * m + b[N] = (f[N] * m + b[N]) - a[1] * (h[N - 1] * m)
  <2> DEFINE ff == f[N]
             aa == a[1]
             hh == h[N - 1]
             bb == b[N]
  <2>1. ff \in Int /\ aa \in Int /\ hh \in Int /\ bb \in Int
    BY <1>12
  <2> HIDE DEF ff, aa, hh, bb
  <2>2. (ff - aa * hh) * m + bb = (ff * m + bb) - aa * (hh * m)
    BY <2>1
  <2> QED BY <2>2 DEF ff, aa, hh, bb
<1>14. Poly(m, 0, a) = f[N] /\ Poly(m, 0, b) = g[N] /\ Poly(m, 1, z) = h[N] /\ Len(b) = N
  BY <1>2, <1>3, <1>4 DEF N
<1>15. g[N] = (f[N] * m + b[N]) - a[1] * h[N]
  BY <1>10, <1>11, <1>13
<1>16. b[Len(b)] = b[N] /\ f[N] \in Int /\ h[N] \in Int /\ a[1] \in Int /\ b[N] \in Int
  BY <1>1, <1>5, <1>6, <1>8, <1>14
<1> DEFINE pa == Poly(m, 0, a)
           pb == Poly(m, 0, b)
           pz == Poly(m, 1, z)
           c == b[Len(b)]
           d == a[1]
<1>17. pa \in Int /\ pz \in Int /\ c \in Int /\ d \in Int /\ pb = (pa * m + c) - d * pz
  BY <1>14, <1>15, <1>16
<1> HIDE DEF pa, pb, pz, c, d
<1>18. pb = pa * m + c - d * pz
  BY <1>17
<1> QED BY <1>18 DEF pa, pb, pz, c, d

(* What the loop starts with is a factor of what it makes of zeros.         *)
LEMMA PolyScaled ==
  ASSUME NEW m \in Int, NEW c \in Int, NEW z \in Seq(Int), \A n \in 1..Len(z) : z[n] = 0
  PROVE  Poly(m, c, z) = c * Poly(m, 1, z)
<1> DEFINE N == Len(z)
<1>1. N \in Nat /\ N \in 0..N
  OBVIOUS
<1>2. PICK f : PolyRun(f, m, c, z) /\ Poly(m, c, z) = f[N]
  BY PolyRuns
<1>3. PICK h : PolyRun(h, m, 1, z) /\ Poly(m, 1, z) = h[N]
  BY PolyRuns
<1> HIDE DEF N
<1>4. f \in [0..N -> Int] /\ f[0] = c /\ \A n \in 1..N : f[n] = f[n - 1] * m + 0
  BY <1>2 DEF PolyRun, N
<1>5. h \in [0..N -> Int] /\ h[0] = 1 /\ \A n \in 1..N : h[n] = h[n - 1] * m + 0
  BY <1>3 DEF PolyRun, N
<1> DEFINE S == {n \in 0..N : f[n] = c * h[n]}
<1>6. 0 \in S
  BY <1>1, <1>4, <1>5
<1>7. ASSUME NEW n \in 1..N, n - 1 \in S PROVE n \in S
  <2>1. n - 1 \in 0..N /\ n \in 0..N
    BY <1>1
  <2>2. f[n - 1] = c * h[n - 1] /\ h[n - 1] \in Int
    BY <1>5, <1>7, <2>1
  <2>3. (c * h[n - 1]) * m + 0 = c * (h[n - 1] * m + 0)
    BY <2>2
  <2> QED BY <1>4, <1>5, <2>1, <2>2, <2>3
<1> HIDE DEF S
<1>8. \A n \in 0..N : n \in S
  BY <1>1, <1>6, <1>7, Induct
<1>9. f[N] = c * h[N]
  BY <1>1, <1>8 DEF S
<1> QED BY <1>2, <1>3, <1>9

(* As long as no product and sum leaves the words, the loop in unsigned     *)
(* arithmetic computes the remainder of the polynomial.                     *)
LEMMA HornerIsPoly ==
  ASSUME NEW m \in Nat, NEW q \in Nat \ {0}, NEW x \in 0..(q - 1), NEW c \in Nat,
         NEW a \in Seq(0..c), (q - 1) * m + c < WordMod
  PROVE  Horner(m, q, x, a) = Poly(m, x, a) % q /\ Horner(m, q, x, a) \in 0..(q - 1)
<1> DEFINE N == Len(a)
           F(f) == [n \in 0..Len(a) |-> IF n = 0 THEN x
                                        ELSE ((f[n - 1] * m + a[n]) % WordMod) % q]
           u == CHOOSE f : f = F(f)
           step == [p \in (0..(q - 1)) \X (1..N) |-> ((p[1] * m + a[p[2]]) % WordMod) % q]
<1>0. WordMod \in Nat \ {0}
  BY SignaturesAssumption
<1>1. N \in Nat /\ N \in 0..N /\ \A n \in 1..N : a[n] \in 0..c
  OBVIOUS
<1>2. ASSUME NEW y \in 0..(q - 1), NEW n \in 1..N
      PROVE  /\ ((y * m + a[n]) % WordMod) % q = (y * m + a[n]) % q
             /\ (y * m + a[n]) % q \in 0..(q - 1)
  <2>1. y * m <= (q - 1) * m /\ y * m \in Nat
    <3>1. y \in Nat /\ q - 1 \in Nat /\ y <= q - 1 /\ m <= m
      OBVIOUS
    <3> QED BY <3>1, ProductGrows
  <2>2. a[n] \in Nat /\ a[n] <= c
    BY <1>1
  <2>3. (q - 1) * m \in Nat
    OBVIOUS
  <2> DEFINE v == y * m + a[n]
             w == (q - 1) * m
             t == y * m
  <2> HIDE DEF w, t
  <2>4. v \in 0..(WordMod - 1) /\ v \in Int
    BY <1>0, <2>1, <2>2, <2>3 DEF w, t
  <2> HIDE DEF v
  <2>5. v % WordMod = v
    BY <1>0, <2>4, ModUnique
  <2>6. v % q \in 0..(q - 1)
    BY <2>4, ModFacts
  <2> QED BY <2>5, <2>6 DEF v
<1>3. \A y \in 0..(q - 1), n \in 1..N :
        step[<<y, n>>] = ((y * m + a[n]) % WordMod) % q /\ step[<<y, n>>] \in 0..(q - 1)
  BY <1>2
<1> HIDE DEF step
<1>4. PICK f : Runs(f, 0..(q - 1), x, step, N)
  <2>1. \A y \in 0..(q - 1), n \in 1..N : step[<<y, n>>] \in 0..(q - 1)
    BY <1>3
  <2> DEFINE V == 0..(q - 1)
  <2>2. x \in V /\ N \in Nat
    BY <1>1
  <2>3. \A y \in V, n \in 1..N : step[<<y, n>>] \in V
    BY <2>1
  <2> HIDE DEF V, N
  <2>4. \E f : Runs(f, V, x, step, N)
    BY <2>2, <2>3, Recursion
  <2> QED BY <2>4 DEF V
<1>5. f \in [0..N -> 0..(q - 1)] /\ f[0] = x
      /\ \A n \in 1..N : f[n] = ((f[n - 1] * m + a[n]) % WordMod) % q
  <2>1. f \in [0..N -> 0..(q - 1)] /\ f[0] = x /\ \A n \in 1..N : f[n] = step[<<f[n - 1], n>>]
    BY <1>4 DEF Runs
  <2>2. ASSUME NEW n \in 1..N PROVE f[n] = ((f[n - 1] * m + a[n]) % WordMod) % q
    <3>1. n - 1 \in 0..N
      BY <1>1
    <3>2. f[n - 1] \in 0..(q - 1)
      BY <2>1, <3>1
    <3> QED BY <1>3, <2>1, <3>2
  <2> QED BY <2>1, <2>2
<1>6. f = F(f)
  <2>1. ASSUME NEW n \in 0..N
        PROVE f[n] = IF n = 0 THEN x ELSE ((f[n - 1] * m + a[n]) % WordMod) % q
    <3>1. n = 0 \/ n \in 1..N
      BY <1>1
    <3> QED BY <1>5, <3>1
  <2> QED BY <1>5, <2>1
<1>7. u = F(u)
  <2> HIDE DEF F
  <2> QED BY <1>6
<1>8. Horner(m, q, x, a) = u[N]
  BY DEF Horner
<1> HIDE DEF u
<1>9. u[0] = x /\ \A n \in 1..N : u[n] = ((u[n - 1] * m + a[n]) % WordMod) % q
  <2>1. \A n \in 0..N : u[n] = IF n = 0 THEN x ELSE ((u[n - 1] * m + a[n]) % WordMod) % q
    BY <1>7
  <2>2. 0 \in 0..N /\ \A n \in 1..N : n \in 0..N /\ n # 0
    BY <1>1
  <2> QED BY <2>1, <2>2
<1>10. a \in Seq(Int) /\ m \in Int /\ x \in Int /\ q \in Int
  OBVIOUS
<1>11. PICK g : PolyRun(g, m, x, a) /\ Poly(m, x, a) = g[N]
  BY <1>10, PolyRuns
<1>12. g \in [0..N -> Int] /\ g[0] = x /\ \A n \in 1..N : g[n] = g[n - 1] * m + a[n]
  BY <1>11 DEF PolyRun
<1> HIDE DEF N
<1> DEFINE S == {n \in 0..N : u[n] \in 0..(q - 1) /\ u[n] = g[n] % q}
<1>13. 0 \in S
  <2>1. x % q = x
    <3>1. x = x + 0 * q /\ 0 \in Int
      BY <1>10
    <3> QED BY <1>10, <3>1, ModUnique
  <2>2. u[0] = x /\ g[0] = x /\ 0 \in 0..N
    BY <1>1, <1>9, <1>12
  <2> QED BY <2>1, <2>2
<1>14. ASSUME NEW n \in 1..N, n - 1 \in S PROVE n \in S
  <2>1. n - 1 \in 0..N /\ n \in 0..N
    BY <1>1
  <2>2. u[n - 1] \in 0..(q - 1) /\ u[n - 1] = g[n - 1] % q /\ g[n - 1] \in Int
    BY <1>12, <1>14, <2>1
  <2> DEFINE y == u[n - 1]
  <2>3. u[n] = (u[n - 1] * m + a[n]) % q /\ u[n] \in 0..(q - 1)
    <3>1. y \in 0..(q - 1) /\ u[n] = ((y * m + a[n]) % WordMod) % q
      BY <1>9, <2>2
    <3> HIDE DEF y
    <3>2. ((y * m + a[n]) % WordMod) % q = (y * m + a[n]) % q /\ (y * m + a[n]) % q \in 0..(q - 1)
      BY <1>2, <3>1
    <3>3. u[n] = (y * m + a[n]) % q /\ u[n] \in 0..(q - 1)
      BY <3>1, <3>2
    <3> QED BY <3>3 DEF y
  <2>4. PICK k \in Int : g[n - 1] = u[n - 1] + k * q
    BY <2>2, ModFacts
  <2>5. a[n] \in Int /\ u[n - 1] \in Int
    BY <1>1, <2>2
  <2> DEFINE v == u[n - 1] * m + a[n]
  <2>6. g[n] = v + (k * m) * q /\ k * m \in Int /\ v \in Int
    <3>1. /\ (u[n - 1] + k * q) * m + a[n] = (u[n - 1] * m + a[n]) + (k * m) * q
          /\ k * m \in Int /\ u[n - 1] * m + a[n] \in Int
      <4> DEFINE c1 == a[n]
      <4>1. y \in Int /\ c1 \in Int
        BY <2>5
      <4> HIDE DEF y, c1
      <4>2. /\ (y + k * q) * m + c1 = (y * m + c1) + (k * m) * q
            /\ k * m \in Int /\ y * m + c1 \in Int
        BY <1>10, <4>1
      <4> QED BY <4>2 DEF y, c1
    <3> QED BY <1>12, <2>4, <3>1
  <2>7. g[n] \in Int
    BY <1>12, <2>1
  <2>8. g[n] % q = (u[n - 1] * m + a[n]) % q
    <3> DEFINE l == k * m
    <3> HIDE DEF v, l
    <3>1. g[n] = v + l * q /\ l \in Int /\ v \in Int
      BY <2>6 DEF l
    <3>2. g[n] % q = v % q
      BY <2>7, <3>1, ModSame
    <3> QED BY <3>2 DEF v
  <2> QED BY <2>1, <2>3, <2>8
<1> HIDE DEF S
<1>15. \A n \in 0..N : n \in S
  BY <1>1, <1>13, <1>14, Induct
<1>16. u[N] \in 0..(q - 1) /\ u[N] = g[N] % q
  BY <1>1, <1>15 DEF S
<1> QED BY <1>8, <1>11, <1>16

-----------------------------------------------------------------------------
(* Hash functions and chars.                                                *)

Zeros(n) == [j \in 1..n |-> 0]

LEMMA ZerosFacts ==
  ASSUME NEW n \in Nat
  PROVE  /\ Zeros(n) \in Seq(Int) /\ Zeros(n) \in Seq(0..0) /\ Len(Zeros(n)) = n
         /\ \A j \in 1..Len(Zeros(n)) : Zeros(n)[j] = 0
  BY DEF Zeros

(* Products with a hash value fit in a word.                                *)
LEMMA WordFacts ==
  ASSUME NEW h \in Hashes
  PROVE  /\ P(h) \in Nat /\ Q \in Nat \ {0} /\ WordMod \in Nat \ {0} /\ CharMod \in Nat \ {0}
         /\ (Q - 1) * P(h) + (CharMod - 1) < WordMod
         /\ (Q - 1) * P(h) + ((CharMod - 1) \div 2) * Q < WordMod
         /\ (Q - 1) * P(h) \in Nat
<1> DEFINE t == P0 + NumHash - 1
           v == ((CharMod - 1) \div 2) * Q
<1>1. Q \in Nat \ {0} /\ WordMod \in Nat \ {0} /\ CharMod \in Nat \ {0} /\ P0 \in Nat /\ NumHash \in Nat \ {0}
  BY SignaturesAssumption
<1>2. P(h) \in Nat /\ t \in Nat /\ P(h) <= t /\ Q - 1 \in Nat /\ Q - 1 <= Q - 1
  BY <1>1 DEF P, Hashes
<1>3. (Q - 1) * P(h) <= (Q - 1) * t /\ (Q - 1) * P(h) \in Nat /\ (Q - 1) * t \in Nat
  <2> HIDE DEF t
  <2> QED BY <1>2, ProductGrows
<1>4. (Q - 1) * t + CharMod - 1 < WordMod /\ (Q - 1) * t + v < WordMod
  BY SignaturesAssumption
<1>5. v \in Int
  <2>1. (CharMod - 1) \div 2 \in Int
    BY <1>1
  <2> QED BY <1>1, <2>1
<1> DEFINE x == (Q - 1) * P(h)
           y == (Q - 1) * t
<1> HIDE DEF t, v, x, y
<1>6. x \in Nat /\ y \in Nat /\ x <= y /\ y + CharMod - 1 < WordMod /\ y + v < WordMod
  BY <1>3, <1>4 DEF x, y
<1>7. x + (CharMod - 1) < WordMod /\ x + v < WordMod
  BY <1>1, <1>5, <1>6
<1> QED BY <1>1, <1>2, <1>6, <1>7 DEF x, v

(* r is minus the power, modulo q.                                          *)
LEMMA RFacts ==
  ASSUME NEW h \in Hashes
  PROVE  /\ R(h) \in 0..(Q - 1)
         /\ Poly(P(h), 1, Zeros(Shingle)) \in Int
         /\ \E k \in Int : R(h) = k * Q - Poly(P(h), 1, Zeros(Shingle))
<1> DEFINE z == Zeros(Shingle)
           w == Poly(P(h), 1, z)
           v == Poly(P(h), Q - 1, z)
<1>1. P(h) \in Nat /\ P(h) \in Int /\ Q \in Nat \ {0} /\ Q - 1 \in 0..(Q - 1) /\ Q - 1 \in Int
      /\ (Q - 1) * P(h) + 0 < WordMod
  <2>1. P(h) \in Nat /\ Q \in Nat \ {0} /\ CharMod \in Nat \ {0} /\ (Q - 1) * P(h) \in Nat
        /\ WordMod \in Nat /\ (Q - 1) * P(h) + (CharMod - 1) < WordMod
    BY WordFacts
  <2> DEFINE x == (Q - 1) * P(h)
  <2> HIDE DEF x
  <2>2. x + 0 < WordMod
    BY <2>1 DEF x
  <2> QED BY <2>1, <2>2 DEF x
<1>2. Shingle \in Nat
  BY SignaturesAssumption
<1>3. z \in Seq(Int) /\ z \in Seq(0..0) /\ \A j \in 1..Len(z) : z[j] = 0
  BY <1>2, ZerosFacts
<1> HIDE DEF z
<1>4. R(h) = Horner(P(h), Q, Q - 1, z)
  BY DEF R, z, Zeros
<1>5. R(h) = v % Q /\ R(h) \in 0..(Q - 1)
  <2>1. 0 \in Nat
    OBVIOUS
  <2> QED BY <1>1, <1>3, <1>4, <2>1, HornerIsPoly
<1>6. v = (Q - 1) * w
  BY <1>1, <1>3, PolyScaled
<1>7. w \in Int /\ v \in Int
  <2>1. 1 \in Int
    OBVIOUS
  <2> QED BY <1>1, <1>3, <2>1, PolyInt
<1> HIDE DEF w, v
<1>8. PICK k \in Int : v = R(h) + k * Q
  BY <1>1, <1>5, <1>7, ModFacts
<1>9. R(h) = (w - k) * Q - w /\ w - k \in Int
  <2>1. R(h) \in Int
    BY <1>1, <1>5
  <2> QED BY <1>1, <1>6, <1>7, <1>8, <2>1
<1> QED BY <1>5, <1>7, <1>9 DEF w, z

(* A char of a line, signed and as an unsigned number.                      *)
LEMMA TextFacts ==
  ASSUME input \in Lines, NEW k \in Nat, k < Len(input.buf)
  PROVE  /\ Signed(Text(k)) \in Int /\ AsUnsigned(Text(k)) \in Nat
         /\ Signed(Text(k)) <= (CharMod - 1) \div 2
         /\ \E j \in Int : AsUnsigned(Text(k)) = Signed(Text(k)) + j * WordMod
<1>1. input.buf \in Seq(Chars)
  BY InputsAssumption
<1>2. CharMod \in Nat \ {0} /\ WordMod \in Nat \ {0}
  BY SignaturesAssumption
<1> DEFINE c == Text(k)
           g == Signed(c)
<1>3. c \in 0..(CharMod - 1)
  <2>1. k + 1 \in 1..Len(input.buf)
    BY <1>1
  <2>2. Text(k) \in Chars
    BY <1>1, <2>1 DEF Text
  <2> QED BY <2>2 DEF Chars
<1> HIDE DEF c
<1>4. g \in Int /\ g <= (CharMod - 1) \div 2
  BY <1>2, <1>3 DEF Signed
<1> HIDE DEF g
<1>5. g % WordMod \in 0..(WordMod - 1) /\ \E j \in Int : g = (g % WordMod) + j * WordMod
  BY <1>2, <1>4, ModFacts
<1>6. PICK j \in Int : g = (g % WordMod) + j * WordMod
  BY <1>5
<1>7. g % WordMod = g + (-j) * WordMod /\ -j \in Int
  <2> DEFINE r == g % WordMod
  <2>1. r \in Int
    BY <1>2, <1>5
  <2> HIDE DEF r
  <2>2. g = r + j * WordMod
    BY <1>6 DEF r
  <2>3. r = g + (-j) * WordMod /\ -j \in Int
    BY <1>2, <1>4, <2>1, <2>2
  <2> QED BY <2>3 DEF r
<1> QED BY <1>4, <1>5, <1>7 DEF AsUnsigned, g, c

-----------------------------------------------------------------------------
(* One line and one hash function.                                          *)

(* The signed chars of the line, n of them from the one at from.            *)
Letters(from, n) == [j \in 1..n |-> Signed(Text(from + j - 1))]

LEMMA LettersFacts ==
  ASSUME input \in Lines, NEW from \in Nat, NEW n \in Nat, from + n <= Len(input.buf)
  PROVE  /\ Letters(from, n) \in Seq(Int) /\ Len(Letters(from, n)) = n
         /\ \A j \in 1..n : Letters(from, n)[j] = Signed(Text(from + j - 1))
<1>1. input.buf \in Seq(Chars) /\ Len(input.buf) \in Nat
  BY InputsAssumption
<1>2. ASSUME NEW j \in 1..n PROVE Signed(Text(from + j - 1)) \in Int
  <2>1. from + j - 1 \in Nat /\ from + j - 1 < Len(input.buf)
    BY <1>1
  <2> DEFINE k == from + j - 1
  <2> HIDE DEF k
  <2>2. Signed(Text(k)) \in Int
    BY <2>1, TextFacts DEF k
  <2> QED BY <2>2 DEF k
<1>3. \A j \in 1..n : Letters(from, n)[j] = Signed(Text(from + j - 1))
  BY DEF Letters
<1>4. Letters(from, n) \in [1..n -> Int]
  BY <1>2 DEF Letters
<1>5. Letters(from, n) \in Seq(Int) /\ Len(Letters(from, n)) = n
  <2> DEFINE l == Letters(from, n)
  <2>1. l \in [1..n -> Int]
    BY <1>4
  <2> HIDE DEF l
  <2>2. l \in Seq(Int)
    BY <2>1, SeqDef
  <2>3. Len(l) = n
    BY <2>1, <2>2, LenProperties
  <2> QED BY <2>2, <2>3 DEF l
<1> QED BY <1>3, <1>5

LEMMA LettersMore ==
  ASSUME input \in Lines, NEW from \in Nat, NEW n \in Nat, from + n < Len(input.buf)
  PROVE  Letters(from, n + 1) = Append(Letters(from, n), Signed(Text(from + n)))
<1> DEFINE a == Letters(from, n)
           b == Letters(from, n + 1)
           c == Signed(Text(from + n))
<1>1. Len(input.buf) \in Nat
  BY InputsAssumption
<1>2. a \in Seq(Int) /\ Len(a) = n /\ \A j \in 1..n : a[j] = Signed(Text(from + j - 1))
  BY <1>1, LettersFacts
<1>3. b \in Seq(Int) /\ Len(b) = n + 1 /\ \A j \in 1..(n + 1) : b[j] = Signed(Text(from + j - 1))
  <2>1. n + 1 \in Nat /\ from + (n + 1) <= Len(input.buf)
    BY <1>1
  <2> QED BY <2>1, LettersFacts
<1>4. b[n + 1] = c
  <2>1. n + 1 \in 1..(n + 1) /\ from + (n + 1) - 1 = from + n
    OBVIOUS
  <2> QED BY <1>3, <2>1
<1>5. \A j \in 1..n : b[j] = a[j]
  BY <1>2, <1>3
<1>6. c \in Int
  <2>1. from + n \in Nat
    OBVIOUS
  <2> QED BY <2>1, TextFacts
<1> HIDE DEF a, b, c
<1>7. /\ Append(a, c) \in Seq(Int) /\ Len(Append(a, c)) = n + 1
      /\ Append(a, c)[n + 1] = c /\ \A j \in 1..n : Append(a, c)[j] = a[j]
  BY <1>2, <1>6
<1>8. \A j \in 1..(n + 1) : b[j] = Append(a, c)[j]
  <2>1. \A j \in 1..(n + 1) : j = n + 1 \/ j \in 1..n
    OBVIOUS
  <2> QED BY <1>4, <1>5, <1>7, <2>1
<1>9. b = Append(a, c)
  BY <1>3, <1>7, <1>8, SeqEqual
<1> QED BY <1>9 DEF a, b, c

LEMMA WindowLetters ==
  ASSUME NEW last \in Int
  PROVE  Window(last) = Letters(last - Shingle + 1, Shingle)
<1>1. Shingle \in Nat
  BY SignaturesAssumption
<1>2. \A j \in 1..Shingle : last - Shingle + j = last - Shingle + 1 + j - 1
  BY <1>1
<1> QED BY <1>2 DEF Window, Letters

(* What unsigned arithmetic makes of a value that is a word is that value.  *)
LEMMA WordExact ==
  ASSUME NEW x \in Int, NEW v \in Words, NEW k \in Int, x = v + k * WordMod
  PROVE  (x % WordMod) % Q = v % Q
<1>1. WordMod \in Nat \ {0}
  BY SignaturesAssumption
<1>2. v \in 0..(WordMod - 1)
  BY DEF Words
<1>3. x % WordMod = v
  BY <1>1, <1>2, ModUnique
<1> QED BY <1>3

(* A char more in the first window.                                         *)
LEMMA FirstWindowExact ==
  ASSUME input \in Lines, NEW n \in Nat, TextAt + n < Len(input.buf), NEW s \in 0..(Q - 1),
         s = Poly(P(input.hash), 0, Letters(TextAt, n)) % Q,
         InRange(s, Signed(Text(TextAt + n)))
  PROVE  (Absorbed(s, TextAt + n) % WordMod) % Q
           = Poly(P(input.hash), 0, Letters(TextAt, n + 1)) % Q
<1> DEFINE m == P(input.hash)
           c == Signed(Text(TextAt + n))
           d == AsUnsigned(Text(TextAt + n))
           a == Letters(TextAt, n)
           y == Poly(m, 0, a)
           z == Poly(m, 0, Letters(TextAt, n + 1))
           v == s * m + c
<1>1. TextAt \in Nat /\ TextAt + n \in Nat /\ Len(input.buf) \in Nat /\ input.hash \in Hashes
  BY SignaturesAssumption, InputsAssumption
<1>2. m \in Nat /\ Q \in Nat \ {0} /\ WordMod \in Nat \ {0}
  BY <1>1, WordFacts
<1>3. c \in Int /\ d \in Nat /\ \E k \in Int : d = c + k * WordMod
  BY <1>1, TextFacts
<1>4. a \in Seq(Int)
  BY <1>1, LettersFacts
<1>5. y \in Int /\ z = y * m + c
  <2>1. Letters(TextAt, n + 1) = Append(a, c)
    BY <1>1, LettersMore
  <2>2. m \in Int /\ 0 \in Int
    BY <1>2
  <2>3. c \in Int
    BY <1>3
  <2> HIDE DEF m, a, c
  <2>4. y \in Int
    BY <1>4, <2>2, PolyInt
  <2>5. Poly(m, 0, Append(a, c)) = Poly(m, 0, a) * m + c
    BY <1>4, <2>2, <2>3, PolyAppend
  <2>6. z = Poly(m, 0, Append(a, c))
    BY <2>1 DEF a, c
  <2> QED BY <2>4, <2>5, <2>6
<1>6. v \in Words
  BY DEF InRange
<1>7. s = y % Q
  OBVIOUS
<1>8. Absorbed(s, TextAt + n) = s * m + d
  BY DEF Absorbed
<1> HIDE DEF m, c, d, a, y, z
<1>9. PICK k \in Int : d = c + k * WordMod
  BY <1>3
<1>10. s \in Int
  BY <1>2
<1>11. s * m + d = v + k * WordMod /\ s * m + d \in Int /\ v \in Int
  <2>1. m \in Int /\ c \in Int /\ d \in Int /\ s \in Int /\ WordMod \in Int
    BY <1>2, <1>3, <1>10
  <2>2. s * m + (c + k * WordMod) = (s * m + c) + k * WordMod /\ s * m + c \in Int
        /\ s * m + (c + k * WordMod) \in Int
    BY <2>1
  <2> QED BY <1>9, <2>2
<1>12. ((s * m + d) % WordMod) % Q = v % Q
  <2> DEFINE x == s * m + d
  <2> HIDE DEF v, x
  <2>1. x \in Int /\ x = v + k * WordMod
    BY <1>11 DEF x
  <2> QED BY <1>6, <2>1, WordExact DEF x
<1>13. PICK l \in Int : y = s + l * Q
  BY <1>2, <1>5, <1>7, ModFacts
<1>14. z = v + (l * m) * Q /\ l * m \in Int /\ z \in Int
  <2>1. m \in Int /\ c \in Int /\ s \in Int /\ Q \in Int
    BY <1>2, <1>3, <1>10
  <2>2. z = (s + l * Q) * m + c
    BY <1>5, <1>13
  <2>3. (s + l * Q) * m + c = (s * m + c) + (l * m) * Q /\ l * m \in Int /\ (s + l * Q) * m + c \in Int
    BY <2>1
  <2> QED BY <2>2, <2>3
<1>15. z % Q = v % Q
  <2> DEFINE x == l * m
  <2> HIDE DEF v, x
  <2>1. z \in Int /\ v \in Int /\ x \in Int /\ z = v + x * Q
    BY <1>11, <1>14 DEF x
  <2> QED BY <1>2, <2>1, ModSame
<1>16. ((s * m + d) % WordMod) % Q = z % Q
  BY <1>12, <1>15
<1> HIDE DEF v
<1> QED BY <1>8, <1>16 DEF m, z

(* A round of the loop.                                                     *)
LEMMA RollExact ==
  ASSUME input \in Lines, NEW n \in Nat, TextAt + Shingle <= n, n < Len(input.buf),
         NEW s \in 0..(Q - 1), s = Direct(input.hash, n - 1),
         InRange(s, Signed(Text(n - Shingle)) * R(input.hash) + Signed(Text(n)))
  PROVE  ((Absorbed(s, n) + AsUnsigned(Text(n - Shingle)) * R(input.hash)) % WordMod) % Q
           = Direct(input.hash, n)
<1> DEFINE m == P(input.hash)
           r == R(input.hash)
           c == Signed(Text(n))
           d == AsUnsigned(Text(n))
           o == Signed(Text(n - Shingle))
           p == AsUnsigned(Text(n - Shingle))
           a == Window(n - 1)
           b == Window(n)
           y == Poly(m, 0, a)
           z == Poly(m, 0, b)
           w == Poly(m, 1, Zeros(Shingle))
           v == s * m + (o * r + c)
<1>1. /\ TextAt \in Nat /\ Shingle \in Nat \ {0} /\ n - Shingle \in Nat /\ Len(input.buf) \in Nat
      /\ input.hash \in Hashes /\ n - Shingle < Len(input.buf)
  <2>1. TextAt \in Nat /\ Shingle \in Nat \ {0} /\ input.hash \in Hashes /\ Len(input.buf) \in Nat
    BY SignaturesAssumption, InputsAssumption
  <2> QED BY <2>1
<1>2. m \in Nat /\ Q \in Nat \ {0} /\ WordMod \in Nat \ {0}
  BY <1>1, WordFacts
<1>3. c \in Int /\ d \in Nat /\ \E k \in Int : d = c + k * WordMod
  BY TextFacts
<1>4. o \in Int /\ p \in Nat /\ \E k \in Int : p = o + k * WordMod
  BY <1>1, TextFacts
<1>5. r \in 0..(Q - 1) /\ w \in Int /\ \E k \in Int : r = k * Q - w
  BY <1>1, RFacts
<1>6. a \in Seq(Int) /\ Len(a) = Shingle /\ \A j \in 1..Shingle : a[j] = Signed(Text(n - 1 - Shingle + j))
  <2>1. a = Letters(n - Shingle, Shingle)
    <3>1. n - 1 \in Int /\ n - 1 - Shingle + 1 = n - Shingle
      BY <1>1
    <3> QED BY <3>1, WindowLetters
  <2>2. n - Shingle + Shingle <= Len(input.buf) /\ Shingle \in Nat
    BY <1>1
  <2>3. Letters(n - Shingle, Shingle) \in Seq(Int) /\ Len(Letters(n - Shingle, Shingle)) = Shingle
    BY <1>1, <2>2, LettersFacts
  <2> QED BY <2>1, <2>3 DEF Window
<1>7. b \in Seq(Int) /\ Len(b) = Shingle /\ \A j \in 1..Shingle : b[j] = Signed(Text(n - Shingle + j))
  <2>1. b = Letters(n - Shingle + 1, Shingle)
    BY WindowLetters
  <2>2. (n - Shingle + 1) + Shingle <= Len(input.buf) /\ Shingle \in Nat /\ n - Shingle + 1 \in Nat
    BY <1>1
  <2> DEFINE from == n - Shingle + 1
  <2> HIDE DEF from
  <2>3. Letters(from, Shingle) \in Seq(Int) /\ Len(Letters(from, Shingle)) = Shingle
    BY <2>2, LettersFacts DEF from
  <2> QED BY <2>1, <2>3 DEF Window, from
<1>8. b[Len(b)] = c /\ a[1] = o
  <2>1. Shingle \in 1..Shingle /\ 1 \in 1..Shingle /\ n - Shingle + Shingle = n
        /\ n - 1 - Shingle + 1 = n - Shingle
    BY <1>1
  <2> QED BY <1>6, <1>7, <2>1
<1>9. \A j \in 1..(Len(a) - 1) : b[j] = a[j + 1]
  <2>1. \A j \in 1..(Shingle - 1) : j \in 1..Shingle /\ j + 1 \in 1..Shingle
          /\ n - 1 - Shingle + (j + 1) = n - Shingle + j
    BY <1>1
  <2> QED BY <1>6, <1>7, <2>1
<1>10. z = y * m + c - o * w
  <2>1. m \in Int /\ Len(a) >= 1 /\ Len(b) = Len(a)
    BY <1>1, <1>2, <1>6, <1>7
  <2>2. Zeros(Shingle) \in Seq(Int) /\ Len(Zeros(Shingle)) = Len(a)
        /\ \A j \in 1..Len(a) : Zeros(Shingle)[j] = 0
    BY <1>1, <1>6, ZerosFacts
  <2> HIDE DEF m, a, b, c, o
  <2>3. z = y * m + b[Len(b)] - a[1] * w
    BY <1>6, <1>7, <1>9, <2>1, <2>2, PolyRoll
  <2> QED BY <1>8, <2>3
<1>11. v \in Words
  BY DEF InRange
<1>12. s = y % Q /\ Direct(input.hash, n) = z % Q
  BY DEF Direct
<1>13. Absorbed(s, n) = s * m + d
  BY DEF Absorbed
<1>14. y \in Int
  <2>1. m \in Int /\ 0 \in Int
    BY <1>2
  <2> HIDE DEF a
  <2> QED BY <1>6, <2>1, PolyInt
<1> HIDE DEF m, r, c, d, o, p, a, b, y, z, w
<1>15. PICK k1 \in Int : d = c + k1 * WordMod
  BY <1>3
<1>16. PICK k2 \in Int : p = o + k2 * WordMod
  BY <1>4
<1>17. PICK k3 \in Int : r = k3 * Q - w
  BY <1>5
<1>18. PICK k4 \in Int : y = s + k4 * Q
  BY <1>2, <1>12, <1>14, ModFacts
<1>19. s \in Int /\ r \in Int /\ WordMod \in Int /\ Q \in Int /\ m \in Int
  BY <1>2, <1>5
<1>20. /\ s * m + d + p * r = v + (k1 + k2 * r) * WordMod /\ k1 + k2 * r \in Int
       /\ s * m + d + p * r \in Int /\ v \in Int
  <2>1. c \in Int /\ o \in Int /\ s \in Int /\ r \in Int /\ WordMod \in Int /\ m \in Int
    BY <1>3, <1>4, <1>19
  <2>2. s * m + (c + k1 * WordMod) + (o + k2 * WordMod) * r
          = (s * m + (o * r + c)) + (k1 + k2 * r) * WordMod
    BY <2>1
  <2>3. k1 + k2 * r \in Int /\ s * m + (o * r + c) \in Int
        /\ s * m + (c + k1 * WordMod) + (o + k2 * WordMod) * r \in Int
    BY <2>1
  <2> QED BY <1>15, <1>16, <2>2, <2>3
<1>21. ((s * m + d + p * r) % WordMod) % Q = v % Q
  <2> DEFINE x == s * m + d + p * r
             k == k1 + k2 * r
  <2> HIDE DEF v, x, k
  <2>1. x \in Int /\ k \in Int /\ x = v + k * WordMod
    BY <1>20 DEF x, k
  <2> QED BY <1>11, <2>1, WordExact DEF x
<1>22. z = v + (k4 * m - o * k3) * Q /\ k4 * m - o * k3 \in Int /\ z \in Int
  <2>0. c \in Int /\ o \in Int /\ w \in Int /\ s \in Int /\ Q \in Int /\ m \in Int
    BY <1>3, <1>4, <1>5, <1>19
  <2>1. z = (s + k4 * Q) * m + c - o * w
    BY <1>10, <1>18
  <2>2. v = s * m + (o * (k3 * Q - w) + c)
    BY <1>17
  <2>3. (s + k4 * Q) * m + c - o * w
          = (s * m + (o * (k3 * Q - w) + c)) + (k4 * m - o * k3) * Q
    BY <2>0
  <2>4. k4 * m - o * k3 \in Int /\ (s + k4 * Q) * m + c - o * w \in Int
    BY <2>0
  <2> HIDE DEF v
  <2> QED BY <2>1, <2>2, <2>3, <2>4
<1>23. z % Q = v % Q
  <2> DEFINE x == k4 * m - o * k3
  <2> HIDE DEF v, x
  <2>1. z \in Int /\ v \in Int /\ x \in Int /\ z = v + x * Q
    BY <1>20, <1>22 DEF x
  <2> QED BY <1>2, <2>1, ModSame
<1> HIDE DEF v
<1>24. ((s * m + d + p * r) % WordMod) % Q = z % Q
  BY <1>21, <1>23
<1> QED BY <1>12, <1>13, <1>24 DEF p, r

(* Where nothing is negative, nothing wraps around.                         *)
LEMMA FitsFirst ==
  ASSUME input \in Lines, NEW k \in Nat, k < Len(input.buf), NEW s \in 0..(Q - 1),
         ~InRange(s, Signed(Text(k)))
  PROVE  Signed(Text(k)) < 0
<1> DEFINE m == P(input.hash)
           c == Signed(Text(k))
<1>1. input.hash \in Hashes
  BY InputsAssumption
<1>2. m \in Nat /\ Q \in Nat \ {0} /\ WordMod \in Nat \ {0} /\ CharMod \in Nat \ {0}
      /\ (Q - 1) * m + (CharMod - 1) < WordMod /\ (Q - 1) * m \in Nat
  BY <1>1, WordFacts
<1>3. c \in Int /\ c <= (CharMod - 1) \div 2
  BY TextFacts
<1>4. ~(s * m + c \in Words)
  BY DEF InRange
<1> HIDE DEF m, c
<1>5. s * m <= (Q - 1) * m /\ s * m \in Nat
  <2>1. s \in Nat /\ Q - 1 \in Nat /\ s <= Q - 1 /\ m <= m
    BY <1>2
  <2> QED BY <1>2, <2>1, ProductGrows
<1> DEFINE x == s * m
           y == (Q - 1) * m
<1> HIDE DEF x, y
<1>6. x \in Nat /\ y \in Nat /\ x <= y /\ y + (CharMod - 1) < WordMod /\ ~(x + c \in Words)
  BY <1>2, <1>4, <1>5 DEF x, y
<1>7. (CharMod - 1) \div 2 <= CharMod - 1
  BY <1>2
<1>8. ~(c >= 0)
  BY <1>2, <1>3, <1>6, <1>7 DEF Words
<1>9. c < 0
  BY <1>3, <1>8
<1> QED BY <1>9 DEF c

LEMMA FitsRolling ==
  ASSUME input \in Lines, NEW k \in Nat, k < Len(input.buf), NEW j \in Nat, j < Len(input.buf),
         NEW s \in 0..(Q - 1),
         ~InRange(s, Signed(Text(j)) * R(input.hash) + Signed(Text(k)))
  PROVE  Signed(Text(j)) < 0 \/ Signed(Text(k)) < 0
<1> DEFINE m == P(input.hash)
           r == R(input.hash)
           c == Signed(Text(k))
           o == Signed(Text(j))
           g == (CharMod - 1) \div 2
<1>1. input.hash \in Hashes
  BY InputsAssumption
<1>2. m \in Nat /\ Q \in Nat \ {0} /\ WordMod \in Nat \ {0} /\ CharMod \in Nat \ {0}
      /\ (Q - 1) * m + g * Q < WordMod /\ (Q - 1) * m \in Nat
  BY <1>1, WordFacts
<1>3. c \in Int /\ c <= g /\ o \in Int /\ o <= g /\ r \in 0..(Q - 1) /\ g \in Nat
  <2>1. g \in Nat
    BY <1>2
  <2> QED BY <1>1, <2>1, TextFacts, RFacts
<1>4. ~(s * m + (o * r + c) \in Words)
  BY DEF InRange
<1> SUFFICES ASSUME ~(o < 0), ~(c < 0) PROVE FALSE
  BY DEF o, c
<1> HIDE DEF m, r, c, o, g
<1>5. s * m <= (Q - 1) * m /\ s * m \in Nat
  <2>1. s \in Nat /\ Q - 1 \in Nat /\ s <= Q - 1 /\ m <= m
    BY <1>2
  <2> QED BY <1>2, <2>1, ProductGrows
<1>6. o * r <= g * (Q - 1) /\ o * r \in Nat
  <2>1. o \in Nat /\ r \in Nat /\ g \in Nat /\ Q - 1 \in Nat /\ o <= g /\ r <= Q - 1
    BY <1>2, <1>3
  <2> QED BY <2>1, ProductGrows
<1>7. g * (Q - 1) + g = g * Q /\ g * (Q - 1) \in Int /\ g * Q \in Int
  BY <1>2, <1>3
<1> DEFINE x == s * m
           y == (Q - 1) * m
           u == o * r
           v == g * (Q - 1)
           w == g * Q
<1> HIDE DEF x, y, u, v, w
<1>8. /\ x \in Nat /\ y \in Nat /\ x <= y /\ u \in Nat /\ v \in Int /\ w \in Int /\ u <= v
      /\ v + g = w /\ y + w < WordMod /\ ~(x + (u + c) \in Words)
  BY <1>2, <1>4, <1>5, <1>6, <1>7 DEF x, y, u, v, w
<1>9. x + (u + c) <= y + w /\ x + (u + c) >= 0 /\ x + (u + c) \in Int
  BY <1>3, <1>8
<1> QED BY <1>2, <1>8, <1>9 DEF Words

(* The least element of a set of numbers.                                   *)
LEMMA MinIs ==
  ASSUME NEW S \in SUBSET Int, NEW x \in S, \A y \in S : x <= y
  PROVE  Min(S) = x
<1>1. ASSUME NEW z \in S, \A y \in S : z <= y PROVE z = x
  BY <1>1
<1> QED BY <1>1 DEF Min

MpiPoints == {"start", "skipped", "first", "roll", "hashed"}
FedPoints == {"hash", "bucket", "encrypt", "sent", "decrypted", "threw", "garbled"}

(* The invariant of the MPI side: in the first window the sum is the hash of *)
(* what has been read, unless something wrapped around, in which case some  *)
(* char was negative; in the loop, HashExact, with the least hash attained. *)
Sums(from, to) == {Direct(input.hash, k) : k \in from..to}

InFirst ==
  /\ i \in TextAt..(TextAt + Shingle) /\ sum \in 0..(Q - 1) /\ wrapped \in BOOLEAN
  /\ ~wrapped => sum = Poly(P(input.hash), 0, Letters(TextAt, i - TextAt)) % Q
  /\ wrapped => \E k \in TextAt..(i - 1) : Signed(Text(k)) < 0

InRoll ==
  /\ i \in Nat /\ TextAt + Shingle <= i /\ i <= Len(input.buf)
  /\ sum \in 0..(Q - 1) /\ wrapped \in BOOLEAN
  /\ ~wrapped =>
       /\ sum = Direct(input.hash, i - 1)
       /\ res \in Sums(TextAt + Shingle - 1, i - 1)
       /\ \A k \in (TextAt + Shingle - 1)..(i - 1) : res <= Direct(input.hash, k)
  /\ wrapped => \E k \in TextAt..(i - 1) : Signed(Text(k)) < 0

LineInv ==
  /\ pc \in MpiPoints => input \in Lines
  /\ pc = "start" => sum = 0 /\ wrapped = FALSE
  /\ pc = "first" => InFirst
  /\ pc \in {"roll", "hashed"} => InRoll

(* Direct is a number: the remainder of one.                                *)
LEMMA DirectFacts ==
  ASSUME input \in Lines, NEW k \in Nat, Shingle <= k + 1, k < Len(input.buf)
  PROVE  Direct(input.hash, k) \in 0..(Q - 1)
<1>1. input.hash \in Hashes /\ Len(input.buf) \in Nat /\ Shingle \in Nat
  BY InputsAssumption, SignaturesAssumption
<1>2. P(input.hash) \in Int /\ 0 \in Int /\ Q \in Nat \ {0}
  BY <1>1, WordFacts
<1>3. Window(k) \in Seq(Int)
  <2> DEFINE from == k - Shingle + 1
  <2>1. from \in Nat /\ from + Shingle <= Len(input.buf) /\ k \in Int
    BY <1>1
  <2>2. Window(k) = Letters(from, Shingle)
    BY <2>1, WindowLetters
  <2> HIDE DEF from
  <2> QED BY <1>1, <2>1, <2>2, LettersFacts
<1> DEFINE y == Poly(P(input.hash), 0, Window(k))
<1>4. y \in Int
  BY <1>2, <1>3, PolyInt
<1>5. Direct(input.hash, k) = y % Q
  BY DEF Direct
<1> HIDE DEF y
<1> QED BY <1>2, <1>4, <1>5, ModFacts

(* A whole first window is a window.                                        *)
LEMMA FirstIsDirect ==
  Direct(input.hash, TextAt + Shingle - 1) = Poly(P(input.hash), 0, Letters(TextAt, Shingle)) % Q
<1>1. TextAt \in Nat /\ Shingle \in Nat
  BY SignaturesAssumption
<1>2. Window(TextAt + Shingle - 1) = Letters(TextAt, Shingle)
  <2> DEFINE last == TextAt + Shingle - 1
  <2>0. last = TextAt + Shingle - 1
    OBVIOUS
  <2> HIDE DEF last
  <2>1. last \in Int /\ last - Shingle + 1 = TextAt
    BY <1>1, <2>0
  <2>2. Window(last) = Letters(last - Shingle + 1, Shingle)
    BY <2>1, WindowLetters
  <2> QED BY <2>1, <2>2 DEF last
<1> QED BY <1>2 DEF Direct

LEMMA LineInit == SignInit => LineInv
  BY DEF SignInit, LineInv, MpiPoints

(* Operators of the line are of its input alone.                            *)
LEMMA SameLine ==
  ASSUME input' = input
  PROVE  /\ \A k : Text(k)' = Text(k)
         /\ \A h, k : Direct(h, k)' = Direct(h, k)
         /\ \A k, n : Letters(k, n)' = Letters(k, n)
         /\ \A k, n : Sums(k, n)' = Sums(k, n)
<1>1. \A k : Text(k)' = Text(k)
  BY DEF Text
<1>2. \A h, k : Direct(h, k)' = Direct(h, k)
  BY DEF Direct, Window, Text
<1>3. \A k, n : Letters(k, n)' = Letters(k, n)
  BY DEF Letters, Text
<1>4. \A k, n : Sums(k, n)' = Sums(k, n)
  BY <1>2 DEF Sums
<1> QED BY <1>1, <1>2, <1>3, <1>4

LEMMA FirstWindowKeeps == LineInv /\ FirstWindow => LineInv'
<1> SUFFICES ASSUME LineInv, FirstWindow PROVE LineInv'
  OBVIOUS
<1> DEFINE n == i - TextAt
           s == sum
           v == Signed(Text(i))
<1>1. /\ pc = "first" /\ pc' = pc /\ input \in Lines /\ input' = input /\ i' = i + 1
      /\ i < TextAt + Shingle /\ InFirst
      /\ sum' = (Absorbed(sum, i) % WordMod) % Q
      /\ wrapped' = (wrapped \/ ~InRange(sum, v))
  BY DEF FirstWindow, LineInv, MpiPoints
<1>2. /\ TextAt \in Nat /\ Shingle \in Nat /\ Q \in Nat \ {0} /\ WordMod \in Nat \ {0}
      /\ Len(input.buf) \in Nat /\ TextAt + Shingle <= Len(input.buf) /\ input.hash \in Hashes
  BY <1>1, SignaturesAssumption, InputsAssumption
<1>3. i \in Nat /\ n \in Nat /\ TextAt + n = i /\ i < Len(input.buf) /\ i' \in TextAt..(TextAt + Shingle)
      /\ i' - TextAt = n + 1 /\ sum \in 0..(Q - 1) /\ i' - 1 = i
  BY <1>1, <1>2 DEF InFirst
<1>4. v \in Int
  BY <1>1, <1>3, TextFacts
<1>5. sum' \in 0..(Q - 1)
  <2> DEFINE x == Absorbed(sum, i) % WordMod
  <2>1. AsUnsigned(Text(i)) \in Nat /\ P(input.hash) \in Nat
    BY <1>1, <1>2, <1>3, TextFacts, WordFacts
  <2>2. Absorbed(sum, i) \in Int
    BY <1>2, <1>3, <2>1 DEF Absorbed
  <2>3. x \in Int
    BY <1>2, <2>2, ModFacts
  <2> HIDE DEF x
  <2>4. x % Q \in 0..(Q - 1)
    BY <1>2, <2>3, ModFacts
  <2> QED BY <1>1, <2>4 DEF x
<1>6. wrapped' \in BOOLEAN
  BY <1>1
<1>7. ASSUME ~wrapped'
      PROVE  sum' = Poly(P(input.hash), 0, Letters(TextAt, n + 1)) % Q
  <2>1. ~wrapped /\ InRange(sum, v)
    BY <1>1, <1>7
  <2>2. sum = Poly(P(input.hash), 0, Letters(TextAt, n)) % Q
    BY <1>1, <2>1 DEF InFirst
  <2> HIDE DEF n
  <2>3. InRange(s, Signed(Text(TextAt + n)))
    BY <1>3, <2>1
  <2>4. (Absorbed(s, TextAt + n) % WordMod) % Q
          = Poly(P(input.hash), 0, Letters(TextAt, n + 1)) % Q
    BY <1>1, <1>3, <2>2, <2>3, FirstWindowExact
  <2> QED BY <1>1, <1>3, <2>4
<1>8. ASSUME wrapped' PROVE \E k \in TextAt..i : Signed(Text(k)) < 0
  <2>1. CASE wrapped
    <3>1. PICK k \in TextAt..(i - 1) : Signed(Text(k)) < 0
      BY <1>1, <2>1 DEF InFirst
    <3>2. k \in TextAt..i
      BY <1>2, <1>3
    <3> QED BY <3>1, <3>2
  <2>2. CASE ~InRange(sum, v)
    <3>1. v < 0
      BY <1>1, <1>3, <2>2, FitsFirst
    <3>2. i \in TextAt..i
      <4> HIDE DEF n
      <4> QED BY <1>2, <1>3
    <3> QED BY <3>1, <3>2
  <2> QED BY <1>1, <1>8, <2>1, <2>2
<1>9. InFirst'
  <2>1. \A k : Text(k)' = Text(k)
    BY <1>1, SameLine
  <2>3. Letters(TextAt, i - TextAt)' = Letters(TextAt, n + 1)
    BY <1>1, <1>3 DEF Letters, Text
  <2> HIDE DEF n, v
  <2>4. (~wrapped)' => sum' = Poly(P(input.hash), 0, Letters(TextAt, n + 1)) % Q
    BY <1>7
  <2>5. (~wrapped => sum = Poly(P(input.hash), 0, Letters(TextAt, i - TextAt)) % Q)'
    BY <1>1, <2>3, <2>4
  <2>6. (wrapped => \E k \in TextAt..(i - 1) : Signed(Text(k)) < 0)'
    BY <1>3, <1>8, <2>1
  <2> QED BY <1>3, <1>5, <1>6, <2>5, <2>6 DEF InFirst
<1> QED BY <1>1, <1>9 DEF LineInv

LEMMA RollingBeginsKeeps == LineInv /\ RollingBegins => LineInv'
<1> SUFFICES ASSUME LineInv, RollingBegins PROVE LineInv'
  OBVIOUS
<1>1. /\ pc = "first" /\ pc' = "roll" /\ input \in Lines /\ input' = input /\ i' = i
      /\ i = TextAt + Shingle /\ InFirst /\ sum' = sum /\ wrapped' = wrapped /\ res' = sum
  BY DEF RollingBegins, LineInv, MpiPoints
<1>2. TextAt \in Nat /\ Shingle \in Nat /\ TextAt + Shingle <= Len(input.buf)
  BY <1>1, SignaturesAssumption, InputsAssumption
<1>3. i - TextAt = Shingle /\ i - 1 = TextAt + Shingle - 1
  BY <1>1, <1>2
<1>4. /\ sum \in 0..(Q - 1) /\ wrapped \in BOOLEAN
      /\ ~wrapped => sum = Direct(input.hash, i - 1)
      /\ wrapped => \E k \in TextAt..(i - 1) : Signed(Text(k)) < 0
  BY <1>1, <1>3, FirstIsDirect DEF InFirst
<1>5. \A k \in (TextAt + Shingle - 1)..(i - 1) : k = i - 1
  BY <1>1, <1>2
<1>6. i - 1 \in (TextAt + Shingle - 1)..(i - 1)
  BY <1>1, <1>2
<1>7. ~wrapped => /\ sum \in Sums(TextAt + Shingle - 1, i - 1)
                  /\ \A k \in (TextAt + Shingle - 1)..(i - 1) : sum <= Direct(input.hash, k)
  <2>1. ASSUME ~wrapped PROVE sum \in Sums(TextAt + Shingle - 1, i - 1)
    BY <1>4, <1>6, <2>1 DEF Sums
  <2>2. sum <= sum
    BY <1>4, SignaturesAssumption
  <2>3. ASSUME ~wrapped, NEW k \in (TextAt + Shingle - 1)..(i - 1) PROVE sum <= Direct(input.hash, k)
    BY <1>4, <1>5, <2>2, <2>3
  <2> QED BY <2>1, <2>3
<1>8. InRoll'
  <2>1. /\ \A k : Text(k)' = Text(k)
        /\ \A h, k : Direct(h, k)' = Direct(h, k)
        /\ \A k, n : Sums(k, n)' = Sums(k, n)
    BY <1>1, SameLine
  <2>2. i \in Nat /\ TextAt + Shingle <= i /\ i <= Len(input.buf)
    BY <1>1, <1>2
  <2>3. /\ (sum = Direct(input.hash, i - 1))' <=> sum = Direct(input.hash, i - 1)
        /\ (res \in Sums(TextAt + Shingle - 1, i - 1))' <=> sum \in Sums(TextAt + Shingle - 1, i - 1)
        /\ (\A k \in (TextAt + Shingle - 1)..(i - 1) : res <= Direct(input.hash, k))'
             <=> \A k \in (TextAt + Shingle - 1)..(i - 1) : sum <= Direct(input.hash, k)
        /\ (\E k \in TextAt..(i - 1) : Signed(Text(k)) < 0)'
             <=> \E k \in TextAt..(i - 1) : Signed(Text(k)) < 0
    BY <1>1, <2>1
  <2> QED BY <1>1, <1>4, <1>7, <2>2, <2>3 DEF InRoll
<1> QED BY <1>1, <1>8 DEF LineInv, MpiPoints

LEMMA RollKeeps == LineInv /\ Roll => LineInv'
<1> SUFFICES ASSUME LineInv, Roll PROVE LineInv'
  OBVIOUS
<1> DEFINE old == i - Shingle
           v == Signed(Text(old)) * R(input.hash) + Signed(Text(i))
           first == TextAt + Shingle - 1
           s == sum
<1>1. /\ pc = "roll" /\ pc' = pc /\ input \in Lines /\ input' = input /\ i' = i + 1
      /\ i < input.len - Shingle - 1 /\ InRoll
      /\ sum' = ((Absorbed(sum, i) + AsUnsigned(Text(old)) * R(input.hash)) % WordMod) % Q
      /\ wrapped' = (wrapped \/ ~InRange(sum, v))
      /\ res' = IF sum' < res THEN sum' ELSE res
  BY DEF Roll, More, LineInv, MpiPoints
<1>2. /\ TextAt \in Nat /\ Shingle \in Nat \ {0} /\ Q \in Nat \ {0} /\ WordMod \in Nat \ {0}
      /\ Len(input.buf) \in Nat /\ input.len \in Nat /\ input.len <= Len(input.buf)
      /\ input.hash \in Hashes
  BY <1>1, SignaturesAssumption, InputsAssumption
<1>3. /\ i \in Nat /\ TextAt + Shingle <= i /\ i < Len(input.buf) /\ i' <= Len(input.buf)
      /\ i' \in Nat /\ TextAt + Shingle <= i' /\ i' - 1 = i
      /\ old \in Nat /\ old < Len(input.buf) /\ old \in TextAt..i /\ i \in TextAt..i
      /\ sum \in 0..(Q - 1) /\ first \in Nat /\ Shingle <= first + 1
  BY <1>1, <1>2 DEF InRoll
<1>4. sum' \in 0..(Q - 1)
  <2> DEFINE x == (Absorbed(sum, i) + AsUnsigned(Text(old)) * R(input.hash)) % WordMod
  <2>1. AsUnsigned(Text(i)) \in Nat /\ P(input.hash) \in Nat
    BY <1>1, <1>2, <1>3, TextFacts, WordFacts
  <2>2. AsUnsigned(Text(old)) \in Nat /\ R(input.hash) \in Int
    <3> HIDE DEF old
    <3>1. R(input.hash) \in 0..(Q - 1)
      BY <1>2, RFacts
    <3> QED BY <1>1, <1>2, <1>3, <3>1, TextFacts
  <2>3. Absorbed(sum, i) \in Int
    BY <1>2, <1>3, <2>1 DEF Absorbed
  <2>4. Absorbed(sum, i) + AsUnsigned(Text(old)) * R(input.hash) \in Int
    BY <2>2, <2>3
  <2>5. x \in Int
    BY <1>2, <2>4, ModFacts
  <2> HIDE DEF x
  <2>6. x % Q \in 0..(Q - 1)
    BY <1>2, <2>5, ModFacts
  <2> QED BY <1>1, <2>6 DEF x
<1>5. wrapped' \in BOOLEAN
  BY <1>1
<1>6. ASSUME ~wrapped'
      PROVE  /\ sum' = Direct(input.hash, i)
             /\ res' \in Sums(first, i)
             /\ \A k \in first..i : res' <= Direct(input.hash, k)
  <2>1. ~wrapped /\ InRange(sum, v)
    BY <1>1, <1>6
  <2>2. /\ sum = Direct(input.hash, i - 1) /\ res \in Sums(first, i - 1)
        /\ \A k \in first..(i - 1) : res <= Direct(input.hash, k)
    BY <1>1, <2>1 DEF InRoll
  <2>3. sum' = Direct(input.hash, i)
    <3>1. ((Absorbed(s, i) + AsUnsigned(Text(i - Shingle)) * R(input.hash)) % WordMod) % Q
            = Direct(input.hash, i)
      BY <1>1, <1>3, <2>1, <2>2, RollExact
    <3> QED BY <1>1, <3>1
  <2>4. \A k \in first..i : Direct(input.hash, k) \in Int
    <3> TAKE k \in first..i
    <3>1. k \in Nat /\ Shingle <= k + 1 /\ k < Len(input.buf)
      BY <1>2, <1>3
    <3>2. Direct(input.hash, k) \in 0..(Q - 1)
      BY <1>1, <3>1, DirectFacts
    <3> QED BY <1>2, <3>2
  <2>5. first..i = first..(i - 1) \cup {i} /\ i \in first..i
    BY <1>2, <1>3
  <2>6. res \in Int
    BY <2>2, <2>4, <2>5 DEF Sums
  <2> HIDE DEF first
  <2>7. CASE sum' < res
    <3>1. res' = Direct(input.hash, i)
      BY <1>1, <2>3, <2>7
    <3>2. res' \in Sums(first, i)
      BY <2>5, <3>1 DEF Sums
    <3>3. ASSUME NEW k \in first..i PROVE res' <= Direct(input.hash, k)
      BY <2>2, <2>3, <2>4, <2>5, <2>6, <2>7, <3>1
    <3> QED BY <2>3, <3>2, <3>3
  <2>8. CASE ~(sum' < res)
    <3>1. res' = res
      BY <1>1, <2>8
    <3>2. res' \in Sums(first, i)
      BY <2>2, <2>5, <3>1 DEF Sums
    <3>3. ASSUME NEW k \in first..i PROVE res' <= Direct(input.hash, k)
      BY <2>2, <2>3, <2>4, <2>5, <2>6, <2>8, <3>1
    <3> QED BY <2>3, <3>2, <3>3
  <2> QED BY <2>7, <2>8
<1>7. ASSUME wrapped' PROVE \E k \in TextAt..i : Signed(Text(k)) < 0
  <2>1. CASE wrapped
    <3>1. PICK k \in TextAt..(i - 1) : Signed(Text(k)) < 0
      BY <1>1, <2>1 DEF InRoll
    <3>2. k \in TextAt..i
      BY <1>2, <1>3
    <3> QED BY <3>1, <3>2
  <2>2. CASE ~InRange(sum, v)
    <3> HIDE DEF old
    <3>1. Signed(Text(old)) < 0 \/ Signed(Text(i)) < 0
      BY <1>1, <1>3, <2>2, FitsRolling
    <3> QED BY <1>3, <3>1
  <2> QED BY <1>1, <1>7, <2>1, <2>2
<1>8. InRoll'
  <2>1. /\ \A k : Text(k)' = Text(k)
        /\ \A h, k : Direct(h, k)' = Direct(h, k)
        /\ \A k, n : Sums(k, n)' = Sums(k, n)
    BY <1>1, SameLine
  <2> HIDE DEF old, v, s
  <2>2. /\ (sum = Direct(input.hash, i - 1))' <=> sum' = Direct(input.hash, i)
        /\ (res \in Sums(TextAt + Shingle - 1, i - 1))' <=> res' \in Sums(first, i)
        /\ (\A k \in (TextAt + Shingle - 1)..(i - 1) : res <= Direct(input.hash, k))'
             <=> \A k \in first..i : res' <= Direct(input.hash, k)
        /\ (\E k \in TextAt..(i - 1) : Signed(Text(k)) < 0)'
             <=> \E k \in TextAt..i : Signed(Text(k)) < 0
    BY <1>1, <1>3, <2>1
  <2>3. (i \in Nat /\ TextAt + Shingle <= i /\ i <= Len(input.buf))'
    BY <1>1, <1>3
  <2> QED BY <1>4, <1>5, <1>6, <1>7, <2>2, <2>3 DEF InRoll
<1> QED BY <1>1, <1>8 DEF LineInv

LEMMA LineNext == LineInv /\ [SignNext]_signvars => LineInv'
<1> SUFFICES ASSUME LineInv, [SignNext]_signvars PROVE LineInv'
  OBVIOUS
<1>1. CASE LineTooShort
  BY <1>1 DEF LineTooShort, LineInv, MpiPoints
<1>2. CASE FirstWindowBegins
  <2>1. /\ pc' = "first" /\ i' = TextAt /\ input' = input /\ input \in Lines
        /\ sum' = 0 /\ wrapped' = FALSE
    BY <1>2 DEF FirstWindowBegins, LineInv, MpiPoints
  <2>2. TextAt \in Nat /\ Shingle \in Nat /\ Q \in Nat \ {0} /\ TextAt - TextAt = 0
    BY SignaturesAssumption
  <2>3. Letters(TextAt, i - TextAt)' = <<>>
    BY <2>1, <2>2 DEF Letters
  <2>4. input.hash \in Hashes
    BY <2>1, InputsAssumption
  <2>5. Poly(P(input.hash), 0, <<>>) = 0
    <3>1. P(input.hash) \in Int /\ 0 \in Int
      BY <2>4, WordFacts
    <3> QED BY <3>1, PolyEmpty
  <2>6. 0 % Q = 0 /\ 0 \in 0..(Q - 1)
    BY <2>2
  <2>7. (sum = Poly(P(input.hash), 0, Letters(TextAt, i - TextAt)) % Q)'
    BY <2>1, <2>3, <2>5, <2>6
  <2>8. (i \in TextAt..(TextAt + Shingle) /\ sum \in 0..(Q - 1))'
    BY <2>1, <2>2, <2>6
  <2>9. InFirst'
    BY <2>1, <2>7, <2>8 DEF InFirst
  <2> QED BY <2>1, <2>9 DEF LineInv
<1>3. CASE FirstWindow
  BY <1>3, FirstWindowKeeps
<1>4. CASE RollingBegins
  BY <1>4, RollingBeginsKeeps
<1>5. CASE Roll
  BY <1>5, RollKeeps
<1>6. CASE LineHashed
  <2>1. /\ pc = "roll" /\ pc' = "hashed" /\ i' = i /\ input' = input /\ sum' = sum /\ res' = res
        /\ wrapped' = wrapped
    BY <1>6 DEF LineHashed, rolling
  <2>2. InRoll => InRoll'
    <3>1. /\ \A k : Text(k)' = Text(k)
          /\ \A h, k : Direct(h, k)' = Direct(h, k)
          /\ \A k, n : Sums(k, n)' = Sums(k, n)
      BY <2>1, SameLine
    <3> QED BY <2>1, <3>1 DEF InRoll
  <2> QED BY <2>1, <2>2 DEF LineInv, MpiPoints
<1>7. CASE BatchSignatures \/ ChooseBuckets \/ EncryptSignatures \/ DecryptOnCpu \/ DecryptOnGpu
  BY <1>7 DEF BatchSignatures, ChooseBuckets, EncryptSignatures, DecryptOnCpu, DecryptOnGpu,
              LineInv, MpiPoints
<1>8. CASE ReplaceKeys
  BY <1>8 DEF ReplaceKeys, LineInv, MpiPoints
<1>9. CASE UNCHANGED signvars
  <2>1. /\ pc' = pc /\ i' = i /\ input' = input /\ sum' = sum /\ res' = res /\ wrapped' = wrapped
    BY <1>9 DEF signvars, rolling
  <2>2. (InRoll => InRoll') /\ (InFirst => InFirst')
    <3>1. /\ \A k : Text(k)' = Text(k)
          /\ \A h, k : Direct(h, k)' = Direct(h, k)
          /\ \A k, n : Letters(k, n)' = Letters(k, n)
          /\ \A k, n : Sums(k, n)' = Sums(k, n)
      BY <2>1, SameLine
    <3> QED BY <2>1, <3>1 DEF InRoll, InFirst
  <2> QED BY <2>1, <2>2 DEF LineInv
<1> QED BY <1>1, <1>2, <1>3, <1>4, <1>5, <1>6, <1>7, <1>8, <1>9 DEF SignNext

LEMMA LineIsExact == LineInv => HashExact
<1> SUFFICES ASSUME LineInv, pc \in {"roll", "hashed"}, ~wrapped
             PROVE  res = Min({Direct(input.hash, k) : k \in (TextAt + Shingle - 1)..(i - 1)})
  BY DEF LineInv, HashExact, InRoll
<1> DEFINE S == Sums(TextAt + Shingle - 1, i - 1)
<1>1. InRoll /\ input \in Lines
  BY DEF LineInv, MpiPoints
<1>2. TextAt \in Nat /\ Shingle \in Nat \ {0} /\ Q \in Nat \ {0} /\ Len(input.buf) \in Nat
  BY <1>1, SignaturesAssumption, InputsAssumption
<1>3. S \in SUBSET Int
  <2> SUFFICES ASSUME NEW k \in (TextAt + Shingle - 1)..(i - 1) PROVE Direct(input.hash, k) \in Int
    BY DEF Sums
  <2>1. k \in Nat /\ Shingle <= k + 1 /\ k < Len(input.buf)
    BY <1>1, <1>2 DEF InRoll
  <2>2. Direct(input.hash, k) \in 0..(Q - 1)
    BY <1>1, <2>1, DirectFacts
  <2> QED BY <1>2, <2>2
<1>4. res \in S /\ \A y \in S : res <= y
  BY <1>1 DEF InRoll, Sums
<1> HIDE DEF S
<1>5. Min(S) = res
  BY <1>3, <1>4, MinIs
<1> QED BY <1>5 DEF S, Sums

(* hash_string_kernel_lsh, for lines of any length and any parameters: the  *)
(* rolled sum is the hash of its window alone and the result the least so   *)
(* far unless something wrapped around, which takes a negative char.        *)
THEOREM RollingIsExact == SignSpec => []HashExact
<1>1. LineInv /\ [SignNext]_signvars => LineInv'
  BY LineNext
<1>2. SignInit => LineInv
  BY LineInit
<1>3. LineInv => HashExact
  BY LineIsExact
<1> QED BY <1>1, <1>2, <1>3, PTL DEF SignSpec

-----------------------------------------------------------------------------
(* The federation's side.  The texts of a batch, one behind the other, with *)
(* each of them at its offset.                                              *)

LEMMA BatchFacts ==
  ASSUME input \in Batches
  PROVE  /\ Len(input) \in Nat /\ Docs = 1..Len(input)
         /\ \A d \in 1..Len(input) : input[d] \in Seq(Chars) /\ Len(input[d]) \in Nat
<1>1. input \in Seq(Seq(Chars))
  BY InputsAssumption
<1> QED BY <1>1 DEF Docs

OffsetRun(e) ==
  /\ e \in [0..Len(input) -> Nat] /\ e[0] = 0
  /\ \A n \in 1..Len(input) : e[n] = e[n - 1] + Len(input[n])
  /\ \A d \in 1..Len(input) : Offset(d) = e[d - 1]

Join(x, y) == x \o y
NoText == <<>>

TextRun(u) ==
  /\ u \in [0..Len(input) -> Seq(Chars)] /\ u[0] = NoText
  /\ \A n \in 1..Len(input) : u[n] = Join(u[n - 1], input[n])
  /\ Concatenated = u[Len(input)]

LEMMA NoTextFacts == NoText \in Seq(Chars) /\ Len(NoText) = 0
  BY DEF NoText

LEMMA JoinFacts ==
  ASSUME NEW x \in Seq(Chars), NEW y \in Seq(Chars)
  PROVE  /\ Join(x, y) \in Seq(Chars) /\ Len(Join(x, y)) = Len(x) + Len(y)
         /\ \A k \in 1..Len(x) : Join(x, y)[k] = x[k]
         /\ \A k \in 1..Len(y) : Join(x, y)[Len(x) + k] = y[k]
<1>1. Len(x) \in Nat /\ Len(y) \in Nat /\ Join(x, y) = x \o y
  BY DEF Join
<1>2. ASSUME NEW k \in 1..Len(y) PROVE (x \o y)[Len(x) + k] = y[k]
  BY <1>1
<1>3. x \o y \in Seq(Chars) /\ Len(x \o y) = Len(x) + Len(y)
  OBVIOUS
<1>4. \A k \in 1..Len(x) : (x \o y)[k] = x[k]
  BY <1>1
<1> QED BY <1>1, <1>2, <1>3, <1>4

LEMMA OffsetRuns ==
  ASSUME input \in Batches
  PROVE  \E e : OffsetRun(e)
<1> DEFINE N == Len(input)
           F(f) == [e \in 0..Len(input) |-> IF e = 0 THEN 0 ELSE f[e - 1] + Len(input[e])]
           u == CHOOSE f : f = F(f)
           step == [p \in Nat \X (1..N) |-> p[1] + Len(input[p[2]])]
<1>1. N \in Nat /\ \A n \in 1..N : Len(input[n]) \in Nat
  BY BatchFacts
<1>2. \A y \in Nat, n \in 1..N : step[<<y, n>>] = y + Len(input[n]) /\ step[<<y, n>>] \in Nat
  BY <1>1
<1> HIDE DEF step
<1>3. PICK f \in [0..N -> Nat] : f[0] = 0 /\ \A n \in 1..N : f[n] = step[<<f[n - 1], n>>]
  <2>1. \A y \in Nat, n \in 1..N : step[<<y, n>>] \in Nat
    BY <1>2
  <2>2. N \in Nat /\ 0 \in Nat
    BY <1>1
  <2> HIDE DEF N
  <2>3. \E f : Runs(f, Nat, 0, step, N)
    BY <2>1, <2>2, Recursion
  <2> QED BY <2>3 DEF Runs
<1>4. f = F(f)
  <2>1. ASSUME NEW n \in 0..N PROVE f[n] = IF n = 0 THEN 0 ELSE f[n - 1] + Len(input[n])
    <3>1. n = 0 \/ (n \in 1..N /\ n - 1 \in 0..N)
      BY <1>1
    <3> QED BY <1>2, <1>3, <3>1
  <2> QED BY <1>3, <2>1
<1>5. u = F(u)
  <2> HIDE DEF F
  <2> QED BY <1>4
<1>6. \A d : Offset(d) = u[d - 1]
  BY DEF Offset
<1> HIDE DEF u
<1>7. \A n \in 0..N : u[n] = IF n = 0 THEN 0 ELSE u[n - 1] + Len(input[n])
  BY <1>5
<1>8. u[0] = 0 /\ \A n \in 1..N : u[n] = u[n - 1] + Len(input[n])
  <2>1. \A n \in 1..N : n \in 0..N /\ n # 0
    BY <1>1
  <2> QED BY <1>1, <1>7, <2>1
<1>9. \A n \in 0..N : u[n] \in Nat
  <2> DEFINE S == {n \in 0..N : u[n] \in Nat}
  <2>1. 0 \in S
    BY <1>1, <1>8, NoTextFacts
  <2>2. ASSUME NEW n \in 1..N, n - 1 \in S PROVE n \in S
    <3>1. u[n - 1] \in Nat /\ Len(input[n]) \in Nat /\ n \in 0..N
      BY <1>1, <2>2
    <3> QED BY <1>8, <3>1
  <2> HIDE DEF S
  <2>3. \A n \in 0..N : n \in S
    BY <1>1, <2>1, <2>2, Induct
  <2> QED BY <2>3 DEF S
<1>10. u \in [0..N -> Nat]
  BY <1>5, <1>9
<1> QED BY <1>6, <1>8, <1>10 DEF OffsetRun

LEMMA TextRuns ==
  ASSUME input \in Batches
  PROVE  \E u : TextRun(u)
<1> DEFINE N == Len(input)
           F(f) == [e \in 0..Len(input) |-> IF e = 0 THEN NoText ELSE Join(f[e - 1], input[e])]
           u == CHOOSE f : f = F(f)
           step == [p \in Seq(Chars) \X (1..N) |-> Join(p[1], input[p[2]])]
<1>1. N \in Nat /\ \A n \in 1..N : input[n] \in Seq(Chars)
  BY BatchFacts
<1>2. \A y \in Seq(Chars), n \in 1..N : step[<<y, n>>] = Join(y, input[n]) /\ step[<<y, n>>] \in Seq(Chars)
  BY <1>1, JoinFacts
<1> HIDE DEF step
<1>3. PICK f \in [0..N -> Seq(Chars)] : f[0] = NoText /\ \A n \in 1..N : f[n] = step[<<f[n - 1], n>>]
  <2>1. \A y \in Seq(Chars), n \in 1..N : step[<<y, n>>] \in Seq(Chars)
    BY <1>2
  <2>2. N \in Nat /\ NoText \in Seq(Chars)
    BY <1>1, NoTextFacts
  <2> HIDE DEF N
  <2>3. \E f : Runs(f, Seq(Chars), NoText, step, N)
    BY <2>1, <2>2, Recursion
  <2> QED BY <2>3 DEF Runs
<1>4. f = F(f)
  <2>1. ASSUME NEW n \in 0..N PROVE f[n] = IF n = 0 THEN NoText ELSE Join(f[n - 1], input[n])
    <3>1. n = 0 \/ (n \in 1..N /\ n - 1 \in 0..N)
      BY <1>1
    <3>2. ASSUME n \in 1..N, n - 1 \in 0..N PROVE f[n] = Join(f[n - 1], input[n])
      <4>1. f[n - 1] \in Seq(Chars)
        BY <3>2
      <4>2. f[n] = step[<<f[n - 1], n>>]
        BY <1>3, <3>2
      <4> HIDE DEF N
      <4> QED BY <1>2, <3>2, <4>1, <4>2
    <3> QED BY <1>3, <3>1, <3>2
  <2> QED BY <1>3, <2>1
<1>5. u = F(u)
  <2> HIDE DEF F
  <2> QED BY <1>4
<1>6. Concatenated = u[N]
  BY DEF Concatenated, Join, NoText
<1> HIDE DEF u
<1>7. \A n \in 0..N : u[n] = IF n = 0 THEN NoText ELSE Join(u[n - 1], input[n])
  BY <1>5
<1>8. u[0] = NoText /\ \A n \in 1..N : u[n] = Join(u[n - 1], input[n])
  <2>1. \A n \in 1..N : n \in 0..N /\ n # 0
    BY <1>1
  <2> QED BY <1>1, <1>7, <2>1
<1>9. \A n \in 0..N : u[n] \in Seq(Chars)
  <2> DEFINE S == {n \in 0..N : u[n] \in Seq(Chars)}
  <2>1. 0 \in S
    <3> HIDE DEF N
    <3>1. u[0] = NoText /\ N \in Nat
      BY <1>1, <1>8
    <3> QED BY <3>1, NoTextFacts
  <2>2. ASSUME NEW n \in 1..N, n - 1 \in S PROVE n \in S
    <3>1. u[n - 1] \in Seq(Chars) /\ input[n] \in Seq(Chars) /\ n \in 0..N
      BY <1>1, <2>2
    <3>2. Join(u[n - 1], input[n]) \in Seq(Chars)
      BY <3>1, JoinFacts
    <3> QED BY <1>8, <3>1, <3>2
  <2> HIDE DEF S
  <2>3. \A n \in 0..N : n \in S
    BY <1>1, <2>1, <2>2, Induct
  <2> QED BY <2>3 DEF S
<1>10. u \in [0..N -> Seq(Chars)]
  BY <1>5, <1>9
<1> QED BY <1>6, <1>8, <1>10 DEF TextRun

(* What is at the offset of a text is the text.                             *)
LEMMA TextIsThere ==
  ASSUME input \in Batches, NEW d \in 1..Len(input)
  PROVE  /\ Concatenated \in Seq(Chars) /\ Offset(d) \in Nat
         /\ Offset(d) + Len(input[d]) <= Len(Concatenated)
         /\ \A k \in 1..Len(input[d]) : Concatenated[Offset(d) + k] = input[d][k]
<1> DEFINE N == Len(input)
<1>1. PICK e : OffsetRun(e)
  BY OffsetRuns
<1>2. PICK u : TextRun(u)
  BY TextRuns
<1>3. N \in Nat /\ d \in 1..N
  BY BatchFacts
<1>4. \A n \in 1..N : input[n] \in Seq(Chars)
  BY BatchFacts
<1>5. \A n \in 1..N : Len(input[n]) \in Nat
  BY BatchFacts
<1>6. /\ e \in [0..N -> Nat] /\ e[0] = 0 /\ Offset(d) = e[d - 1]
      /\ \A n \in 1..N : e[n] = e[n - 1] + Len(input[n])
  BY <1>1 DEF OffsetRun
<1>7. u \in [0..N -> Seq(Chars)]
  BY <1>2 DEF TextRun
<1>8. u[0] = NoText /\ Concatenated = u[N]
  BY <1>2 DEF TextRun
<1>9. \A n \in 1..N : u[n] = Join(u[n - 1], input[n])
  BY <1>2 DEF TextRun
<1> HIDE DEF N
<1>10. d - 1 \in 0..N /\ N \in 0..N /\ d <= N
  BY <1>3
<1>11. e[d - 1] \in Nat
  BY <1>6, <1>10
<1>12. ASSUME NEW n \in 1..N
       PROVE  /\ n \in 0..N /\ n - 1 \in 0..N /\ u[n - 1] \in Seq(Chars)
              /\ Len(u[n]) = Len(u[n - 1]) + Len(input[n])
              /\ \A k \in 1..Len(u[n - 1]) : u[n][k] = u[n - 1][k]
              /\ \A k \in 1..Len(input[n]) : u[n][Len(u[n - 1]) + k] = input[n][k]
  <2>1. n \in 0..N /\ n - 1 \in 0..N
    BY <1>3
  <2>2. u[n - 1] \in Seq(Chars)
    BY <1>7, <2>1
  <2>3. input[n] \in Seq(Chars)
    BY <1>4
  <2>4. u[n] = Join(u[n - 1], input[n])
    BY <1>9
  <2> DEFINE x == u[n - 1]
             y == input[n]
             z == Join(x, y)
  <2>5. x \in Seq(Chars) /\ y \in Seq(Chars) /\ u[n] = z
    BY <2>2, <2>3, <2>4
  <2> HIDE DEF x, y
  <2>6. /\ Len(z) = Len(x) + Len(y) /\ \A k \in 1..Len(x) : z[k] = x[k]
        /\ \A k \in 1..Len(y) : z[Len(x) + k] = y[k]
    BY <2>5, JoinFacts
  <2> HIDE DEF z
  <2>7. /\ Len(u[n]) = Len(x) + Len(y) /\ \A k \in 1..Len(x) : u[n][k] = x[k]
        /\ \A k \in 1..Len(y) : u[n][Len(x) + k] = y[k]
    BY <2>5, <2>6
  <2> QED BY <2>1, <2>2, <2>7 DEF x, y
<1>13. \A n \in 0..N : Len(u[n]) = e[n]
  <2> DEFINE S == {n \in 0..N : Len(u[n]) = e[n]}
  <2>1. 0 \in S
    BY <1>3, <1>6, <1>8, NoTextFacts
  <2>2. ASSUME NEW n \in 1..N, n - 1 \in S PROVE n \in S
    <3>1. n \in 0..N /\ Len(u[n]) = Len(u[n - 1]) + Len(input[n])
      BY <1>12
    <3>2. Len(u[n - 1]) = e[n - 1]
      BY <2>2
    <3>3. e[n] = e[n - 1] + Len(input[n])
      BY <1>6
    <3> QED BY <3>1, <3>2, <3>3
  <2> HIDE DEF S
  <2>3. \A n \in 0..N : n \in S
    BY <1>3, <2>1, <2>2, Induct
  <2> QED BY <2>3 DEF S
<1> DEFINE off == e[d - 1]
           t == input[d]
           Has(n) == /\ off + Len(t) <= Len(u[n])
                     /\ \A k \in 1..Len(t) : u[n][off + k] = t[k]
           S == {n \in 0..N : n >= d => Has(n)}
<1>14. off \in Nat /\ Len(t) \in Nat
  BY <1>3, <1>5, <1>11
<1> HIDE DEF off, t
<1>15. 0 \in S
  BY <1>3
<1>16. ASSUME NEW n \in 1..N, n - 1 \in S PROVE n \in S
  <2> SUFFICES ASSUME n >= d PROVE Has(n)
    <3>1. n \in 0..N
      BY <1>12
    <3> HIDE DEF Has
    <3> QED BY <3>1
  <2> DEFINE l == Len(u[n - 1])
  <2>1. /\ n - 1 \in 0..N /\ Len(u[n]) = l + Len(input[n]) /\ l = e[n - 1] /\ l \in Nat
        /\ Len(input[n]) \in Nat
    <3>1. n - 1 \in 0..N /\ Len(u[n]) = l + Len(input[n])
      BY <1>12
    <3>2. l = e[n - 1]
      BY <1>13, <3>1
    <3>3. e[n - 1] \in Nat
      BY <1>6, <3>1
    <3>4. Len(input[n]) \in Nat
      BY <1>5
    <3> QED BY <3>1, <3>2, <3>3, <3>4
  <2>2. /\ \A k \in 1..l : u[n][k] = u[n - 1][k]
        /\ \A k \in 1..Len(input[n]) : u[n][l + k] = input[n][k]
    BY <1>12
  <2> HIDE DEF l
  <2>3. CASE n = d
    <3>1. l = off /\ input[n] = t
      BY <2>1, <2>3 DEF off, t
    <3> QED BY <2>1, <2>2, <3>1
  <2>4. CASE n # d
    <3>1. n - 1 >= d
      BY <1>3, <2>4
    <3>2. Has(n - 1)
      <4> HIDE DEF Has
      <4> QED BY <1>16, <3>1
    <3>3. off + Len(t) <= l /\ \A k \in 1..Len(t) : u[n - 1][off + k] = t[k]
      BY <3>2 DEF l
    <3>4. ASSUME NEW k \in 1..Len(t)
          PROVE  off + k \in 1..l
      BY <1>14, <2>1, <3>3
    <3>5. ASSUME NEW k \in 1..Len(t)
          PROVE  u[n][off + k] = t[k]
      BY <2>2, <3>3, <3>4
    <3>6. off + Len(t) <= Len(u[n])
      BY <1>14, <2>1, <3>3
    <3> QED BY <3>5, <3>6
  <2> QED BY <2>3, <2>4
<1>17. Has(N)
  <2>1. \A n \in 0..N : n \in S
    <3> HIDE DEF S
    <3> QED BY <1>3, <1>15, <1>16, Induct
  <2> HIDE DEF Has
  <2> QED BY <1>3, <1>10, <2>1
<1>18. Concatenated \in Seq(Chars)
  BY <1>7, <1>8, <1>10
<1> QED BY <1>6, <1>8, <1>11, <1>17, <1>18 DEF off, t

LEMMA PartFacts ==
  ASSUME NEW s \in Seq(Chars), NEW m \in Nat, NEW n \in Nat, m + n <= Len(s), NEW j \in 1..n
  PROVE  SubSeq(s, m + 1, m + n)[j] = s[m + j]
  OBVIOUS

LEMMA SameShingle ==
  ASSUME input \in Batches, NEW d \in 1..Len(input), NEW k \in 0..(Len(input[d]) - Shingle)
  PROVE  /\ SubSeq(Concatenated, Offset(d) + k + 1, Offset(d) + k + Shingle)
              = SubSeq(input[d], k + 1, k + Shingle)
         /\ SubSeq(input[d], k + 1, k + Shingle) \in Seq(Chars)
<1> DEFINE o == Offset(d)
           t == input[d]
           all == Concatenated
<1>1. /\ all \in Seq(Chars) /\ o \in Nat /\ t \in Seq(Chars) /\ Len(t) \in Nat
      /\ o + Len(t) <= Len(all) /\ \A j \in 1..Len(t) : all[o + j] = t[j]
  BY TextIsThere, BatchFacts
<1>2. Shingle \in Nat \ {0} /\ k \in Nat /\ k + Shingle <= Len(t)
  BY <1>1, SignaturesAssumption
<1> HIDE DEF o, t, all
<1> DEFINE a == SubSeq(all, o + k + 1, o + k + Shingle)
           b == SubSeq(t, k + 1, k + Shingle)
<1>3. a \in Seq(Chars) /\ b \in Seq(Chars) /\ Len(a) = Shingle /\ Len(b) = Shingle
  BY <1>1, <1>2
<1>4. ASSUME NEW j \in 1..Shingle PROVE a[j] = b[j]
  <2>1. a[j] = all[(o + k) + j] /\ b[j] = t[k + j]
    <3>1. o + k \in Nat /\ (o + k) + Shingle <= Len(all) /\ k + Shingle <= Len(t)
      BY <1>1, <1>2
    <3>2. SubSeq(all, (o + k) + 1, (o + k) + Shingle)[j] = all[(o + k) + j]
      BY <1>1, <1>2, <3>1, PartFacts
    <3>3. SubSeq(t, k + 1, k + Shingle)[j] = t[k + j]
      BY <1>1, <1>2, <3>1, PartFacts
    <3> QED BY <3>2, <3>3
  <2>2. k + j \in 1..Len(t) /\ o + (k + j) = o + k + j
    BY <1>1, <1>2
  <2> QED BY <1>1, <2>1, <2>2
<1> HIDE DEF a, b
<1>5. a = b
  BY <1>2, <1>3, <1>4
<1> QED BY <1>3, <1>5 DEF a, b, o, t, all

(* A signature is of its own text: for any other texts in the batch.        *)
LEMMA HashOfShingle ==
  ASSUME input \in Batches, NEW d \in 1..Len(input), NEW k \in 0..(Len(input[d]) - Shingle),
         NEW h \in Hashes
  PROVE  /\ ShingleHash(h, Offset(d) + k) = ShingleSum(h, SubSeq(input[d], k + 1, k + Shingle))
         /\ ShingleHash(h, Offset(d) + k) \in 0..(Q - 1)
<1> DEFINE s == SubSeq(input[d], k + 1, k + Shingle)
           c == CharMod - 1
<1>1. s \in Seq(Chars)
  BY SameShingle
<1>2. ShingleHash(h, Offset(d) + k) = Horner(P(h), Q, R(h), s)
  BY SameShingle DEF ShingleHash
<1>3. /\ P(h) \in Nat /\ Q \in Nat \ {0} /\ c \in Nat /\ (Q - 1) * P(h) + c < WordMod
      /\ R(h) \in 0..(Q - 1)
  <2>1. P(h) \in Nat /\ Q \in Nat \ {0} /\ CharMod \in Nat \ {0}
    BY WordFacts
  <2>3. c \in Nat
    BY <2>1
  <2>2. (Q - 1) * P(h) + c < WordMod
    BY WordFacts
  <2> QED BY <2>1, <2>2, <2>3, RFacts
<1>4. s \in Seq(0..c)
  BY <1>1 DEF Chars
<1> HIDE DEF s, c
<1>5. /\ Horner(P(h), Q, R(h), s) = Poly(P(h), R(h), s) % Q
      /\ Horner(P(h), Q, R(h), s) \in 0..(Q - 1)
  BY <1>3, <1>4, HornerIsPoly
<1> QED BY <1>2, <1>5 DEF s, ShingleSum

LEMMA MinHashIsTrue ==
  ASSUME input \in Batches, NEW d \in 1..Len(input), NEW h \in Hashes
  PROVE  MinHash(d, h) = TrueMin(input[d], h) /\ MinHash(d, h) \in Words
<1> DEFINE t == input[d]
           S == {ShingleHash(h, Offset(d) + k) : k \in 0..(Len(input[d]) - Shingle)}
           T == {ShingleSum(h, s) : s \in Shingles(t)}
<1>1. Len(t) \in Nat /\ Shingle \in Nat \ {0} /\ Q \in 1..WordMod /\ WordMod \in Nat
  BY BatchFacts, SignaturesAssumption
<1>2. \A k \in 0..(Len(t) - Shingle) :
        /\ ShingleHash(h, Offset(d) + k) = ShingleSum(h, SubSeq(t, k + 1, k + Shingle))
        /\ ShingleHash(h, Offset(d) + k) \in 0..(Q - 1)
  BY HashOfShingle
<1>3. ASSUME NEW k \in 0..(Len(t) - Shingle) PROVE SubSeq(t, k + 1, k + Shingle) \in Shingles(t)
  <2>1. k + 1 \in 1..(Len(t) - Shingle + 1) /\ (k + 1) + Shingle - 1 = k + Shingle
    BY <1>1
  <2> HIDE DEF t
  <2>2. SubSeq(t, k + 1, (k + 1) + Shingle - 1) \in Shingles(t)
    BY <2>1 DEF Shingles
  <2> QED BY <2>1, <2>2
<1>4. ASSUME NEW s \in Shingles(t)
      PROVE  \E k \in 0..(Len(t) - Shingle) : s = SubSeq(t, k + 1, k + Shingle)
  <2>1. PICK l \in 1..(Len(t) - Shingle + 1) : s = SubSeq(t, l, l + Shingle - 1)
    BY DEF Shingles
  <2> DEFINE k == l - 1
  <2>2. k \in 0..(Len(t) - Shingle) /\ k + 1 = l /\ k + Shingle = l + Shingle - 1
    BY <1>1
  <2> HIDE DEF k
  <2> QED BY <2>1, <2>2
<1> HIDE DEF t
<1>5. S = T
  <2>1. S \subseteq T
    BY <1>2, <1>3 DEF t
  <2>2. T \subseteq S
    BY <1>2, <1>4 DEF t
  <2> QED BY <2>1, <2>2
<1> DEFINE A == {MaxWord} \cup S
<1>6. A \in SUBSET Words /\ MaxWord \in A
  <2>1. S \subseteq 0..(Q - 1)
    BY <1>2 DEF t
  <2>2. 0..(Q - 1) \subseteq 0..(WordMod - 1) /\ WordMod - 1 \in 0..(WordMod - 1)
    BY <1>1
  <2> HIDE DEF S
  <2> QED BY <2>1, <2>2 DEF MaxWord, Words
<1>7. MinHash(d, h) = Min(A)
  BY DEF MinHash
<1>8. TrueMin(t, h) = Min(A)
  BY <1>5 DEF TrueMin
<1> HIDE DEF A
<1>9. PICK m \in A : \A k \in A : m <= k
  <2>1. A \in SUBSET Nat /\ A # {}
    BY <1>1, <1>6 DEF Words
  <2> QED BY <2>1, Least
<1>10. Min(A) = m
  <2>1. A \in SUBSET Int
    BY <1>1, <1>6 DEF Words
  <2> QED BY <1>9, <2>1, MinIs
<1> QED BY <1>6, <1>7, <1>8, <1>9, <1>10 DEF t

-----------------------------------------------------------------------------
(* The cipher.  Padding fills a signature up to whole blocks.               *)

LEMMA DivFacts ==
  ASSUME NEW q \in Nat \ {0}, NEW x \in Nat
  PROVE  x = (x \div q) * q + (x % q) /\ x \div q \in Nat /\ x % q \in 0..(q - 1)
  OBVIOUS

LEMMA DivExact ==
  ASSUME NEW q \in Nat \ {0}, NEW k \in Nat, NEW r \in 0..(q - 1)
  PROVE  (k * q + r) \div q = k /\ (k * q + r) % q = r
  OBVIOUS

(* A number below k * q is in one of k rows of q.                           *)
LEMMA RowFacts ==
  ASSUME NEW q \in Nat \ {0}, NEW k \in Nat, NEW n \in 1..(k * q)
  PROVE  /\ (n - 1) \div q \in 0..(k - 1) /\ (n - 1) % q \in 0..(q - 1)
         /\ ((n - 1) \div q) * q + (((n - 1) % q) + 1) = n
         /\ n > q => (n - 1) \div q >= 1
<1>0. n - 1 \in Nat /\ n \in Nat /\ n <= k * q
  <2>1. k * q \in Int
    OBVIOUS
  <2> QED BY <2>1
<1> DEFINE a == (n - 1) \div q
           r == (n - 1) % q
<1>1. n - 1 = a * q + r /\ a \in Nat /\ r \in 0..(q - 1)
  BY <1>0, DivFacts
<1> HIDE DEF a, r
<1>2. a <= k - 1
  <2> SUFFICES ASSUME k <= a PROVE FALSE
    BY <1>1
  <2>1. k * q <= a * q
    BY <1>1, ProductGrows
  <2>2. k * q \in Int /\ a * q \in Int
    BY <1>1
  <2> DEFINE x == k * q
             y == a * q
  <2> HIDE DEF x, y
  <2>3. x <= y /\ x \in Int /\ y \in Int /\ n - 1 = y + r /\ n <= x
    BY <1>0, <1>1, <2>1, <2>2 DEF x, y
  <2> QED BY <1>0, <1>1, <2>3
<1>3. ASSUME n > q PROVE a >= 1
  <2> SUFFICES ASSUME a = 0 PROVE FALSE
    BY <1>1
  <2>1. n - 1 = r
    BY <1>1
  <2> QED BY <1>0, <1>1, <1>3, <2>1
<1>4. a \in 0..(k - 1)
  BY <1>1, <1>2
<1>5. a * q + (r + 1) = n
  <2> DEFINE y == a * q
  <2>1. y \in Int
    BY <1>1
  <2> HIDE DEF y
  <2>2. n - 1 = y + r
    BY <1>1 DEF y
  <2>3. y + (r + 1) = n
    BY <1>0, <1>1, <2>1, <2>2
  <2> QED BY <2>3 DEF y
<1> QED BY <1>1, <1>3, <1>4, <1>5 DEF a, r

Sigs == [1..NumHash -> Words]

CipherFacts ==
  /\ NumHash \in Nat \ {0} /\ BlockWords \in Nat \ {0} /\ BlockWords <= NumHash
  /\ BlockWords < WordMod /\ WordMod \in Nat

LEMMA CipherHas == CipherFacts
  BY SignaturesAssumption, CipherAssumption DEF CipherFacts

LEMMA PaddedFacts ==
  ASSUME NEW s \in Sigs
  PROVE  \E k \in Nat, n \in 1..BlockWords :
           /\ PadLen(s) = n /\ NumHash + n = k * BlockWords
           /\ Padded(s) \in Seq(Words) /\ Len(Padded(s)) = k * BlockWords
           /\ \A j \in 1..NumHash : Padded(s)[j] = s[j]
           /\ \A j \in (NumHash + 1)..(NumHash + n) : Padded(s)[j] = n
           /\ Len(Padded(s)) \div BlockWords = k
<1>1. CipherFacts
  BY CipherHas
<1>2. s \in Seq(Words) /\ Len(s) = NumHash
  BY <1>1 DEF Sigs, CipherFacts
<1> DEFINE B == BlockWords
           a == NumHash \div BlockWords
           r == NumHash % BlockWords
           k == a + 1
           n == B - r
<1>3. NumHash = a * B + r /\ a \in Nat /\ r \in 0..(B - 1)
  BY <1>1, DivFacts DEF CipherFacts
<1>4. PadLen(s) = n
  BY <1>2 DEF PadLen
<1> HIDE DEF a, r, B
<1>5. k \in Nat /\ n \in 1..B /\ B \in Nat \ {0}
  BY <1>1, <1>3 DEF CipherFacts, B
<1>6. NumHash + n = k * B
  <2>1. k * B = a * B + B
    BY <1>3, <1>5
  <2>2. a * B \in Int
    BY <1>3, <1>5
  <2> DEFINE y == a * B
  <2> HIDE DEF y
  <2>3. y \in Int /\ NumHash = y + r /\ k * B = y + B
    BY <1>3, <2>1, <2>2 DEF y
  <2>4. y + r + (B - r) = y + B
    BY <1>3, <1>5, <2>3
  <2> QED BY <2>3, <2>4
<1> HIDE DEF k, n
<1> DEFINE pad == [w \in 1..PadLen(s) |-> PadLen(s)]
<1>7. pad \in Seq(Words) /\ Len(pad) = n /\ \A w \in 1..n : pad[w] = n
  <2>1. n \in Words /\ n \in Nat
    BY <1>1, <1>5 DEF CipherFacts, Words, B
  <2>2. pad = [w \in 1..n |-> n]
    BY <1>4 DEF pad
  <2> DEFINE y == [w \in 1..n |-> n]
  <2>3. y \in [1..n -> Words] /\ \A w \in 1..n : y[w] = n
    BY <2>1
  <2> HIDE DEF y
  <2>4. y \in Seq(Words) /\ Len(y) = n
    BY <2>1, <2>3
  <2>5. pad = y
    BY <2>2 DEF y
  <2> QED BY <2>3, <2>4, <2>5
<1>8. Padded(s) = s \o pad
  BY DEF Padded
<1> HIDE DEF pad
<1>9. /\ s \o pad \in Seq(Words) /\ Len(s \o pad) = NumHash + n
      /\ \A j \in 1..NumHash : (s \o pad)[j] = s[j]
  BY <1>2, <1>7
<1>10. ASSUME NEW j \in (NumHash + 1)..(NumHash + n) PROVE (s \o pad)[j] = n
  <2>1. j - NumHash \in 1..n /\ j \in 1..(NumHash + n) /\ ~(j <= NumHash)
    BY <1>1, <1>5 DEF CipherFacts
  <2>2. (s \o pad)[j] = pad[j - NumHash]
    BY <1>2, <1>7, <2>1
  <2> QED BY <1>7, <2>1, <2>2
<1>11. Len(Padded(s)) \div B = k
  <2>1. 0 \in 0..(B - 1) /\ k * B + 0 = k * B
    BY <1>5
  <2>2. (k * B + 0) \div B = k
    BY <1>5, <2>1, DivExact
  <2> QED BY <1>6, <1>8, <1>9, <2>1, <2>2
<1> QED BY <1>4, <1>5, <1>6, <1>8, <1>9, <1>10, <1>11 DEF B

(* Exclusive or with the same block again gives the block.                  *)
LEMMA XorTwice ==
  ASSUME NEW x \in Cells, NEW y \in Cells
  PROVE  XorBlocks(x, y) \in Cells /\ XorBlocks(XorBlocks(x, y), y) = x
<1>1. \A w \in 1..BlockWords : x[w] \in Words /\ y[w] \in Words
  BY DEF Cells
<1>2. \A w \in 1..BlockWords :
        XorWord(x[w], y[w]) \in Words /\ XorWord(XorWord(x[w], y[w]), y[w]) = x[w]
  BY <1>1, CipherAssumption
<1>3. XorBlocks(x, y) = [w \in 1..BlockWords |-> XorWord(x[w], y[w])]
  BY DEF XorBlocks
<1>4. XorBlocks(x, y) \in Cells
  BY <1>2, <1>3 DEF Cells
<1>5. XorBlocks(XorBlocks(x, y), y) = [w \in 1..BlockWords |-> XorWord(XorBlocks(x, y)[w], y[w])]
  BY DEF XorBlocks
<1>6. \A w \in 1..BlockWords : XorBlocks(x, y)[w] = XorWord(x[w], y[w])
  BY <1>3
<1>7. XorBlocks(XorBlocks(x, y), y) = [w \in 1..BlockWords |-> x[w]]
  BY <1>2, <1>5, <1>6
<1> QED BY <1>4, <1>7 DEF Cells

(* The blocks of a padded signature, the chain of their ciphers, and what   *)
(* comes out again.                                                         *)
Keys == UNION {DOMAIN t : t \in Batches}

ChainRun(c, key, iv, blocks, k) ==
  /\ c \in [0..k -> Cells] /\ c[0] = iv
  /\ \A b \in 1..k : c[b] = Enc(key, XorBlocks(blocks[b], c[b - 1]))

LEMMA BlockFacts ==
  ASSUME NEW s \in Sigs, NEW k \in Nat, Padded(s) \in Seq(Words),
         Len(Padded(s)) = k * BlockWords, Len(Padded(s)) \div BlockWords = k
  PROVE  /\ Len(InBlocks(Padded(s))) = k /\ InBlocks(Padded(s)) \in [1..k -> Cells]
         /\ \A b \in 1..k, w \in 1..BlockWords :
              InBlocks(Padded(s))[b][w] = Padded(s)[(b - 1) * BlockWords + w]
<1> DEFINE p == Padded(s)
           B == BlockWords
           blocks == InBlocks(p)
<1>1. B \in Nat \ {0}
  BY CipherHas DEF CipherFacts
<1>2. \A n \in 1..(k * B) : p[n] \in Words
  <2>1. k * B \in Nat
    BY <1>1
  <2> QED BY <2>1
<1>3. blocks = [b \in 1..k |-> [w \in 1..B |-> p[(b - 1) * B + w]]]
  BY DEF InBlocks
<1> HIDE DEF blocks, p, B
<1>4. ASSUME NEW b \in 1..k, NEW w \in 1..B PROVE (b - 1) * B + w \in 1..(k * B)
  <2> DEFINE a == b - 1
  <2>1. a \in Nat /\ a + 1 <= k /\ a + 1 \in Nat
    OBVIOUS
  <2> HIDE DEF a
  <2>2. (a + 1) * B <= k * B
    BY <1>1, <2>1, ProductGrows
  <2>3. (a + 1) * B = a * B + B /\ a * B \in Nat /\ k * B \in Nat
    BY <1>1, <2>1
  <2> DEFINE x == a * B
             y == k * B
  <2> HIDE DEF x, y
  <2>4. x + B <= y /\ x \in Nat /\ y \in Nat
    BY <2>2, <2>3 DEF x, y
  <2>5. x + w \in 1..y
    BY <1>1, <2>4
  <2> QED BY <2>5 DEF x, y, a
<1>5. ASSUME NEW b \in 1..k PROVE blocks[b] \in Cells
  <2>1. \A w \in 1..B : p[(b - 1) * B + w] \in Words
    BY <1>2, <1>4
  <2> QED BY <1>3, <2>1 DEF Cells, B
<1>6. Len(blocks) = k /\ DOMAIN blocks = 1..k
  BY <1>3
<1>7. blocks \in [1..k -> Cells]
  BY <1>3, <1>5
<1>8. \A b \in 1..k, w \in 1..B : blocks[b][w] = p[(b - 1) * B + w]
  BY <1>3
<1> QED BY <1>6, <1>7, <1>8 DEF blocks, p, B

LEMMA ChainRuns ==
  ASSUME NEW key \in Keys, NEW iv \in Cells, NEW s, NEW k \in Nat,
         Len(InBlocks(Padded(s))) = k, InBlocks(Padded(s)) \in [1..k -> Cells]
  PROVE  \E c : /\ ChainRun(c, key, iv, InBlocks(Padded(s)), k)
                /\ EncryptCbc(key, iv, s) = [b \in 1..k |-> c[b]]
<1> DEFINE blocks == InBlocks(Padded(s))
           F(f) == [b \in 0..Len(blocks) |->
                      IF b = 0 THEN iv ELSE Enc(key, XorBlocks(blocks[b], f[b - 1]))]
           u == CHOOSE f : f = F(f)
           step == [p \in Cells \X (1..k) |-> Enc(key, XorBlocks(blocks[p[2]], p[1]))]
<1>1. EncryptCbc(key, iv, s) = [b \in 1..k |-> u[b]]
  BY DEF EncryptCbc
<1>2. blocks \in [1..k -> Cells] /\ Len(blocks) = k
  OBVIOUS
<1> HIDE DEF blocks
<1>3. ASSUME NEW y \in Cells, NEW b \in 1..k
      PROVE  Enc(key, XorBlocks(blocks[b], y)) \in Cells
  <2>1. XorBlocks(blocks[b], y) \in Cells
    BY <1>2, XorTwice
  <2> QED BY <2>1, CipherAssumption DEF Keys
<1>4. \A y \in Cells, b \in 1..k : /\ step[<<y, b>>] = Enc(key, XorBlocks(blocks[b], y))
                                   /\ step[<<y, b>>] \in Cells
  BY <1>3
<1> HIDE DEF step
<1>5. PICK f \in [0..k -> Cells] : f[0] = iv /\ \A b \in 1..k : f[b] = step[<<f[b - 1], b>>]
  <2>1. \E f : Runs(f, Cells, iv, step, k)
    BY <1>4, Recursion
  <2> QED BY <2>1 DEF Runs
<1>6. f = F(f)
  <2>1. ASSUME NEW b \in 0..k
        PROVE  f[b] = IF b = 0 THEN iv ELSE Enc(key, XorBlocks(blocks[b], f[b - 1]))
    <3>1. b = 0 \/ (b \in 1..k /\ b - 1 \in 0..k)
      OBVIOUS
    <3>2. ASSUME b \in 1..k, b - 1 \in 0..k
          PROVE  f[b] = Enc(key, XorBlocks(blocks[b], f[b - 1]))
      <4>1. f[b - 1] \in Cells /\ f[b] = step[<<f[b - 1], b>>]
        BY <1>5, <3>2
      <4> QED BY <1>4, <3>2, <4>1
    <3> QED BY <1>5, <3>1, <3>2
  <2> QED BY <1>2, <1>5, <2>1
<1>7. u = F(u)
  <2> HIDE DEF F
  <2> QED BY <1>6
<1> HIDE DEF u
<1>8. \A b \in 0..k : u[b] = IF b = 0 THEN iv ELSE Enc(key, XorBlocks(blocks[b], u[b - 1]))
  BY <1>2, <1>7
<1>9. u[0] = iv /\ \A b \in 1..k : u[b] = Enc(key, XorBlocks(blocks[b], u[b - 1]))
  <2>1. \A b \in 1..k : b \in 0..k /\ b # 0
    OBVIOUS
  <2>2. 0 \in 0..k
    OBVIOUS
  <2> QED BY <1>8, <2>1, <2>2
<1>10. \A b \in 0..k : u[b] \in Cells
  <2> DEFINE S == {b \in 0..k : u[b] \in Cells}
  <2>1. 0 \in S
    BY <1>9
  <2>2. ASSUME NEW b \in 1..k, b - 1 \in S PROVE b \in S
    <3>1. u[b - 1] \in Cells /\ b \in 0..k
      BY <2>2
    <3>2. Enc(key, XorBlocks(blocks[b], u[b - 1])) \in Cells
      BY <1>3, <3>1
    <3>3. u[b] \in Cells
      BY <1>9, <3>2
    <3> QED BY <3>1, <3>3
  <2> HIDE DEF S
  <2>3. \A b \in 0..k : b \in S
    BY <2>1, <2>2, Induct
  <2> QED BY <2>3 DEF S
<1>11. u \in [0..k -> Cells]
  BY <1>2, <1>7, <1>10
<1>12. ChainRun(u, key, iv, blocks, k)
  BY <1>9, <1>11 DEF ChainRun
<1> QED BY <1>1, <1>12 DEF blocks

(* From the second block on, decryption with any initialization vector      *)
(* gives the block that was encrypted.                                      *)
LEMMA ChainUndone ==
  ASSUME NEW key \in Keys, NEW iv \in Cells, NEW zero \in Cells, NEW k \in Nat,
         NEW blocks \in [1..k -> Cells], NEW c, ChainRun(c, key, iv, blocks, k), NEW e,
         e = [b \in 1..k |-> c[b]]
  PROVE  /\ Len(DecryptBlocks(key, zero, e)) = k
         /\ DecryptBlocks(key, zero, e) \in [1..k -> Cells]
         /\ \A b \in 2..k : DecryptBlocks(key, zero, e)[b] = blocks[b]
<1> DEFINE x == DecryptBlocks(key, zero, e)
<1>1. Len(e) = k /\ \A b \in 1..k : e[b] = c[b]
  OBVIOUS
<1>2. x = [b \in 1..k |-> XorBlocks(Dec(key, e[b]), IF b = 1 THEN zero ELSE e[b - 1])]
  BY <1>1 DEF DecryptBlocks
<1> HIDE DEF x
<1>3. ASSUME NEW b \in 1..k
      PROVE  /\ c[b] \in Cells /\ c[b - 1] \in Cells /\ blocks[b] \in Cells
             /\ Dec(key, c[b]) = XorBlocks(blocks[b], c[b - 1])
             /\ XorBlocks(blocks[b], c[b - 1]) \in Cells
  <2>1. b \in 0..k /\ b - 1 \in 0..k
    OBVIOUS
  <2>2. c[b] \in Cells /\ c[b - 1] \in Cells /\ c[b] = Enc(key, XorBlocks(blocks[b], c[b - 1]))
    BY <2>1 DEF ChainRun
  <2>3. blocks[b] \in Cells
    OBVIOUS
  <2>4. XorBlocks(blocks[b], c[b - 1]) \in Cells
    BY <2>2, <2>3, XorTwice
  <2>5. Dec(key, Enc(key, XorBlocks(blocks[b], c[b - 1]))) = XorBlocks(blocks[b], c[b - 1])
    BY <2>4, CipherAssumption DEF Keys
  <2> QED BY <2>2, <2>3, <2>4, <2>5
<1>4. ASSUME NEW b \in 1..k, NEW y \in Cells
      PROVE  XorBlocks(Dec(key, e[b]), y) \in Cells
  BY <1>1, <1>3, XorTwice
<1>5. ASSUME NEW b \in 1..k PROVE x[b] \in Cells
  <2>1. CASE b = 1
    BY <1>2, <1>4, <2>1
  <2>2. CASE b # 1
    <3>1. b - 1 \in 1..k
      BY <2>2
    <3>2. e[b - 1] \in Cells
      BY <1>1, <1>3, <3>1
    <3>3. x[b] = XorBlocks(Dec(key, e[b]), e[b - 1])
      BY <1>2, <2>2
    <3> QED BY <1>4, <3>2, <3>3
  <2> QED BY <2>1, <2>2
<1>6. ASSUME NEW b \in 2..k PROVE x[b] = blocks[b]
  <2>1. b \in 1..k /\ b - 1 \in 1..k /\ b # 1
    OBVIOUS
  <2>2. x[b] = XorBlocks(Dec(key, e[b]), e[b - 1])
    BY <1>2, <2>1
  <2>3. x[b] = XorBlocks(XorBlocks(blocks[b], c[b - 1]), c[b - 1])
    BY <1>1, <1>3, <2>1, <2>2
  <2>4. blocks[b] \in Cells /\ c[b - 1] \in Cells
    BY <1>3, <2>1
  <2> QED BY <2>3, <2>4, XorTwice
<1>7. x \in [1..k -> Cells] /\ Len(x) = k
  BY <1>2, <1>5
<1> QED BY <1>6, <1>7 DEF x

LEMMA FlatFacts ==
  ASSUME NEW k \in Nat, NEW x \in [1..k -> Cells], Len(x) = k
  PROVE  /\ Flat(x) \in Seq(Words) /\ Len(Flat(x)) = k * BlockWords
         /\ \A n \in 1..(k * BlockWords) :
              Flat(x)[n] = x[((n - 1) \div BlockWords) + 1][((n - 1) % BlockWords) + 1]
<1> DEFINE B == BlockWords
           row(n) == ((n - 1) \div B) + 1
           col(n) == ((n - 1) % B) + 1
           m == k * B
<1>1. B \in Nat \ {0}
  BY CipherHas DEF CipherFacts
<1>2. Flat(x) = [n \in 1..m |-> x[row(n)][col(n)]]
  BY DEF Flat
<1>3. m \in Nat
  BY <1>1
<1> HIDE DEF m
<1>4. ASSUME NEW n \in 1..m PROVE x[row(n)][col(n)] \in Words
  <2> DEFINE a == (n - 1) \div B
             r == (n - 1) % B
  <2>1. a \in 0..(k - 1) /\ r \in 0..(B - 1)
    BY <1>1, RowFacts DEF m
  <2> HIDE DEF a, r
  <2>2. a + 1 \in 1..k /\ r + 1 \in 1..B
    BY <1>1, <2>1
  <2>3. x[a + 1] \in Cells
    BY <2>2
  <2>4. x[a + 1][r + 1] \in Words
    BY <2>2, <2>3 DEF Cells
  <2> QED BY <2>4 DEF a, r
<1> DEFINE y == [n \in 1..m |-> x[row(n)][col(n)]]
<1>5. y \in [1..m -> Words] /\ \A n \in 1..m : y[n] = x[row(n)][col(n)]
  BY <1>4
<1> HIDE DEF y, row, col
<1>6. y \in Seq(Words) /\ Len(y) = m
  BY <1>3, <1>5
<1>7. Flat(x) = y
  BY <1>2 DEF y
<1> QED BY <1>5, <1>6, <1>7 DEF m, row, col

LEMMA ZeroIsCell == ZeroBlock \in Cells
<1>1. 0 \in Words
  BY CipherHas DEF CipherFacts, Words
<1> QED BY <1>1 DEF ZeroBlock, Cells

(* What the server decrypts is the padded signature, but for the first      *)
(* block.                                                                   *)
Opened(key, iv, s) == Flat(DecryptBlocks(key, ZeroBlock, EncryptCbc(key, iv, s)))

LEMMA OpenedFacts ==
  ASSUME NEW s \in Sigs, NEW key \in Keys, NEW iv \in Ivs
  PROVE  \E n \in 1..BlockWords :
           /\ Opened(key, iv, s) \in Seq(Words) /\ Len(Opened(key, iv, s)) = NumHash + n
           /\ \A j \in (BlockWords + 1)..NumHash : Opened(key, iv, s)[j] = s[j]
           /\ \A j \in (NumHash + 1)..(NumHash + n) : Opened(key, iv, s)[j] = n
<1> DEFINE p == Padded(s)
           B == BlockWords
           e == EncryptCbc(key, iv, s)
           x == DecryptBlocks(key, ZeroBlock, e)
           blocks == InBlocks(p)
<1>1. PICK k \in Nat, n \in 1..BlockWords :
        /\ NumHash + n = k * B /\ p \in Seq(Words) /\ Len(p) = k * B
        /\ \A j \in 1..NumHash : p[j] = s[j]
        /\ \A j \in (NumHash + 1)..(NumHash + n) : p[j] = n
        /\ Len(p) \div B = k
  BY PaddedFacts
<1>2. iv \in Cells /\ ZeroBlock \in Cells
  BY CipherAssumption, ZeroIsCell
<1>3. /\ Len(blocks) = k /\ blocks \in [1..k -> Cells]
      /\ \A b \in 1..k, w \in 1..B : blocks[b][w] = p[(b - 1) * B + w]
  BY <1>1, BlockFacts
<1>4. PICK c : ChainRun(c, key, iv, blocks, k) /\ e = [b \in 1..k |-> c[b]]
  BY <1>2, <1>3, ChainRuns
<1> HIDE DEF blocks, e, p
<1>5. /\ Len(x) = k /\ x \in [1..k -> Cells]
      /\ \A b \in 2..k : x[b] = blocks[b]
  <2>1. e = [b \in 1..k |-> c[b]] /\ ChainRun(c, key, iv, blocks, k)
    BY <1>4
  <2>2. blocks \in [1..k -> Cells]
    BY <1>3
  <2> DEFINE zero == ZeroBlock
  <2>3. zero \in Cells
    BY <1>2
  <2> HIDE DEF zero
  <2>4. /\ Len(DecryptBlocks(key, zero, e)) = k
        /\ DecryptBlocks(key, zero, e) \in [1..k -> Cells]
        /\ \A b \in 2..k : DecryptBlocks(key, zero, e)[b] = blocks[b]
    BY <1>2, <2>1, <2>2, <2>3, ChainUndone
  <2> QED BY <2>4 DEF zero
<1> HIDE DEF x
<1>6. /\ Flat(x) \in Seq(Words) /\ Len(Flat(x)) = k * B
      /\ \A j \in 1..(k * B) : Flat(x)[j] = x[((j - 1) \div B) + 1][((j - 1) % B) + 1]
  BY <1>5, FlatFacts
<1>7. B \in Nat \ {0} /\ NumHash \in Nat /\ B <= NumHash
  BY CipherHas DEF CipherFacts
<1> HIDE DEF B
<1>8. ASSUME NEW j \in 1..(k * B), j > B PROVE Flat(x)[j] = p[j]
  <2> DEFINE a == (j - 1) \div B
             r == (j - 1) % B
  <2>1. /\ a \in 0..(k - 1) /\ r \in 0..(B - 1) /\ a * B + (r + 1) = j /\ a >= 1
        /\ Flat(x)[j] = x[a + 1][r + 1]
    BY <1>6, <1>7, <1>8, RowFacts
  <2> HIDE DEF a, r
  <2>2. a + 1 \in 2..k /\ a + 1 \in 1..k /\ r + 1 \in 1..B /\ (a + 1) - 1 = a
    BY <1>7, <2>1
  <2>3. Flat(x)[j] = blocks[a + 1][r + 1]
    BY <1>5, <2>1, <2>2
  <2>4. blocks[a + 1][r + 1] = p[a * B + (r + 1)]
    BY <1>3, <2>2
  <2> QED BY <2>1, <2>3, <2>4
<1>9. n \in 1..B /\ k * B = NumHash + n
  BY <1>1 DEF B
<1> DEFINE f == Flat(x)
<1> HIDE DEF f
<1>10. \A j \in 1..(NumHash + n) : j > B => f[j] = p[j]
  BY <1>8, <1>9 DEF f
<1>11. f \in Seq(Words) /\ Len(f) = NumHash + n
  BY <1>6, <1>9 DEF f
<1>12. ASSUME NEW j \in (B + 1)..NumHash PROVE f[j] = s[j]
  <2>1. j \in 1..NumHash /\ j \in 1..(NumHash + n) /\ j > B
    BY <1>7, <1>9
  <2> QED BY <1>1, <1>10, <2>1
<1>13. ASSUME NEW j \in (NumHash + 1)..(NumHash + n) PROVE f[j] = n
  <2>1. j \in 1..(NumHash + n) /\ j > B
    BY <1>7, <1>9
  <2> QED BY <1>1, <1>10, <2>1
<1>14. Opened(key, iv, s) = f
  BY DEF Opened, f, x, e
<1> QED BY <1>9, <1>11, <1>12, <1>13, <1>14 DEF B

(* Only the first block is not what was sent.                               *)
Delivered(t, s) ==
  Len(t) = NumHash /\ \A h \in (BlockWords + 1)..NumHash : t[h] = s[h]

LEMMA SignatureArrives ==
  ASSUME NEW s \in Sigs, NEW key \in Keys, NEW iv \in Ivs
  PROVE  /\ WellPadded(Opened(key, iv, s))
         /\ Delivered(DecryptSignature(Opened(key, iv, s)), s)
<1> DEFINE f == Opened(key, iv, s)
<1>1. PICK n \in 1..BlockWords :
        /\ f \in Seq(Words) /\ Len(f) = NumHash + n
        /\ \A j \in (BlockWords + 1)..NumHash : f[j] = s[j]
        /\ \A j \in (NumHash + 1)..(NumHash + n) : f[j] = n
  BY OpenedFacts
<1> HIDE DEF f
<1>2. BlockWords \in Nat \ {0} /\ NumHash \in Nat /\ BlockWords <= NumHash /\ n \in Nat
  BY CipherHas DEF CipherFacts
<1>3. f[Len(f)] = n
  <2>1. NumHash + n \in (NumHash + 1)..(NumHash + n)
    BY <1>2
  <2> QED BY <1>1, <2>1
<1>4. Len(f) - n + 1 = NumHash + 1 /\ Len(f) - n = NumHash
  BY <1>1, <1>2
<1>5. WellPadded(f)
  <2>1. PaddedBy(f, n)
    BY <1>1, <1>4 DEF PaddedBy
  <2> QED BY <1>3, <2>1 DEF WellPadded
<1>6. Min({NumHash, Len(f) - f[Len(f)]}) = NumHash
  <2>1. {NumHash, Len(f) - f[Len(f)]} = {NumHash}
    BY <1>3, <1>4
  <2>2. {NumHash} \in SUBSET Int /\ NumHash \in {NumHash} /\ \A y \in {NumHash} : NumHash <= y
    BY <1>2
  <2>3. Min({NumHash}) = NumHash
    BY <2>2, MinIs
  <2> QED BY <2>1, <2>3
<1>7. DecryptSignature(f) = SubSeq(f, 1, NumHash)
  BY <1>6 DEF DecryptSignature
<1>8. /\ Len(SubSeq(f, 1, NumHash)) = NumHash
      /\ \A h \in 1..NumHash : SubSeq(f, 1, NumHash)[h] = f[h]
  <2>1. f \in Seq(Words) /\ NumHash \in 0..Len(f)
    BY <1>1, <1>2
  <2>2. \A h \in 1..NumHash : 1 + h - 1 = h
    BY <1>2
  <2> QED BY <1>2, <2>1, <2>2
<1>9. \A h \in (BlockWords + 1)..NumHash : h \in 1..NumHash
  BY <1>2
<1>10. Delivered(DecryptSignature(f), s)
  BY <1>1, <1>7, <1>8, <1>9 DEF Delivered
<1> QED BY <1>5, <1>10 DEF f

-----------------------------------------------------------------------------
(* Counting.  Hash functions are numbered from 0, words of a signature from *)
(* 1; and what changes in one block changes a count by no more than that.   *)

SameHashes(a, b) == {h \in Hashes : a[h + 1] = b[h + 1]}
SameWords(a, b)  == {h \in 1..NumHash : a[h] = b[h]}

LEMMA ShiftedCount ==
  ASSUME NEW a, NEW b
  PROVE  /\ IsFiniteSet(SameWords(a, b))
         /\ Cardinality(SameHashes(a, b)) = Cardinality(SameWords(a, b))
<1> DEFINE S == {h \in Hashes : a[h + 1] = b[h + 1]}
           T == {h \in 1..NumHash : a[h] = b[h]}
           f == [h \in S |-> h + 1]
<1>1. NumHash \in Nat
  BY SignaturesAssumption
<1>2. IsFiniteSet(S)
  <2>1. S \subseteq 0..(NumHash - 1) /\ 0 \in Int /\ NumHash - 1 \in Int
    BY <1>1 DEF Hashes
  <2>2. IsFiniteSet(0..(NumHash - 1))
    BY <2>1, FS_Interval
  <2> HIDE DEF S
  <2> QED BY <2>1, <2>2, FS_Subset
<1>3. \A h \in S : h \in Int /\ f[h] = h + 1 /\ f[h] \in T
  BY <1>1 DEF Hashes
<1>4. \A t \in T : t - 1 \in S /\ f[t - 1] = t
  <2> TAKE t \in T
  <2>1. t - 1 \in 0..(NumHash - 1) /\ (t - 1) + 1 = t
    BY <1>1
  <2>2. t - 1 \in S
    BY <2>1 DEF Hashes
  <2> QED BY <1>3, <2>1, <2>2
<1>5. f \in [S -> T]
  BY <1>3
<1> HIDE DEF f, S, T
<1>6. \A g, h \in S : f[g] = f[h] => g = h
  BY <1>3
<1>7. f \in Bijection(S, T)
  <2>1. f \in Injection(S, T)
    BY <1>5, <1>6 DEF Injection, IsInjective
  <2>2. f \in Surjection(S, T)
    BY <1>4, <1>5 DEF Surjection
  <2> QED BY <2>1, <2>2 DEF Bijection
<1>8. ExistsBijection(S, T)
  BY <1>7 DEF ExistsBijection
<1> QED BY <1>2, <1>8, FS_Bijection DEF S, T, SameHashes, SameWords

LEMMA CountsAreClose ==
  ASSUME NEW S, NEW T, IsFiniteSet(S), NEW n \in Nat, T \subseteq S \cup (1..n)
  PROVE  IsFiniteSet(T) /\ Cardinality(T) <= Cardinality(S) + n
<1>1. IsFiniteSet(1..n) /\ Cardinality(1..n) = n
  <2>1. 1 \in Int /\ n \in Int /\ (IF 1 > n THEN 0 ELSE n - 1 + 1) = n
    OBVIOUS
  <2> QED BY <2>1, FS_Interval
<1> DEFINE U == S \cup (1..n)
           I == S \cap (1..n)
<1>2. IsFiniteSet(U) /\ Cardinality(U) = Cardinality(S) + Cardinality(1..n) - Cardinality(I)
  BY <1>1, FS_Union
<1>3. IsFiniteSet(I)
  BY FS_Intersection
<1>4. T \in SUBSET U
  OBVIOUS
<1> HIDE DEF U, I
<1>5. IsFiniteSet(T) /\ Cardinality(T) <= Cardinality(U)
  BY <1>2, <1>4, FS_Subset
<1>6. Cardinality(S) \in Nat /\ Cardinality(I) \in Nat /\ Cardinality(U) \in Nat /\ Cardinality(T) \in Nat
  BY <1>2, <1>3, <1>5, FS_CardinalityType
<1> QED BY <1>1, <1>2, <1>5, <1>6

LEMMA AgreementArrives ==
  ASSUME NEW s, NEW t, NEW p, NEW q, Delivered(p, s), Delivered(q, t)
  PROVE  Agreement(p, q) - Cardinality(SameHashes(s, t)) \in (-BlockWords)..BlockWords
<1> DEFINE S == SameWords(s, t)
           T == SameWords(p, q)
<1>1. BlockWords \in Nat /\ NumHash \in Nat
  BY CipherHas DEF CipherFacts
<1>2. \A h \in 1..NumHash : h \in 1..BlockWords \/ (p[h] = s[h] /\ q[h] = t[h])
  <2> TAKE h \in 1..NumHash
  <2>1. h \in 1..BlockWords \/ h \in (BlockWords + 1)..NumHash
    BY <1>1
  <2> QED BY <2>1 DEF Delivered
<1>3. T \subseteq S \cup (1..BlockWords) /\ S \subseteq T \cup (1..BlockWords)
  BY <1>2 DEF SameWords
<1>4. IsFiniteSet(S) /\ Cardinality(SameHashes(s, t)) = Cardinality(S)
  BY ShiftedCount
<1>5. IsFiniteSet(T)
  BY ShiftedCount
<1>6. Agreement(p, q) = Cardinality(T)
  BY DEF Agreement, SameWords
<1> HIDE DEF S, T
<1>7. Cardinality(T) <= Cardinality(S) + BlockWords /\ Cardinality(S) <= Cardinality(T) + BlockWords
  BY <1>1, <1>3, <1>4, <1>5, CountsAreClose
<1>8. Cardinality(S) \in Nat /\ Cardinality(T) \in Nat
  BY <1>4, <1>5, FS_CardinalityType
<1> DEFINE x == Cardinality(S)
           y == Cardinality(T)
<1> HIDE DEF x, y
<1>9. y - x \in (-BlockWords)..BlockWords
  BY <1>1, <1>7, <1>8 DEF x, y
<1> QED BY <1>4, <1>6, <1>9 DEF x, y

-----------------------------------------------------------------------------
(* The invariant of the federation's side: a signature is of its text       *)
(* alone, a bucket of its signature, and what is sent of it too.            *)

TrueSig(t) == [h \in 1..NumHash |-> TrueMin(t, h - 1)]

HasSigs    == sig = [d \in Docs |-> TrueSig(input[d])]
HasBuckets == bucket = [d \in Docs |-> BucketId(sig[d])]
HasCiphers == \A d \in Docs : \E iv \in Ivs : cipher[d] = EncryptCbc(d, iv, sig[d])
HasPlain   == pc = "decrypted" /\ \A d \in Docs : Delivered(plain[d], sig[d])

BatchInv ==
  /\ pc \in FedPoints => input \in Batches
  /\ pc \in FedPoints \ {"hash"} => HasSigs
  /\ pc \in {"encrypt", "sent", "decrypted", "threw", "garbled"} => HasBuckets
  /\ pc = "sent" => HasCiphers
  /\ pc \in {"decrypted", "threw"} /\ replaced = {} => HasPlain

LEMMA BatchInit == SignInit => BatchInv
  BY DEF SignInit, BatchInv, FedPoints

LEMMA TrueSigFacts ==
  ASSUME input \in Batches, NEW d \in Docs
  PROVE  /\ [h \in 1..NumHash |-> MinHash(d, h - 1)] = TrueSig(input[d])
         /\ TrueSig(input[d]) \in Sigs
<1>1. d \in 1..Len(input) /\ NumHash \in Nat
  BY BatchFacts, SignaturesAssumption
<1>2. ASSUME NEW h \in 1..NumHash
      PROVE  MinHash(d, h - 1) = TrueMin(input[d], h - 1) /\ TrueMin(input[d], h - 1) \in Words
  <2>1. h - 1 \in Hashes
    BY <1>1 DEF Hashes
  <2> QED BY <1>1, <2>1, MinHashIsTrue
<1> QED BY <1>2 DEF TrueSig, Sigs

LEMMA BatchNext == BatchInv /\ [SignNext]_signvars => BatchInv'
<1> SUFFICES ASSUME BatchInv, [SignNext]_signvars PROVE BatchInv'
  OBVIOUS
<1>1. CASE LineTooShort \/ FirstWindowBegins \/ FirstWindow \/ RollingBegins \/ Roll \/ LineHashed
  <2>1. pc' \notin FedPoints
    BY <1>1 DEF LineTooShort, FirstWindowBegins, FirstWindow, RollingBegins, Roll, LineHashed,
                FedPoints
  <2> QED BY <2>1 DEF BatchInv, FedPoints
<1>2. CASE BatchSignatures
  <2>1. /\ pc' = "bucket" /\ input' = input /\ input \in Batches
        /\ sig' = [d \in Docs |-> [h \in 1..NumHash |-> MinHash(d, h - 1)]]
    BY <1>2 DEF BatchSignatures, BatchInv, FedPoints
  <2>2. sig' = [d \in Docs |-> TrueSig(input[d])]
    BY <2>1, TrueSigFacts
  <2>3. HasSigs'
    BY <2>1, <2>2 DEF HasSigs, Docs
  <2> QED BY <2>1, <2>3 DEF BatchInv
<1>3. CASE ChooseBuckets
  <2>1. /\ pc' = "encrypt" /\ input' = input /\ input \in Batches /\ sig' = sig /\ HasSigs
        /\ bucket' = [d \in Docs |-> BucketId(sig[d])]
    BY <1>3 DEF ChooseBuckets, BatchInv, FedPoints
  <2>2. HasSigs' /\ HasBuckets'
    BY <2>1 DEF HasSigs, HasBuckets, Docs
  <2> QED BY <2>1, <2>2 DEF BatchInv
<1>4. CASE EncryptSignatures
  <2>1. /\ pc' = "sent" /\ input' = input /\ input \in Batches /\ sig' = sig /\ HasSigs
        /\ bucket' = bucket /\ HasBuckets
    BY <1>4 DEF EncryptSignatures, BatchInv, FedPoints
  <2>2. PICK iv \in [Docs -> Ivs] : cipher' = [d \in Docs |-> EncryptCbc(d, iv[d], sig[d])]
    BY <1>4 DEF EncryptSignatures
  <2>3. HasSigs' /\ HasBuckets'
    BY <2>1 DEF HasSigs, HasBuckets, Docs
  <2>4. \A d \in Docs : \E x \in Ivs : cipher'[d] = EncryptCbc(d, x, sig[d])
    BY <2>2
  <2>5. HasCiphers'
    BY <2>1, <2>4 DEF HasCiphers, Docs
  <2> QED BY <2>1, <2>3, <2>5 DEF BatchInv
<1>5. CASE ReplaceKeys
  <2>1. /\ pc = "sent" /\ pc' = pc /\ input' = input /\ sig' = sig /\ bucket' = bucket
        /\ cipher' = cipher
    BY <1>5 DEF ReplaceKeys
  <2>2. (HasSigs => HasSigs') /\ (HasBuckets => HasBuckets') /\ (HasCiphers => HasCiphers')
    BY <2>1 DEF HasSigs, HasBuckets, HasCiphers, Docs
  <2> QED BY <2>1, <2>2 DEF BatchInv
<1>6. CASE DecryptOnCpu
  <2>1. /\ pc = "sent" /\ pc' \in {"decrypted", "threw"} /\ input' = input /\ sig' = sig
        /\ bucket' = bucket /\ replaced' = replaced /\ input \in Batches
        /\ HasSigs /\ HasBuckets /\ HasCiphers
    BY <1>6 DEF DecryptOnCpu, BatchInv, FedPoints
  <2>2. HasSigs' /\ HasBuckets'
    BY <2>1 DEF HasSigs, HasBuckets, Docs
  <2>3. ASSUME replaced = {} PROVE HasPlain'
    <3>1. ASSUME NEW d \in Docs
          PROVE  WellPadded(Decrypted(d)) /\ Delivered(DecryptSignature(Decrypted(d)), sig[d])
      <4>1. PICK iv \in Ivs : cipher[d] = EncryptCbc(d, iv, sig[d])
        BY <2>1 DEF HasCiphers
      <4>2. KeyOf(d) = d
        BY <2>3 DEF KeyOf
      <4>3. Decrypted(d) = Opened(d, iv, sig[d])
        BY <4>1, <4>2 DEF Decrypted, Opened
      <4>4. sig[d] \in Sigs
        BY <2>1, TrueSigFacts DEF HasSigs
      <4>5. d \in Keys
        BY <2>1 DEF Keys, Docs
      <4> QED BY <4>3, <4>4, <4>5, SignatureArrives
    <3>2. pc' = "decrypted" /\ plain' = [d \in Docs |-> DecryptSignature(Decrypted(d))]
      BY <1>6, <3>1 DEF DecryptOnCpu
    <3>3. \A d \in Docs : Delivered(plain'[d], sig[d])
      BY <3>1, <3>2
    <3> QED BY <2>1, <3>2, <3>3 DEF HasPlain, Docs
  <2> QED BY <2>1, <2>2, <2>3 DEF BatchInv
<1>7. CASE DecryptOnGpu
  <2>1. /\ pc' = "garbled" /\ input' = input /\ sig' = sig /\ bucket' = bucket /\ input \in Batches
        /\ HasSigs /\ HasBuckets
    BY <1>7 DEF DecryptOnGpu, BatchInv, FedPoints
  <2>2. HasSigs' /\ HasBuckets'
    BY <2>1 DEF HasSigs, HasBuckets, Docs
  <2> QED BY <2>1, <2>2 DEF BatchInv
<1>8. CASE UNCHANGED signvars
  <2>1. /\ pc' = pc /\ input' = input /\ sig' = sig /\ bucket' = bucket /\ cipher' = cipher
        /\ replaced' = replaced /\ plain' = plain
    BY <1>8 DEF signvars, batch
  <2> QED BY <2>1 DEF BatchInv, HasSigs, HasBuckets, HasCiphers, HasPlain, Docs
<1> QED BY <1>1, <1>2, <1>3, <1>4, <1>5, <1>6, <1>7, <1>8 DEF SignNext

LEMMA BatchArrives == BatchInv => SimilarityArrives
<1> SUFFICES ASSUME BatchInv, pc \in {"decrypted", "threw"}, replaced = {}
             PROVE  /\ pc = "decrypted"
                    /\ \A d, e \in Docs :
                         LET true == Cardinality({h \in Hashes :
                                       TrueMin(input[d], h) = TrueMin(input[e], h)})
                             got  == Agreement(plain[d], plain[e])
                         IN  /\ Len(plain[d]) = NumHash
                             /\ d # e => got - true \in (-BlockWords)..BlockWords
                             /\ Shingles(input[d]) = Shingles(input[e]) => bucket[d] = bucket[e]
  BY DEF SimilarityArrives
<1>1. HasSigs /\ HasBuckets /\ HasPlain /\ NumHash \in Nat
  BY SignaturesAssumption DEF BatchInv, FedPoints
<1> SUFFICES ASSUME NEW d \in Docs, NEW e \in Docs
             PROVE  /\ Len(plain[d]) = NumHash
                    /\ Agreement(plain[d], plain[e])
                         - Cardinality({h \in Hashes : TrueMin(input[d], h) = TrueMin(input[e], h)})
                         \in (-BlockWords)..BlockWords
                    /\ Shingles(input[d]) = Shingles(input[e]) => bucket[d] = bucket[e]
  BY <1>1 DEF HasPlain
<1> DEFINE s == TrueSig(input[d])
           t == TrueSig(input[e])
<1>2. sig[d] = s /\ sig[e] = t
  BY <1>1 DEF HasSigs
<1>3. Delivered(plain[d], s) /\ Delivered(plain[e], t)
  BY <1>1, <1>2 DEF HasPlain
<1>4. {h \in Hashes : TrueMin(input[d], h) = TrueMin(input[e], h)}
        = SameHashes(s, t)
  <2>1. \A h \in Hashes : s[h + 1] = TrueMin(input[d], h) /\ t[h + 1] = TrueMin(input[e], h)
    <3> TAKE h \in Hashes
    <3>1. h + 1 \in 1..NumHash /\ (h + 1) - 1 = h
      BY <1>1 DEF Hashes
    <3> QED BY <3>1 DEF TrueSig
  <2> QED BY <2>1 DEF SameHashes
<1>5. ASSUME Shingles(input[d]) = Shingles(input[e]) PROVE bucket[d] = bucket[e]
  <2>1. \A h : TrueMin(input[d], h) = TrueMin(input[e], h)
    BY <1>5 DEF TrueMin
  <2>2. s = t
    BY <2>1 DEF TrueSig
  <2>3. bucket[d] = BucketId(sig[d]) /\ bucket[e] = BucketId(sig[e])
    BY <1>1 DEF HasBuckets
  <2> QED BY <1>2, <2>2, <2>3
<1> HIDE DEF s, t
<1>6. Agreement(plain[d], plain[e]) - Cardinality(SameHashes(s, t)) \in (-BlockWords)..BlockWords
  BY <1>3, AgreementArrives
<1> QED BY <1>3, <1>4, <1>5, <1>6 DEF Delivered

(* compute_batch_signatures, encrypt_signature, decrypt_signature and       *)
(* calculate_bucket_id, for texts of any number and length, any parameters  *)
(* and any cipher that decrypts what it encrypts: with the key it was       *)
(* encrypted with, no signature throws or is cut short, what two texts have *)
(* in common arrives up to the words of one block, and texts with the same  *)
(* shingles are in the same bucket.                                         *)
THEOREM SimilarityIsDelivered == SignSpec => []SimilarityArrives
<1>1. BatchInv /\ [SignNext]_signvars => BatchInv'
  BY BatchNext
<1>2. SignInit => BatchInv
  BY BatchInit
<1>3. BatchInv => SimilarityArrives
  BY BatchArrives
<1> QED BY <1>1, <1>2, <1>3, PTL DEF SignSpec
=============================================================================
