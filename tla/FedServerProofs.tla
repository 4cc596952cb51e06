-------------------------- MODULE FedServerProofs --------------------------
(* Theorems about FedServer for every set of threads, clients and documents.*)
EXTENDS FedServer, TLAPS

USE DEF shared, locals, ghosts

-----------------------------------------------------------------------------
(* Types.                                                                   *)

(* What a stored candidate names is a client and a bucket of the instance.  *)
LEMMA CandidateFields ==
  \A x \in Candidate :
    x.doc \in Docs /\ x.key \in Nat /\ Owner[x.doc] \in Clients /\ BucketOf[x.doc] \in Buckets
  BY ConstantsAssumption DEF Candidate, Buckets

(* A list of candidates names documents, and its members are candidates.    *)
LEMMA DocsOfType ==
  \A s \in Seq(Candidate) :
    DocsOf(s) \subseteq Docs /\ \A i \in DOMAIN s : s[i] \in Candidate
  BY CandidateFields DEF DocsOf

(* What a reply is made of.                                                 *)
Replies == [kind : ReplyKinds, ids : Seq(Docs), key : Nat]

(* The line that is about to enter its bucket.                              *)
LEMMA NextLine ==
  ASSUME TypeOK, NEW t \in Threads, pc[t] = "bucket"
  PROVE  Head(lines[t]) \in Candidate /\ Tail(lines[t]) \in Seq(Candidate)
<1>1. lines[t] \in Seq(Candidate) /\ lines[t] # <<>>
  BY DEF TypeOK
<1> QED BY <1>1

(* A block is made of lines of documents that were in none before.          *)
Distinct(s) == \A i, j \in DOMAIN s : s[i].doc = s[j].doc => i = j

LEMMA BlockTaken ==
  ASSUME TypeOK, NEW t \in Threads, TakeBlock(t)
  PROVE  \E block \in Seq(Candidate), more \in Nat :
           /\ Take(t, "block", NoClient, block, more)
           /\ Distinct(block) /\ DocsOf(block) \cap sent = {}
           /\ sent' = sent \cup DocsOf(block) /\ DocsOf(block) \subseteq Docs
<1>1. PICK n \in 0..MaxBlock, more \in 0..MaxMissing :
      \E ds \in [1..n -> Docs \ sent], ks \in [1..n -> 0..MaxKeys] :
        /\ \A i, j \in 1..n : ds[i] = ds[j] => i = j
        /\ \A i \in 1..n : ks[i] \in KeysHeld(Owner[ds[i]])
        /\ Take(t, "block", NoClient, [i \in 1..n |-> [doc |-> ds[i], key |-> ks[i]]], more)
        /\ sent' = sent \cup {ds[i] : i \in 1..n}
  BY Zenon DEF TakeBlock
<1>2. PICK ds \in [1..n -> Docs \ sent], ks \in [1..n -> 0..MaxKeys] :
        /\ \A i, j \in 1..n : ds[i] = ds[j] => i = j
        /\ Take(t, "block", NoClient, [i \in 1..n |-> [doc |-> ds[i], key |-> ks[i]]], more)
        /\ sent' = sent \cup {ds[i] : i \in 1..n}
  BY <1>1, Zenon
<1> DEFINE block == [i \in 1..n |-> [doc |-> ds[i], key |-> ks[i]]]
<1>3. n \in Nat /\ more \in Nat
  BY ConstantsAssumption
<1>4. \A i \in 1..n : [doc |-> ds[i], key |-> ks[i]] \in Candidate
  BY <1>2, ConstantsAssumption DEF Candidate
<1>5. block \in Seq(Candidate)
  BY <1>3, <1>4
<1>6. DocsOf(block) = {ds[i] : i \in 1..n} /\ Distinct(block)
  BY <1>2 DEF DocsOf, Distinct
<1>7. DocsOf(block) \cap sent = {} /\ DocsOf(block) \subseteq Docs
  BY <1>2, <1>6
<1> HIDE DEF block
<1>8. Take(t, "block", NoClient, block, more) /\ sent' = sent \cup DocsOf(block)
  BY <1>2, <1>6 DEF block
<1> QED BY <1>3, <1>5, <1>6, <1>7, <1>8

(* The type invariant holds when the process starts.                        *)
LEMMA InitType == Init => TypeOK
  BY ConstantsAssumption DEF Init, TypeOK, Points, Storing, Calculating, Answer, Reply, NoReply, Replies, Each, ReplyKinds

(* The end of the process leaves typed, empty containers.                   *)
LEMMA EndType == ASSUME TypeOK, NEW how \in {"terminated", "killed"}, End(how)
                 PROVE  TypeOK'
  BY ConstantsAssumption DEF End, TypeOK, Points, Storing, Calculating, Answer, Reply, NoReply, Replies, Each, ReplyKinds

(* Taking a request keeps the types.                                        *)
LEMMA RequestType == ASSUME TypeOK, NEW t \in Threads, Request(t) PROVE TypeOK'
<1> USE DEF TypeOK, Points, Storing, Calculating, Answer, Reply, NoReply, Replies, Each, ReplyKinds
<1>1. CASE TakeHello(t)
  BY SMTT(30), <1>1 DEF TakeHello, Take
<1>2. CASE TakeBlock(t)
  <2>1. PICK block \in Seq(Candidate), more \in Nat :
          /\ Take(t, "block", NoClient, block, more)
          /\ sent' = sent \cup DocsOf(block) /\ DocsOf(block) \subseteq Docs
    BY <1>2, BlockTaken
  <2> QED BY <2>1 DEF Take
<1>3. CASE TakeCalculate(t)
  BY SMTT(30), <1>3 DEF TakeCalculate, Take
<1>4. CASE TakeGetResults(t)
  BY SMTT(30), <1>4 DEF TakeGetResults, Take
<1>5. CASE HandleCandidates(t)
  <2>1. PICK c \in Clients : AnswerCandidates(t, c)
    BY <1>5 DEF HandleCandidates
  <2> QED BY SMTT(30), <2>1 DEF AnswerCandidates
<1>6. CASE HandleUnknown(t)
  BY <1>6 DEF HandleUnknown
<1>7. CASE HandleDataHeader(t)
  BY <1>7 DEF HandleDataHeader
<1>8. CASE HangUp(t)
  BY <1>8 DEF HangUp
<1> QED BY <1>1, <1>2, <1>3, <1>4, <1>5, <1>6, <1>7, <1>8 DEF Request

(* Storing a block of candidates keeps the types.                           *)
LEMMA UploadType == ASSUME TypeOK, NEW t \in Threads, Upload(t) PROVE TypeOK'
<1> USE DEF TypeOK, Points, Storing, Calculating, Answer, Reply, NoReply, Replies, Each, ReplyKinds
<1>1. CASE BlockRefused(t)
  BY <1>1 DEF BlockRefused
<1>2. CASE BlockAccepted(t)
  BY <1>2 DEF BlockAccepted
<1>3. CASE SkipLine(t)
  <2>1. Tail(lines[t]) \in Seq(Candidate)
    BY <1>3 DEF SkipLine
  <2>2. lines' \in [Threads -> Seq(Candidate)]
        /\ \A u \in Threads : pc[u] = "bucket" => lines'[u] # <<>>
    BY <1>3, <2>1 DEF SkipLine
  <2>3. UNCHANGED <<shared, pc, who, missing, cursor, sigs, dups, reply, ghosts>>
    BY <1>3 DEF SkipLine
  <2> QED BY <2>2, <2>3
<1>4. CASE StoreCandidate(t)
  <2>1. Head(lines[t]).doc \in Docs
    BY <1>4, CandidateFields DEF StoreCandidate
  <2> QED BY <1>4, <2>1 DEF StoreCandidate
<1>5. CASE StoreInBucket(t)
  <2> DEFINE x == Head(lines[t])
  <2>1. x \in Candidate /\ Tail(lines[t]) \in Seq(Candidate)
    BY <1>5, NextLine DEF StoreInBucket
  <2>2. x.doc \in Docs
    BY <2>1, CandidateFields
  <2>3. bucket_candidates' \in [Buckets -> Seq(Candidate)]
    <3>1. BucketOf[x.doc] \in Buckets
      BY <2>1, CandidateFields
    <3>2. Append(bucket_candidates[BucketOf[x.doc]], x) \in Seq(Candidate)
      BY <2>1, <3>1
    <3> HIDE DEF x
    <3>3. \/ bucket_candidates' =
               [bucket_candidates EXCEPT ![BucketOf[x.doc]] = Append(@, x)]
          \/ UNCHANGED bucket_candidates
      BY <1>5 DEF StoreInBucket, x
    <3> QED BY <3>1, <3>2, <3>3
  <2> QED BY <1>5, <2>1, <2>2, <2>3 DEF StoreInBucket
<1>6. CASE BlockStored(t)
  BY <1>6 DEF BlockStored
<1>7. CASE LineThrows(t)
  BY <1>7, EndType DEF LineThrows
<1> QED BY <1>1, <1>2, <1>3, <1>4, <1>5, <1>6, <1>7 DEF Upload

(* The steps of a calculation keep the types.                               *)
LEMMA CalculateType == ASSUME TypeOK, NEW t \in Threads, Calculate(t) PROVE TypeOK'
<1> USE DEF TypeOK, Points, Storing, Calculating, Answer, Reply, NoReply, Replies, Each, ReplyKinds
<1>1. CASE CalculateRefused(t)
  BY <1>1 DEF CalculateRefused
<1>2. CASE CalculateStarts(t)
  BY <1>2 DEF CalculateStarts
<1>3. CASE ScanBucket(t)
  <2>1. PICK b \in Buckets :
          LET list == bucket_candidates[b] IN
          /\ cursor' = [cursor EXCEPT ![t] = b + 1]
          /\ seen' = seen \cup DocsOf(list)
          /\ \/ UNCHANGED <<pc, sigs, dups>>
             \/ \E v \in Verdicts(list) :
                  /\ pc' = [pc EXCEPT ![t] = "pairs"]
                  /\ sigs' = [sigs EXCEPT ![t] = list]
                  /\ dups' = [dups EXCEPT ![t] = v]
    BY <1>3 DEF ScanBucket
  <2> DEFINE list == bucket_candidates[b]
  <2>2. list \in Seq(Candidate)
    OBVIOUS
  <2>3. b \in Nat
    BY ConstantsAssumption DEF Buckets
  <2>4. DocsOf(list) \subseteq Docs
    BY <2>2, DocsOfType
  <2>5. \A v \in Verdicts(list) :
          v \subseteq (DOMAIN list) \X (DOMAIN list) /\ v \in SUBSET (Nat \X Nat)
    BY <2>2 DEF Verdicts, CrossPairs, Valid
  <2> HIDE DEF list
  <2>6. UNCHANGED <<shared, who, lines, missing, reply, issued, sent, taken>>
    BY <1>3 DEF ScanBucket
  <2>7. cursor' \in [Threads -> Nat] /\ seen' \subseteq Docs
    BY <2>1, <2>3, <2>4 DEF list
  <2>8. CASE UNCHANGED <<pc, sigs, dups>>
    BY <2>6, <2>7, <2>8
  <2>9. ASSUME NEW v \in Verdicts(list),
               pc' = [pc EXCEPT ![t] = "pairs"],
               sigs' = [sigs EXCEPT ![t] = list],
               dups' = [dups EXCEPT ![t] = v]
        PROVE  TypeOK'
    <3>1. sigs' \in [Threads -> Seq(Candidate)]
      BY <2>2, <2>9
    <3>2. /\ dups' \in [Threads -> SUBSET (Nat \X Nat)]
          /\ \A u \in Threads : dups'[u] \subseteq (DOMAIN sigs'[u]) \X (DOMAIN sigs'[u])
      BY <2>5, <2>9
    <3>3. pc' \in [Threads -> Points] /\ \A u \in Threads : pc'[u] = "bucket" => pc[u] = "bucket"
      BY <2>9
    <3> QED BY <2>6, <2>7, <3>1, <3>2, <3>3
  <2> QED BY <2>1, <2>8, <2>9 DEF list
<1>4. CASE DecryptThrows(t)
  BY <1>4, EndType DEF DecryptThrows
<1>5. CASE RecordPair(t)
  <2>1. \A p \in dups[t] : DocI(t, p) \in Docs /\ Owner[DocI(t, p)] \in Clients
    BY DocsOfType, CandidateFields DEF DocI
  <2>2. duplicate_docs' \in [Clients -> Seq(Docs)]
    <3>1. \/ UNCHANGED duplicate_docs
          \/ \E p \in dups[t] : duplicate_docs' =
               [duplicate_docs EXCEPT ![Owner[DocI(t, p)]] = Append(@, DocI(t, p))]
      BY <1>5 DEF RecordPair
    <3>2. ASSUME NEW p \in dups[t], duplicate_docs' =
                   [duplicate_docs EXCEPT ![Owner[DocI(t, p)]] = Append(@, DocI(t, p))]
          PROVE  duplicate_docs' \in [Clients -> Seq(Docs)]
      <4> DEFINE d == DocI(t, p)
      <4>1. d \in Docs /\ Owner[d] \in Clients
        BY <2>1
      <4> HIDE DEF d
      <4>2. duplicate_docs' = [duplicate_docs EXCEPT ![Owner[d]] = Append(duplicate_docs[Owner[d]], d)]
        BY <3>2 DEF d
      <4>3. Append(duplicate_docs[Owner[d]], d) \in Seq(Docs)
        BY <4>1
      <4> QED BY <4>1, <4>2, <4>3
    <3> QED BY <3>1, <3>2
  <2>3. \/ UNCHANGED dups
        \/ \E p \in dups[t] : dups' = [dups EXCEPT ![t] = @ \ {p}]
    BY <1>5 DEF RecordPair
  <2>4. pc' \in [Threads -> Points] /\ \A u \in Threads : pc'[u] = "bucket" => pc[u] = "bucket"
    BY <1>5 DEF RecordPair
  <2>5. UNCHANGED <<up, client_keys, candidates, bucket_candidates,
                    who, lines, missing, cursor, sigs, reply, ghosts>>
    BY <1>5 DEF RecordPair
  <2>6. /\ dups' \in [Threads -> SUBSET (Nat \X Nat)]
        /\ \A u \in Threads : dups'[u] \subseteq (DOMAIN sigs[u]) \X (DOMAIN sigs[u])
    <3>1. \A u \in Threads : dups'[u] \subseteq dups[u]
      BY <2>3
    <3>2. dups' \in [Threads -> SUBSET (Nat \X Nat)]
      <4>1. dups[t] \in SUBSET (Nat \X Nat)
        OBVIOUS
      <4>2. \A p : dups[t] \ {p} \in SUBSET (Nat \X Nat)
        BY <4>1
      <4>3. CASE UNCHANGED dups
        BY <4>3
      <4>4. ASSUME NEW p \in dups[t], dups' = [dups EXCEPT ![t] = @ \ {p}]
            PROVE  dups' \in [Threads -> SUBSET (Nat \X Nat)]
        BY <4>2, <4>4
      <4> QED BY <2>3, <4>3, <4>4
    <3> QED BY <3>1, <3>2
  <2> QED BY <2>2, <2>4, <2>5, <2>6
<1>6. CASE RecordPartner(t)
  <2>1. \A p \in dups[t] : DocJ(t, p) \in Docs /\ Owner[DocJ(t, p)] \in Clients
    BY DocsOfType, CandidateFields DEF DocJ
  <2>2. duplicate_docs' \in [Clients -> Seq(Docs)]
    <3>1. \/ UNCHANGED duplicate_docs
          \/ \E p \in dups[t] : duplicate_docs' =
               [duplicate_docs EXCEPT ![Owner[DocJ(t, p)]] = Append(@, DocJ(t, p))]
      BY <1>6 DEF RecordPartner
    <3>2. ASSUME NEW p \in dups[t], duplicate_docs' =
                   [duplicate_docs EXCEPT ![Owner[DocJ(t, p)]] = Append(@, DocJ(t, p))]
          PROVE  duplicate_docs' \in [Clients -> Seq(Docs)]
      <4> DEFINE d == DocJ(t, p)
      <4>1. d \in Docs /\ Owner[d] \in Clients
        BY <2>1
      <4> HIDE DEF d
      <4>2. duplicate_docs' = [duplicate_docs EXCEPT ![Owner[d]] = Append(duplicate_docs[Owner[d]], d)]
        BY <3>2 DEF d
      <4>3. Append(duplicate_docs[Owner[d]], d) \in Seq(Docs)
        BY <4>1
      <4> QED BY <4>1, <4>2, <4>3
    <3> QED BY <3>1, <3>2
  <2>3. \/ UNCHANGED dups
        \/ \E p \in dups[t] : dups' = [dups EXCEPT ![t] = @ \ {p}]
    BY <1>6 DEF RecordPartner
  <2>4. pc' \in [Threads -> Points] /\ \A u \in Threads : pc'[u] = "bucket" => pc[u] = "bucket"
    BY <1>6 DEF RecordPartner
  <2>5. UNCHANGED <<up, client_keys, candidates, bucket_candidates,
                    who, lines, missing, cursor, sigs, reply, ghosts>>
    BY <1>6 DEF RecordPartner
  <2>6. /\ dups' \in [Threads -> SUBSET (Nat \X Nat)]
        /\ \A u \in Threads : dups'[u] \subseteq (DOMAIN sigs[u]) \X (DOMAIN sigs[u])
    <3>1. \A u \in Threads : dups'[u] \subseteq dups[u]
      BY <2>3
    <3>2. dups' \in [Threads -> SUBSET (Nat \X Nat)]
      <4>1. dups[t] \in SUBSET (Nat \X Nat)
        OBVIOUS
      <4>2. \A p : dups[t] \ {p} \in SUBSET (Nat \X Nat)
        BY <4>1
      <4>3. CASE UNCHANGED dups
        BY <4>3
      <4>4. ASSUME NEW p \in dups[t], dups' = [dups EXCEPT ![t] = @ \ {p}]
            PROVE  dups' \in [Threads -> SUBSET (Nat \X Nat)]
        BY <4>2, <4>4
      <4> QED BY <2>3, <4>3, <4>4
    <3> QED BY <3>1, <3>2
  <2> QED BY <2>2, <2>4, <2>5, <2>6
<1>7. CASE BucketDone(t)
  BY <1>7 DEF BucketDone
<1>8. CASE LastBucketDone(t)
  BY <1>8 DEF LastBucketDone
<1>9. CASE ClearCandidates(t)
  BY <1>9 DEF ClearCandidates
<1>10. CASE ClearBuckets(t)
  BY <1>10 DEF ClearBuckets
<1> QED BY <1>1, <1>2, <1>3, <1>4, <1>5, <1>6, <1>7, <1>8, <1>9, <1>10 DEF Calculate

(* Every step of the server keeps the types.                                *)
LEMMA NextType == TypeOK /\ [Next]_vars => TypeOK'
<1> SUFFICES ASSUME TypeOK, [Next]_vars PROVE TypeOK'
  OBVIOUS
<1>1. CASE Kill
  BY <1>1, EndType DEF Kill
<1>2. CASE Restart
  BY <1>2 DEF Restart, TypeOK
<1>3. ASSUME NEW t \in Threads, Request(t) \/ Handler(t) \/ Finish(t)
      PROVE  TypeOK'
  <2>1. CASE Request(t)
    BY <2>1, RequestType
  <2>2. CASE Hello(t)
    <3>1. issued' \in [Clients -> Nat] /\ client_keys' \in [Clients -> Nat]
      <4>1. CASE who[t] \in Registered
        <5>1. who[t] \in Clients
          BY <4>1, ConstantsAssumption
        <5>2. /\ issued' = [issued EXCEPT ![who[t]] = issued[who[t]] + 1]
              /\ client_keys' = [client_keys EXCEPT ![who[t]] = issued[who[t]] + 1]
          BY <2>2, <4>1 DEF Hello
        <5> QED BY <5>1, <5>2 DEF TypeOK
      <4>2. CASE who[t] \notin Registered
        BY <2>2, <4>2 DEF Hello, TypeOK
      <4> QED BY <4>1, <4>2
    <3>2. pc' = [pc EXCEPT ![t] = "replied"]
      BY <2>2 DEF Hello, Answer
    <3>3. reply' \in [Threads -> Replies]
      <4>1. CASE who[t] \in Registered
        <5>1. who[t] \in Clients
          BY <4>1, ConstantsAssumption
        <5>2. issued[who[t]] + 1 \in Nat
          BY <5>1 DEF TypeOK
        <5>3. [Reply("PARAMS") EXCEPT !.key = issued[who[t]] + 1] \in Replies
          <6>1. ASSUME NEW k \in Nat PROVE [Reply("PARAMS") EXCEPT !.key = k] \in Replies
            <7>1. [Reply("PARAMS") EXCEPT !.key = k]
                    = [kind |-> "PARAMS", ids |-> <<>>, key |-> k]
              BY DEF Reply
            <7>2. "PARAMS" \in ReplyKinds /\ <<>> \in Seq(Docs)
              BY DEF ReplyKinds
            <7> QED BY <7>1, <7>2 DEF Replies
          <6> QED BY <5>2, <6>1
        <5>4. reply' = [reply EXCEPT ![t] = [Reply("PARAMS") EXCEPT !.key = issued[who[t]] + 1]]
          BY <2>2, <4>1 DEF Hello, Answer
        <5> QED BY <5>3, <5>4 DEF TypeOK, Replies
      <4>2. CASE who[t] \notin Registered
        <5>1. Reply("UNAUTHORIZED") \in Replies
          BY DEF Reply, Replies, ReplyKinds
        <5> QED BY <2>2, <4>2, <5>1 DEF Hello, Answer, TypeOK, Replies
      <4> QED BY <4>1, <4>2
    <3>4. UNCHANGED <<up, candidates, bucket_candidates, duplicate_docs, who,
                      lines, missing, cursor, sigs, dups, sent, taken, seen>>
      BY <2>2 DEF Hello
    <3> QED BY <3>1, <3>2, <3>3, <3>4 DEF TypeOK, Points, Replies
  <2>3. CASE Upload(t)
    BY <2>3, UploadType
  <2>4. CASE Calculate(t)
    BY <2>4, CalculateType
  <2>5. CASE GetResults(t)
    <3>1. pc' = [pc EXCEPT ![t] = "replied"]
      BY <2>5 DEF GetResults, Answer
    <3>2. reply' \in [Threads -> Replies]
      <4>1. PICK r : reply' = [reply EXCEPT ![t] = r]
                     /\ (\/ r = Reply("UNAUTHORIZED")
                         \/ /\ who[t] \in Registered
                            /\ r = [Reply("RESULTS") EXCEPT !.ids = duplicate_docs[who[t]]])
        BY <2>5 DEF GetResults, Answer
      <4>2. r \in Replies
        <5>1. \A c \in Registered : duplicate_docs[c] \in Seq(Docs)
          BY ConstantsAssumption DEF TypeOK
        <5>2. CASE r = Reply("UNAUTHORIZED")
          BY <5>2 DEF Reply, Replies, ReplyKinds
        <5>3. CASE r = [Reply("RESULTS") EXCEPT !.ids = duplicate_docs[who[t]]] /\ who[t] \in Registered
          BY <5>1, <5>3 DEF Reply, Replies, ReplyKinds
        <5> QED BY <4>1, <5>2, <5>3
      <4> QED BY <4>1, <4>2 DEF TypeOK, Replies
    <3>3. UNCHANGED <<shared, who, lines, missing, cursor, sigs, dups, ghosts>>
      BY <2>5 DEF GetResults
    <3> QED BY <3>1, <3>2, <3>3 DEF TypeOK, Points, Replies
  <2>6. CASE Finish(t)
    BY <2>6 DEF Finish, TypeOK, Points, Storing, Calculating, Reply, NoReply, ReplyKinds
  <2> QED BY <1>3, <2>1, <2>2, <2>3, <2>4, <2>5, <2>6 DEF Handler
<1>4. CASE UNCHANGED vars
  BY <1>4 DEF vars, TypeOK
<1> QED BY <1>1, <1>2, <1>3, <1>4 DEF Next

(* The containers and the threads keep their types, whatever requests the   *)
(* threads are handed and however their steps interleave.                   *)
THEOREM TypeCorrect == Spec => []TypeOK
  BY InitType, NextType, PTL DEF Spec

-----------------------------------------------------------------------------
(* Sequences of candidate lines.                                            *)

(* The empty list names no document.                                        *)
LEMMA DocsOfEmpty == DocsOf(<<>>) = {}
  BY DEF DocsOf

(* Pushing a candidate adds its document.                                   *)
LEMMA DocsOfAppend ==
  ASSUME NEW s \in Seq(Candidate), NEW x \in Candidate
  PROVE  DocsOf(Append(s, x)) = DocsOf(s) \cup {x.doc}
<1>1. \A i \in 1..Len(s) : Append(s, x)[i] = s[i]
  OBVIOUS
<1>2. Append(s, x)[Len(s) + 1] = x
  OBVIOUS
<1>3. DOMAIN Append(s, x) = 1..(Len(s) + 1) /\ DOMAIN s = 1..Len(s) /\ Len(s) \in Nat
  OBVIOUS
<1> QED BY <1>1, <1>2, <1>3 DEF DocsOf

(* Taking the first of distinct lines removes its document and no other.    *)
LEMMA DocsOfTail ==
  ASSUME NEW s \in Seq(Candidate), s # <<>>, Distinct(s)
  PROVE  /\ Head(s).doc \in DocsOf(s)
         /\ DocsOf(Tail(s)) = DocsOf(s) \ {Head(s).doc}
         /\ Distinct(Tail(s))
<1>1. /\ DOMAIN s = 1..Len(s) /\ Len(s) \in Nat /\ Len(s) >= 1
      /\ Head(s) = s[1]
      /\ DOMAIN Tail(s) = 1..(Len(s) - 1)
      /\ \A i \in 1..(Len(s) - 1) : Tail(s)[i] = s[i + 1]
  OBVIOUS
<1>2. \A i \in 2..Len(s) : i - 1 \in 1..(Len(s) - 1) /\ Tail(s)[i - 1] = s[i]
  BY <1>1
<1>3. Head(s).doc \in DocsOf(s)
  BY <1>1 DEF DocsOf
<1>4. \A i \in 2..Len(s) : s[i].doc # s[1].doc
  BY <1>1 DEF Distinct
<1>5. DocsOf(Tail(s)) \subseteq DocsOf(s) \ {Head(s).doc}
  BY <1>1, <1>4 DEF DocsOf
<1>6. DocsOf(s) \ {Head(s).doc} \subseteq DocsOf(Tail(s))
  BY <1>1, <1>2 DEF DocsOf
<1>7. Distinct(Tail(s))
  BY <1>1 DEF Distinct
<1> QED BY <1>3, <1>5, <1>6, <1>7

-----------------------------------------------------------------------------
(* A document is new, then a line of one block, then taken; it is never     *)
(* stored a second time.                                                    *)
Fresh ==
  /\ seen \subseteq taken
  /\ Stored \subseteq taken
  /\ taken \subseteq sent
  /\ \A t \in Threads : Distinct(lines[t]) /\ DocsOf(lines[t]) \subseteq sent \ taken
  /\ \A t, u \in Threads : t # u => DocsOf(lines[t]) \cap DocsOf(lines[u]) = {}

(* Empty buckets store nothing.                                             *)
LEMMA StoredEmpty ==
  bucket_candidates = Each(Buckets, <<>>) => Stored = {}
  BY DocsOfEmpty DEF Stored, Each

(* Pushing into a bucket adds one document to what is stored.               *)
LEMMA StoredAppend ==
  ASSUME TypeOK, NEW x \in Candidate,
         bucket_candidates' = [bucket_candidates EXCEPT ![BucketOf[x.doc]] = Append(@, x)]
  PROVE  Stored' = Stored \cup {x.doc}
<1> DEFINE b == BucketOf[x.doc]
<1>1. b \in Buckets
  BY CandidateFields
<1>2. bucket_candidates \in [Buckets -> Seq(Candidate)]
  BY DEF TypeOK
<1> HIDE DEF b
<1>3. bucket_candidates' = [bucket_candidates EXCEPT ![b] = Append(bucket_candidates[b], x)]
  BY DEF b
<1>4. DocsOf(bucket_candidates'[b]) = DocsOf(bucket_candidates[b]) \cup {x.doc}
  BY <1>1, <1>2, <1>3, DocsOfAppend
<1>5. \A a \in Buckets \ {b} : bucket_candidates'[a] = bucket_candidates[a]
  BY <1>1, <1>2, <1>3
<1> QED BY <1>1, <1>4, <1>5 DEF Stored

(* A thread that only drops lines of its block keeps Fresh.                 *)
LEMMA FreshLines ==
  ASSUME TypeOK, Fresh, NEW t \in Threads, NEW s \in Seq(Candidate),
         Distinct(s), DocsOf(s) \subseteq DocsOf(lines[t]),
         lines' = [lines EXCEPT ![t] = s],
         UNCHANGED <<sent, taken, seen, bucket_candidates>>
  PROVE  Fresh'
<1>1. lines \in [Threads -> Seq(Candidate)]
  BY DEF TypeOK
<1>2. lines'[t] = s /\ \A u \in Threads \ {t} : lines'[u] = lines[u]
  BY <1>1
<1>3. \A u \in Threads : Distinct(lines'[u]) /\ DocsOf(lines'[u]) \subseteq DocsOf(lines[u])
  BY <1>2 DEF Fresh
<1>4. Stored' = Stored
  BY DEF Stored
<1> QED BY <1>3, <1>4 DEF Fresh

(* A thread that drops all of its block keeps Fresh.                        *)
LEMMA FreshNoLines ==
  ASSUME TypeOK, Fresh, NEW t \in Threads,
         lines' = [lines EXCEPT ![t] = <<>>],
         UNCHANGED <<sent, taken, seen, bucket_candidates>>
  PROVE  Fresh'
<1>1. <<>> \in Seq(Candidate) /\ Distinct(<<>>)
  BY DEF Distinct
<1>2. DocsOf(<<>>) \subseteq DocsOf(lines[t])
  BY DocsOfEmpty
<1> QED BY <1>1, <1>2, FreshLines

(* The empty block has no repeated line.                                    *)
LEMMA DistinctEmpty == Distinct(<<>>)
  BY DEF Distinct

(* Fresh holds when the process starts.                                     *)
LEMMA FreshInit == Init => Fresh
  BY StoredEmpty, DocsOfEmpty, DistinctEmpty DEF Init, Fresh, Each

(* Fresh holds when the process has ended.                                  *)
LEMMA FreshEnd == ASSUME NEW how, End(how) PROVE Fresh'
<1>1. Stored' = {}
  BY DocsOfEmpty DEF End, Stored, Each
<1> QED BY <1>1, DocsOfEmpty, DistinctEmpty DEF End, Fresh, Each

(* A new block names documents that were never sent before.                 *)
LEMMA FreshTakeBlock ==
  ASSUME TypeOK, Fresh, NEW t \in Threads, TakeBlock(t)
  PROVE  Fresh'
<1>1. PICK block \in Seq(Candidate), more \in Nat :
        /\ Take(t, "block", NoClient, block, more)
        /\ Distinct(block) /\ DocsOf(block) \cap sent = {} /\ sent' = sent \cup DocsOf(block)
  BY BlockTaken
<1>2. lines' = [lines EXCEPT ![t] = block] /\ UNCHANGED <<taken, seen, bucket_candidates>>
  BY <1>1 DEF Take
<1>3. lines'[t] = block /\ \A u \in Threads \ {t} : lines'[u] = lines[u]
  BY <1>2 DEF TypeOK
<1>4. Stored' = Stored
  BY <1>2 DEF Stored
<1> QED BY <1>1, <1>2, <1>3, <1>4 DEF Fresh

(* A line is stored once: its document was in no container before.          *)
LEMMA FreshStoreInBucket ==
  ASSUME TypeOK, Fresh, NEW t \in Threads, StoreInBucket(t)
  PROVE  /\ Fresh'
         /\ Stored' \subseteq Stored \cup {Head(lines[t]).doc}
         /\ Head(lines[t]).doc \notin taken
<1> DEFINE x == Head(lines[t])
<1>1. lines[t] # <<>> /\ lines[t] \in Seq(Candidate) /\ Distinct(lines[t])
  BY DEF StoreInBucket, TypeOK, Fresh
<1>2. x \in Candidate
  BY <1>1
<1>3. /\ x.doc \in DocsOf(lines[t])
      /\ DocsOf(Tail(lines[t])) = DocsOf(lines[t]) \ {x.doc}
      /\ Distinct(Tail(lines[t]))
  BY <1>1, DocsOfTail
<1>4. Stored' = Stored \cup {x.doc} \/ Stored' = Stored
  <2>1. CASE bucket_candidates' = [bucket_candidates EXCEPT ![BucketOf[x.doc]] = Append(@, x)]
    BY <2>1, <1>2, StoredAppend
  <2>2. CASE UNCHANGED bucket_candidates
    BY <2>2 DEF Stored
  <2> QED BY <2>1, <2>2 DEF StoreInBucket
<1>5. /\ lines' = [lines EXCEPT ![t] = Tail(lines[t])]
      /\ taken' = taken \cup {x.doc}
      /\ UNCHANGED <<sent, seen>>
  BY DEF StoreInBucket
<1> HIDE DEF x
<1>6. lines'[t] = Tail(lines[t]) /\ \A u \in Threads \ {t} : lines'[u] = lines[u]
  BY <1>5 DEF TypeOK
<1>7. x.doc \in sent \ taken /\ \A u \in Threads \ {t} : x.doc \notin DocsOf(lines[u])
  BY <1>3 DEF Fresh
<1>8. Fresh'
  <2>1. seen' \subseteq taken' /\ Stored' \subseteq taken' /\ taken' \subseteq sent'
    BY <1>4, <1>5, <1>7 DEF Fresh
  <2>2. \A u \in Threads :
          /\ Distinct(lines'[u]) /\ DocsOf(lines'[u]) \subseteq DocsOf(lines[u])
          /\ x.doc \notin DocsOf(lines'[u])
    BY <1>3, <1>6, <1>7 DEF Fresh
  <2>3. \A u \in Threads :
          Distinct(lines'[u]) /\ DocsOf(lines'[u]) \subseteq sent' \ taken'
    BY <2>2, <1>5 DEF Fresh
  <2>4. \A u, v \in Threads : u # v => DocsOf(lines'[u]) \cap DocsOf(lines'[v]) = {}
    BY <2>2 DEF Fresh
  <2> QED BY <2>1, <2>3, <2>4 DEF Fresh, Distinct, DocsOf
<1> QED BY <1>4, <1>7, <1>8 DEF x

(* Every step of the server keeps Fresh.                                    *)
LEMMA FreshNext == TypeOK /\ Fresh /\ [Next]_vars => Fresh'
<1> SUFFICES ASSUME TypeOK, Fresh, [Next]_vars PROVE Fresh'
  OBVIOUS
<1>1. ASSUME UNCHANGED <<lines, sent, taken, seen, bucket_candidates>>
      PROVE  Fresh'
  BY <1>1 DEF Fresh, Stored
<1>2. CASE Kill
  BY <1>2, FreshEnd DEF Kill
<1>3. CASE Restart
  BY <1>3, <1>1 DEF Restart
<1>4. CASE UNCHANGED vars
  BY <1>4, <1>1 DEF vars
<1>5. ASSUME NEW t \in Threads, Request(t) PROVE Fresh'
  <2>1. ASSUME NEW point, NEW c, Take(t, point, c, <<>>, 0), UNCHANGED sent PROVE Fresh'
    BY <2>1, FreshNoLines DEF Take
  <2>2. CASE TakeBlock(t)
    BY <2>2, FreshTakeBlock
  <2>3. CASE HandleCandidates(t) \/ HandleDataHeader(t) \/ HandleUnknown(t) \/ HangUp(t)
    BY <2>3, <1>1 DEF HandleCandidates, AnswerCandidates, HandleDataHeader, HandleUnknown, HangUp
  <2> QED BY <1>5, <2>1, <2>2, <2>3
          DEF Request, TakeHello, TakeCalculate, TakeGetResults
<1>6. ASSUME NEW t \in Threads, Upload(t) PROVE Fresh'
  <2>1. CASE BlockRefused(t)
    BY <2>1, FreshNoLines DEF BlockRefused
  <2>2. CASE SkipLine(t)
    <3>1. lines[t] # <<>> /\ lines[t] \in Seq(Candidate) /\ Distinct(lines[t])
      BY <2>2 DEF SkipLine, TypeOK, Fresh
    <3>2. Tail(lines[t]) \in Seq(Candidate)
      BY <3>1
    <3> QED BY <2>2, <3>1, <3>2, DocsOfTail, FreshLines DEF SkipLine
  <2>3. CASE StoreInBucket(t)
    BY <2>3, FreshStoreInBucket
  <2>4. CASE BlockAccepted(t) \/ StoreCandidate(t) \/ BlockStored(t)
    BY <2>4, <1>1 DEF BlockAccepted, StoreCandidate, BlockStored
  <2>5. CASE LineThrows(t)
    BY <2>5, FreshEnd DEF LineThrows
  <2> QED BY <1>6, <2>1, <2>2, <2>3, <2>4, <2>5 DEF Upload
<1>7. ASSUME NEW t \in Threads, Calculate(t) PROVE Fresh'
  <2>1. CASE ScanBucket(t)
    <3>1. PICK b \in Buckets : seen' = seen \cup DocsOf(bucket_candidates[b])
      BY <2>1 DEF ScanBucket
    <3>2. DocsOf(bucket_candidates[b]) \subseteq Stored
      BY DEF Stored
    <3>3. UNCHANGED <<lines, sent, taken, bucket_candidates>>
      BY <2>1 DEF ScanBucket
    <3> QED BY <3>1, <3>2, <3>3 DEF Fresh, Stored
  <2>2. CASE DecryptThrows(t)
    BY <2>2, FreshEnd DEF DecryptThrows
  <2>3. CASE ClearBuckets(t)
    <3>1. Stored' = {}
      BY <2>3, DocsOfEmpty DEF ClearBuckets, Stored, Each
    <3> QED BY <2>3, <3>1 DEF ClearBuckets, Fresh
  <2>4. CASE CalculateRefused(t) \/ CalculateStarts(t) \/ RecordPair(t)
             \/ RecordPartner(t) \/ BucketDone(t) \/ LastBucketDone(t) \/ ClearCandidates(t)
    BY <2>4, <1>1 DEF CalculateRefused, CalculateStarts, RecordPair, RecordPartner,
                      BucketDone, LastBucketDone, ClearCandidates
  <2> QED BY <1>7, <2>1, <2>2, <2>3, <2>4 DEF Calculate
<1>8. ASSUME NEW t \in Threads, Hello(t) \/ GetResults(t) \/ Finish(t) PROVE Fresh'
  BY <1>8, <1>1 DEF Hello, GetResults, Finish
<1> QED BY <1>2, <1>3, <1>4, <1>5, <1>6, <1>7, <1>8 DEF Next, Handler

-----------------------------------------------------------------------------
(* What a calculation has gone over stays in a container only as long as    *)
(* some calculation has not yet cleared that container.                     *)
Comparing == {"scan", "pairs", "partner", "clear"}
Destroying ==
  /\ (\A t \in Threads : pc[t] \notin Comparing)   => seen \cap candidates = {}
  /\ (\A t \in Threads : pc[t] \notin Calculating) => seen \cap Stored = {}

(* Steps that stay in their phase and only remove documents keep Destroying.*)
LEMMA DestroyingQuiet ==
  ASSUME TypeOK, Destroying, NEW t \in Threads, NEW p,
         pc' = [pc EXCEPT ![t] = p],
         pc[t] \in Comparing => p \in Comparing,
         pc[t] \in Calculating => p \in Calculating,
         seen' = seen, candidates' \cap seen \subseteq candidates, Stored' \cap seen \subseteq Stored
  PROVE  Destroying'
<1>1. \A u \in Threads : /\ pc[u] \in Comparing => pc'[u] \in Comparing
                         /\ pc[u] \in Calculating => pc'[u] \in Calculating
  BY DEF TypeOK
<1> QED BY <1>1 DEF Destroying

(* Steps that touch neither phases nor containers keep Destroying.          *)
LEMMA DestroyingSame ==
  ASSUME TypeOK, Destroying, UNCHANGED <<pc, seen, candidates, bucket_candidates>>
  PROVE  Destroying'
  BY DEF Destroying, Stored

(* Every step of the server keeps Destroying.                               *)
LEMMA DestroyingNext == TypeOK /\ Fresh /\ Destroying /\ [Next]_vars => Destroying'
<1> SUFFICES ASSUME TypeOK, Fresh, Destroying, [Next]_vars PROVE Destroying'
  OBVIOUS
<1>0. UNCHANGED bucket_candidates => Stored' = Stored
  BY DEF Stored
<1>1. ASSUME NEW how, End(how) PROVE Destroying'
  BY <1>1 DEF End, Destroying
<1>2. CASE Kill \/ Restart \/ UNCHANGED vars
  BY <1>2, <1>1, DestroyingSame DEF Kill, Restart, vars
<1>3. ASSUME NEW t \in Threads, Request(t) PROVE Destroying'
  <2>1. ASSUME NEW point, NEW c, NEW block, NEW more, Take(t, point, c, block, more)
        PROVE  Destroying'
    BY <2>1, <1>0, DestroyingQuiet DEF Take, Comparing, Calculating
  <2>2. CASE HandleCandidates(t) \/ HandleDataHeader(t) \/ HandleUnknown(t) \/ HangUp(t)
    BY <2>2, <1>0, DestroyingQuiet
       DEF HandleCandidates, AnswerCandidates, HandleDataHeader, HandleUnknown, HangUp, Answer, Comparing, Calculating
  <2> QED BY <1>3, <2>1, <2>2
          DEF Request, TakeHello, TakeBlock, TakeCalculate, TakeGetResults
<1>4. ASSUME NEW t \in Threads, Upload(t) PROVE Destroying'
  <2>1. CASE BlockRefused(t) \/ BlockAccepted(t) \/ BlockStored(t)
    BY <2>1, <1>0, DestroyingQuiet
       DEF BlockRefused, BlockAccepted, BlockStored, Answer, Comparing, Calculating
  <2>2. CASE SkipLine(t)
    BY <2>2, DestroyingSame DEF SkipLine
  <2>3. CASE StoreCandidate(t)
    <3>1. lines[t] # <<>> /\ lines[t] \in Seq(Candidate) /\ Distinct(lines[t])
      BY <2>3 DEF StoreCandidate, TypeOK, Fresh
    <3>2. Head(lines[t]).doc \notin seen
      BY <3>1, DocsOfTail DEF Fresh
    <3>3. candidates' \cap seen \subseteq candidates
      BY <2>3, <3>2 DEF StoreCandidate
    <3> QED BY <2>3, <3>3, <1>0, DestroyingQuiet DEF StoreCandidate, Comparing, Calculating
  <2>4. CASE StoreInBucket(t)
    <3>1. Stored' \subseteq Stored \cup {Head(lines[t]).doc} /\ Head(lines[t]).doc \notin seen
      BY <2>4, FreshStoreInBucket DEF Fresh
    <3> QED BY <2>4, <3>1, DestroyingQuiet DEF StoreInBucket, Comparing, Calculating
  <2>5. CASE LineThrows(t)
    BY <2>5, <1>1 DEF LineThrows
  <2> QED BY <1>4, <2>1, <2>2, <2>3, <2>4, <2>5 DEF Upload
<1>5. ASSUME NEW t \in Threads, Calculate(t) PROVE Destroying'
  <2>1. CASE ScanBucket(t)
    <3>1. pc'[t] \in Comparing /\ pc'[t] \in Calculating
      BY <2>1 DEF ScanBucket, TypeOK, Comparing, Calculating
    <3> QED BY <3>1 DEF Destroying
  <2>2. CASE DecryptThrows(t)
    BY <2>2, <1>1 DEF DecryptThrows
  <2>3. CASE CalculateRefused(t) \/ CalculateStarts(t) \/ BucketDone(t) \/ LastBucketDone(t)
    BY <2>3, <1>0, DestroyingQuiet
       DEF CalculateRefused, CalculateStarts, BucketDone, LastBucketDone, Answer,
           Comparing, Calculating
  <2>4. CASE RecordPair(t) \/ RecordPartner(t)
    <3>1. PICK p \in {"pairs", "partner"} : pc' = [pc EXCEPT ![t] = p]
      BY <2>4 DEF RecordPair, RecordPartner, TypeOK
    <3>2. pc[t] \in {"pairs", "partner"} /\ UNCHANGED <<seen, candidates, bucket_candidates>>
      BY <2>4 DEF RecordPair, RecordPartner
    <3> QED BY <3>1, <3>2, <1>0, DestroyingQuiet DEF Comparing, Calculating
  <2>5. CASE ClearCandidates(t)
    <3>1. candidates' = {} /\ Stored' = Stored /\ seen' = seen
      BY <2>5, <1>0 DEF ClearCandidates
    <3>2. pc'[t] \in Calculating
      BY <2>5 DEF ClearCandidates, TypeOK, Calculating
    <3> QED BY <3>1, <3>2 DEF Destroying
  <2>6. CASE ClearBuckets(t)
    <3>1. Stored' = {}
      BY <2>6, DocsOfEmpty DEF ClearBuckets, Stored, Each
    <3>2. pc[t] \notin Comparing /\ \A u \in Threads : pc[u] \in Comparing => pc'[u] \in Comparing
      BY <2>6 DEF ClearBuckets, Answer, TypeOK, Comparing
    <3> QED BY <2>6, <3>1, <3>2 DEF ClearBuckets, Destroying
  <2> QED BY <1>5, <2>1, <2>2, <2>3, <2>4, <2>5, <2>6 DEF Calculate
<1>6. ASSUME NEW t \in Threads, Hello(t) \/ GetResults(t) \/ Finish(t) PROVE Destroying'
  BY <1>6, <1>0, DestroyingQuiet DEF Hello, GetResults, Finish, Answer, Comparing, Calculating
<1> QED BY <1>2, <1>3, <1>4, <1>5, <1>6 DEF Next, Handler

(* Once no calculation runs, nothing a calculation went over is held in     *)
(* either container, although uploads, calculations, key changes and kills  *)
(* interleave in any way.                                                   *)
THEOREM Destroyed == Spec => []SeenThenDestroyed
<1>1. Init => Destroying
  BY DEF Init, Destroying
<1>2. TypeOK /\ Fresh /\ Destroying => SeenThenDestroyed
  BY DEF Destroying, SeenThenDestroyed, Comparing, Calculating
<1> QED BY <1>1, <1>2, InitType, NextType, FreshInit, FreshNext, DestroyingNext, PTL DEF Spec

-----------------------------------------------------------------------------
(* While one thread at most stores or calculates, a calculation passes      *)
(* every bucket before it clears them.                                      *)
Writing(t) == pc[t] \in {"block", "calculate"} \cup Storing \cup Calculating
OneWriter  == \A t, u \in Threads : Writing(t) /\ Writing(u) => t = u
Passing ==
  /\ OneWriter
  /\ NothingLost
  /\ \A t \in Threads : pc[t] \in {"scan", "pairs", "partner"} =>
       \A b \in Buckets : b < cursor[t] => DocsOf(bucket_candidates[b]) \subseteq seen
  /\ \A t \in Threads : pc[t] \in {"clear", "clear_buckets"} => Stored \subseteq seen

(* Steps that leave the buckets and the history alone, and do not bring a   *)
(* thread into a phase with an obligation.                                  *)
LEMMA PassingQuiet ==
  ASSUME TypeOK, Passing, OneWriter', NEW t \in Threads, NEW p,
         pc' = [pc EXCEPT ![t] = p],
         UNCHANGED <<bucket_candidates, taken, seen>>,
         \/ p \notin Calculating
         \/ /\ pc[t] \in {"scan", "pairs", "partner"} /\ p \in {"scan", "pairs", "partner"}
            /\ cursor' = cursor
         \/ pc[t] \in {"clear", "clear_buckets"} /\ p \in {"clear", "clear_buckets"},
         \A u \in Threads \ {t} : cursor'[u] = cursor[u]
  PROVE  Passing'
<1>1. \A u \in Threads \ {t} : pc'[u] = pc[u]
  BY DEF TypeOK
<1>2. pc'[t] = p
  BY DEF TypeOK
<1>3. Stored' = Stored
  BY DEF Stored
<1> QED BY <1>1, <1>2, <1>3 DEF Passing, NothingLost, Calculating

(* Passing holds when the process starts.                                   *)
LEMMA PassingInit == Init => Passing
  BY DEF Init, Passing, NothingLost, OneWriter, Writing, Storing, Calculating, Each

(* Passing holds when the process has ended.                                *)
LEMMA PassingEnd == ASSUME NEW how, End(how) PROVE Passing'
<1>1. taken' = {} /\ \A t \in Threads : pc'[t] = "idle"
  BY DEF End, Each
<1> QED BY <1>1 DEF Passing, NothingLost, OneWriter, Writing, Storing, Calculating

(* Every step keeps Passing, as long as one thread at most writes.          *)
LEMMA PassingNext == TypeOK /\ Fresh /\ Passing /\ [Next /\ OneWriter']_vars => Passing'
<1> SUFFICES ASSUME TypeOK, Fresh, Passing, [Next /\ OneWriter']_vars PROVE Passing'
  OBVIOUS
<1>0. UNCHANGED bucket_candidates => Stored' = Stored
  BY DEF Stored
<1>1. ASSUME UNCHANGED <<pc, cursor, bucket_candidates, taken, seen>> PROVE Passing'
  BY <1>1, <1>0 DEF Passing, NothingLost, OneWriter, Writing
<1>2. CASE UNCHANGED vars
  BY <1>2, <1>1 DEF vars
<1>3. CASE Kill \/ Restart
  BY <1>3, <1>1, PassingEnd DEF Kill, Restart
<1> SUFFICES ASSUME OneWriter', NEW t \in Threads, Request(t) \/ Handler(t) \/ Finish(t)
             PROVE  Passing'
  BY <1>2, <1>3 DEF Next
<1>4. CASE Request(t)
  <2>1. ASSUME NEW point \in {"hello", "block", "calculate", "get"}, NEW c, NEW block, NEW more,
               Take(t, point, c, block, more)
        PROVE  Passing'
    BY <2>1, PassingQuiet DEF Take, Calculating
  <2>2. CASE HandleCandidates(t) \/ HandleDataHeader(t) \/ HandleUnknown(t) \/ HangUp(t)
    BY <2>2, PassingQuiet DEF HandleCandidates, AnswerCandidates, HandleDataHeader, HandleUnknown, HangUp, Answer, Calculating
  <2> QED BY <1>4, <2>1, <2>2
          DEF Request, TakeHello, TakeBlock, TakeCalculate, TakeGetResults
<1>5. CASE Upload(t)
  <2>1. CASE BlockRefused(t) \/ BlockAccepted(t) \/ BlockStored(t)
    BY <2>1, PassingQuiet
       DEF BlockRefused, BlockAccepted, BlockStored, Answer, Calculating
  <2>2. CASE SkipLine(t)
    BY <2>2, <1>1 DEF SkipLine
  <2>3. CASE StoreCandidate(t)
    BY <2>3, PassingQuiet DEF StoreCandidate, Calculating
  <2>4. CASE StoreInBucket(t)
    <3> DEFINE x == Head(lines[t])
    <3>1. pc[t] = "bucket" /\ \A u \in Threads \ {t} : ~Writing(u)
      BY <2>4 DEF StoreInBucket, Passing, OneWriter, Writing, Storing
    <3>2. \A u \in Threads \ {t} : pc[u] # "bucket" /\ pc[u] \notin Calculating
      BY <3>1 DEF Writing, Storing, Calculating
    <3>3. bucket_candidates' = [bucket_candidates EXCEPT ![BucketOf[x.doc]] = Append(@, x)]
      BY <2>4, <3>2 DEF StoreInBucket, Others, PushesInBucket
    <3>4. x \in Candidate
      BY <3>1, NextLine
    <3>5. Stored' = Stored \cup {x.doc}
      BY <3>3, <3>4, StoredAppend
    <3>6. taken' = taken \cup {x.doc} /\ seen' = seen /\ pc' = [pc EXCEPT ![t] = "store"]
      BY <2>4 DEF StoreInBucket
    <3> HIDE DEF x
    <3>7. \A u \in Threads : pc'[u] \notin Calculating
      BY <3>2, <3>6 DEF TypeOK, Calculating
    <3> QED BY <3>5, <3>6, <3>7 DEF Passing, NothingLost, Calculating
  <2>5. CASE LineThrows(t)
    BY <2>5, PassingEnd DEF LineThrows
  <2> QED BY <1>5, <2>1, <2>2, <2>3, <2>4, <2>5 DEF Upload
<1>6. CASE Calculate(t)
  <2>0. pc[t] \in Calculating => \A u \in Threads \ {t} : pc'[u] \notin Calculating
    <3>1. pc[t] \in Calculating => \A u \in Threads \ {t} : pc[u] \notin Calculating
      BY DEF Passing, OneWriter, Writing, Storing, Calculating
    <3>2. ~DecryptThrows(t) => \A u \in Threads \ {t} : pc'[u] = pc[u]
      BY <1>6 DEF Calculate, CalculateRefused, CalculateStarts, ScanBucket, RecordPair,
                  RecordPartner, BucketDone, LastBucketDone, ClearCandidates, ClearBuckets,
                  Answer, TypeOK
    <3>3. DecryptThrows(t) => \A u \in Threads : pc'[u] = "idle"
      BY DEF DecryptThrows, End, Each
    <3> QED BY <3>1, <3>2, <3>3 DEF Calculating
  <2>1. CASE CalculateRefused(t)
    BY <2>1, PassingQuiet DEF CalculateRefused, Answer, Calculating
  <2>2. CASE CalculateStarts(t)
    <3>1. pc'[t] = "scan" /\ cursor'[t] = 0 /\ UNCHANGED <<bucket_candidates, taken, seen>>
      BY <2>2 DEF CalculateStarts, TypeOK
    <3>2. \A u \in Threads \ {t} : pc'[u] = pc[u] /\ pc[u] \notin Calculating
      BY <2>2 DEF CalculateStarts, TypeOK, Passing, OneWriter, Writing, Storing, Calculating
    <3>3. \A b \in Buckets : ~(b < 0)
      BY ConstantsAssumption DEF Buckets
    <3> QED BY <3>1, <3>2, <3>3, <1>0 DEF Passing, NothingLost, Calculating
  <2>3. CASE ScanBucket(t)
    <3>1. PICK b \in Buckets :
            /\ NextBucket(t, b)
            /\ cursor' = [cursor EXCEPT ![t] = b + 1]
            /\ seen' = seen \cup DocsOf(bucket_candidates[b])
      BY <2>3 DEF ScanBucket
    <3>2. \A a \in Buckets : a \in Nat
      BY ConstantsAssumption DEF Buckets
    <3>3. cursor'[t] = b + 1 /\ cursor[t] \in Nat
      BY <3>1 DEF TypeOK
    <3>4. \A a \in Buckets : a < b + 1 => DocsOf(bucket_candidates[a]) \subseteq seen'
      <4> SUFFICES ASSUME NEW a \in Buckets, a < b + 1
                   PROVE  DocsOf(bucket_candidates[a]) \subseteq seen'
        OBVIOUS
      <4>1. CASE a = b
        BY <4>1, <3>1
      <4>2. CASE a < cursor[t]
        BY <4>2, <2>3, <3>1 DEF ScanBucket, Passing
      <4>3. CASE cursor[t] <= a /\ a < b
        <5>1. bucket_candidates[a] = <<>>
          BY <4>3, <3>1, <3>2 DEF NextBucket
        <5> QED BY <5>1, DocsOfEmpty
      <4> QED BY <4>1, <4>2, <4>3, <3>2, <3>3
    <3>5. pc'[t] \in {"scan", "pairs"} /\ UNCHANGED <<bucket_candidates, taken>>
      BY <2>3 DEF ScanBucket, TypeOK
    <3>6. \A u \in Threads \ {t} : pc'[u] \notin Calculating
      BY <2>0, <2>3 DEF ScanBucket, Calculating
    <3> QED BY <3>1, <3>3, <3>4, <3>5, <3>6, <1>0 DEF Passing, NothingLost, Calculating
  <2>4. CASE DecryptThrows(t)
    BY <2>4, PassingEnd DEF DecryptThrows
  <2>5. CASE RecordPair(t) \/ RecordPartner(t)
    <3>1. PICK p \in {"pairs", "partner"} : pc' = [pc EXCEPT ![t] = p]
      BY <2>5 DEF RecordPair, RecordPartner, TypeOK
    <3>2. pc[t] \in {"pairs", "partner"} /\ UNCHANGED <<bucket_candidates, taken, seen, cursor>>
      BY <2>5 DEF RecordPair, RecordPartner
    <3> QED BY <3>1, <3>2, PassingQuiet
  <2>6. CASE BucketDone(t)
    BY <2>6, PassingQuiet DEF BucketDone
  <2>7. CASE LastBucketDone(t)
    <3>1. \A b \in Buckets : DocsOf(bucket_candidates[b]) \subseteq seen
      <4> SUFFICES ASSUME NEW b \in Buckets PROVE DocsOf(bucket_candidates[b]) \subseteq seen
        OBVIOUS
      <4>1. CASE cursor[t] <= b
        BY <4>1, <2>7, DocsOfEmpty DEF LastBucketDone
      <4>2. CASE b < cursor[t]
        BY <4>2, <2>7 DEF LastBucketDone, Passing
      <4>3. b \in Nat /\ cursor[t] \in Nat
        BY ConstantsAssumption DEF Buckets, TypeOK
      <4> QED BY <4>1, <4>2, <4>3
    <3>2. Stored \subseteq seen
      BY <3>1 DEF Stored
    <3>3. pc'[t] = "clear" /\ UNCHANGED <<bucket_candidates, taken, seen>>
      BY <2>7 DEF LastBucketDone, TypeOK
    <3>4. \A u \in Threads \ {t} : pc'[u] \notin Calculating
      BY <2>0, <2>7 DEF LastBucketDone, Calculating
    <3> QED BY <3>2, <3>3, <3>4, <1>0 DEF Passing, NothingLost, Calculating
  <2>8. CASE ClearCandidates(t)
    BY <2>8, PassingQuiet DEF ClearCandidates
  <2>9. CASE ClearBuckets(t)
    <3>1. Stored \subseteq seen /\ taken' = taken /\ seen' = seen
      BY <2>9 DEF ClearBuckets, Passing
    <3>2. \A u \in Threads : pc'[u] \notin Calculating
      BY <2>0, <2>9 DEF ClearBuckets, Answer, TypeOK, Calculating
    <3> QED BY <3>1, <3>2 DEF Passing, NothingLost, Calculating
  <2> QED BY <1>6, <2>1, <2>2, <2>3, <2>4, <2>5, <2>6, <2>7, <2>8, <2>9 DEF Calculate
<1>7. CASE Hello(t) \/ GetResults(t) \/ Finish(t)
  BY <1>7, PassingQuiet DEF Hello, GetResults, Finish, Answer, Calculating
<1> QED BY <1>4, <1>5, <1>6, <1>7 DEF Handler

(* A step that makes no thread busy that was not keeps one request at most. *)
LEMMA NoneTakenOn ==
  ASSUME OneRequest, \A u \in Threads : Busy(u)' => Busy(u)
  PROVE  OneRequest'
  BY DEF OneRequest

(* A thread that moves was busy, or ends a request.                         *)
LEMMA PointMoves ==
  ASSUME NEW t \in Threads, NEW p, TypeOK, OneRequest,
         pc' = [pc EXCEPT ![t] = p], Busy(t) \/ p \in {"idle", "replied"}
  PROVE  OneRequest'
<1>1. pc \in [Threads -> Points]
  BY DEF TypeOK
<1>2. \A u \in Threads : Busy(u)' => Busy(u)
  BY <1>1 DEF Busy
<1> QED BY <1>2, NoneTakenOn

(* Steps that move no thread.                                               *)
LEMMA PointStays == ASSUME OneRequest, pc' = pc PROVE OneRequest'
  BY DEF OneRequest, Busy

(* The process ends with nobody at work.                                    *)
LEMMA EndIsQuiet == ASSUME NEW how, End(how) PROVE OneRequest'
  BY DEF End, Each, OneRequest, Busy

(* The steps of a handler, which a busy thread takes.                       *)
LEMMA HandlerIsSerial ==
  ASSUME NEW t \in Threads, TypeOK, OneRequest, Handler(t)
  PROVE  OneRequest'
<1>1. CASE Hello(t)
  BY <1>1, PointMoves DEF Hello, Answer, Busy
<1>2. CASE GetResults(t)
  BY <1>2, PointMoves DEF GetResults, Answer, Busy
<1>3. CASE Upload(t)
  <2>1. CASE BlockRefused(t) \/ BlockStored(t)
    BY <2>1, PointMoves DEF BlockRefused, BlockStored, Answer
  <2>2. CASE SkipLine(t)
    BY <2>2, PointStays DEF SkipLine
  <2>3. CASE BlockAccepted(t)
    BY <2>3, PointMoves DEF BlockAccepted, Busy
  <2>4. CASE StoreCandidate(t)
    BY <2>4, PointMoves DEF StoreCandidate, Busy
  <2>5. CASE StoreInBucket(t)
    BY <2>5, PointMoves DEF StoreInBucket, Busy
  <2>6. CASE LineThrows(t)
    BY <2>6, EndIsQuiet DEF LineThrows
  <2> QED BY <1>3, <2>1, <2>2, <2>3, <2>4, <2>5, <2>6 DEF Upload
<1>4. CASE Calculate(t)
  <2>1. CASE CalculateRefused(t) \/ ClearBuckets(t)
    BY <2>1, PointMoves DEF CalculateRefused, ClearBuckets, Answer
  <2>2. CASE CalculateStarts(t)
    BY <2>2, PointMoves DEF CalculateStarts, Busy
  <2>3. CASE ScanBucket(t)
    <3>1. Busy(t) /\ (pc' = pc \/ pc' = [pc EXCEPT ![t] = "pairs"])
      BY <2>3 DEF ScanBucket, Busy
    <3> QED BY <3>1, PointMoves, PointStays
  <2>4. CASE DecryptThrows(t)
    BY <2>4, EndIsQuiet DEF DecryptThrows
  <2>5. CASE RecordPair(t)
    <3>1. Busy(t) /\ (pc' = pc \/ pc' = [pc EXCEPT ![t] = "partner"])
      BY <2>5 DEF RecordPair, Busy
    <3> QED BY <3>1, PointMoves, PointStays
  <2>6. CASE RecordPartner(t)
    BY <2>6, PointMoves DEF RecordPartner, Busy
  <2>7. CASE BucketDone(t)
    BY <2>7, PointMoves DEF BucketDone, Busy
  <2>8. CASE LastBucketDone(t)
    BY <2>8, PointMoves DEF LastBucketDone, Busy
  <2>9. CASE ClearCandidates(t)
    BY <2>9, PointMoves DEF ClearCandidates, Busy
  <2> QED BY <1>4, <2>1, <2>2, <2>3, <2>4, <2>5, <2>6, <2>7, <2>8, <2>9 DEF Calculate
<1> QED BY <1>1, <1>2, <1>3, <1>4 DEF Handler

(* No step but a request makes a thread busy that was not.                  *)
LEMMA SerialStep ==
  TypeOK /\ OneRequest /\ [SerialNext]_vars => [Next /\ OneRequest']_vars
<1> SUFFICES ASSUME TypeOK, OneRequest, SerialNext PROVE Next /\ OneRequest'
  OBVIOUS
<1>1. Next
  BY DEF SerialNext, Next
<1>2. CASE Kill
  BY <1>1, <1>2, EndIsQuiet DEF Kill
<1>3. CASE Restart
  BY <1>1, <1>3, PointStays DEF Restart, locals
<1>4. ASSUME NEW t \in Threads, Handler(t) PROVE OneRequest'
  BY <1>4, HandlerIsSerial
<1>5. ASSUME NEW t \in Threads, Finish(t) PROVE OneRequest'
  BY <1>5, PointMoves DEF Finish
<1> QED BY <1>1, <1>2, <1>3, <1>4, <1>5 DEF SerialNext

(* With one request at a time no stored candidate is destroyed before a     *)
(* calculation has passed it in its bucket.                                 *)
THEOREM SerialLosesNothing == SerialSpec => []NothingLost
<1>1. Init => Passing /\ OneRequest
  BY PassingInit DEF Init, OneRequest, Busy, Each
<1>2. Passing => NothingLost
  BY DEF Passing
<1>3. OneRequest' => OneWriter'
  BY DEF OneRequest, OneWriter, Busy, Writing, Storing, Calculating
<1>4. TypeOK /\ Fresh /\ Passing /\ OneRequest /\ [SerialNext]_vars => Passing' /\ OneRequest'
  <2> SUFFICES ASSUME TypeOK, Fresh, Passing, OneRequest, [SerialNext]_vars
               PROVE  Passing' /\ OneRequest'
    OBVIOUS
  <2>1. [Next /\ OneRequest']_vars
    BY SerialStep
  <2>2. OneRequest'
    BY <2>1 DEF vars, OneRequest, Busy
  <2> QED BY <2>1, <2>2, <1>3, PassingNext
<1>5. OneRequest /\ TypeOK /\ [SerialNext]_vars => [Next]_vars
  BY SerialStep
<1> QED BY <1>1, <1>2, <1>4, <1>5, InitType, NextType, FreshInit, FreshNext, PTL DEF SerialSpec

-----------------------------------------------------------------------------
(* The pairs of a verdict are pairs of two clients in one bucket, and with  *)
(* one calculator nothing that is recorded loses its partner.               *)
CrossPair(d, e) == Owner[d] # Owner[e] /\ BucketOf[d] = BucketOf[e]
Sorted == \A b \in Buckets : \A i \in DOMAIN bucket_candidates[b] :
            BucketOf[bucket_candidates[b][i].doc] = b
Paired == \A t \in Threads : \A p \in dups[t] : CrossPair(DocI(t, p), DocJ(t, p))

(* A push into the bucket on the candidate's line keeps the buckets sorted. *)
LEMMA SortedAppend ==
  ASSUME TypeOK, Sorted, NEW x \in Candidate,
         bucket_candidates' = [bucket_candidates EXCEPT ![BucketOf[x.doc]] = Append(@, x)]
  PROVE  Sorted'
<1> DEFINE b == BucketOf[x.doc]
           s == bucket_candidates[b]
<1>1. b \in Buckets
  BY CandidateFields
<1>2. s \in Seq(Candidate)
  BY <1>1 DEF TypeOK
<1>3. \A i \in DOMAIN Append(s, x) : (i \in DOMAIN s /\ Append(s, x)[i] = s[i]) \/ Append(s, x)[i] = x
  BY <1>2
<1>4. bucket_candidates'[b] = Append(s, x)
      /\ \A a \in Buckets \ {b} : bucket_candidates'[a] = bucket_candidates[a]
  BY <1>1 DEF TypeOK
<1>5. \A i \in DOMAIN s : BucketOf[s[i].doc] = b
  BY <1>1 DEF Sorted
<1>6. ASSUME NEW i \in DOMAIN bucket_candidates'[b]
      PROVE  BucketOf[bucket_candidates'[b][i].doc] = b
  BY <1>3, <1>4, <1>5, <1>6
<1>7. ASSUME NEW a \in Buckets \ {b}, NEW i \in DOMAIN bucket_candidates'[a]
      PROVE  BucketOf[bucket_candidates'[a][i].doc] = a
  BY <1>4, <1>7 DEF Sorted
<1> QED BY <1>6, <1>7 DEF Sorted

(* Every step keeps the buckets sorted and the verdicts across clients.     *)
LEMMA SortedPairedNext == TypeOK /\ Sorted /\ Paired /\ [Next]_vars => Sorted' /\ Paired'
<1> SUFFICES ASSUME TypeOK, Sorted, Paired, [Next]_vars PROVE Sorted' /\ Paired'
  OBVIOUS
<1>1. UNCHANGED bucket_candidates => Sorted'
  BY DEF Sorted
<1>2. UNCHANGED <<sigs, dups>> => Paired'
  BY DEF Paired, DocI, DocJ
<1>3. ASSUME NEW how, End(how) PROVE Sorted' /\ Paired'
  <2>1. bucket_candidates' = Each(Buckets, <<>>) /\ dups' = Each(Threads, {})
    BY <1>3 DEF End
  <2> QED BY <2>1 DEF Sorted, Paired, Each
<1>4. CASE Kill \/ Restart \/ UNCHANGED vars
  BY <1>4, <1>1, <1>2, <1>3 DEF Kill, Restart, vars
<1>5. ASSUME NEW t \in Threads, Request(t) PROVE Sorted' /\ Paired'
  BY <1>5, <1>1, <1>2 DEF Request, TakeHello, TakeBlock, TakeCalculate, TakeGetResults,
                          Take, HandleCandidates, AnswerCandidates, HandleDataHeader, HandleUnknown, HangUp
<1>6. ASSUME NEW t \in Threads, Upload(t) PROVE Sorted' /\ Paired'
  <2>1. CASE StoreInBucket(t)
    <3>1. Head(lines[t]) \in Candidate
      BY <2>1, NextLine DEF StoreInBucket
    <3>2. UNCHANGED <<sigs, dups>>
      BY <2>1 DEF StoreInBucket
    <3>3. \/ UNCHANGED bucket_candidates
          \/ bucket_candidates' = [bucket_candidates EXCEPT
               ![BucketOf[Head(lines[t]).doc]] = Append(@, Head(lines[t]))]
      BY <2>1 DEF StoreInBucket
    <3> QED BY <3>1, <3>2, <3>3, <1>1, <1>2, SortedAppend
  <2>2. CASE LineThrows(t)
    BY <2>2, <1>3 DEF LineThrows
  <2>3. CASE ~StoreInBucket(t) /\ ~LineThrows(t)
    BY <1>6, <2>3, <1>1, <1>2
       DEF Upload, BlockRefused, BlockAccepted, SkipLine, StoreCandidate, BlockStored
  <2> QED BY <2>1, <2>2, <2>3
<1>7. ASSUME NEW t \in Threads, Calculate(t) PROVE Sorted' /\ Paired'
  <2>1. CASE ScanBucket(t)
    <3>1. PICK b \in Buckets :
            LET list == bucket_candidates[b] IN
            \/ UNCHANGED <<sigs, dups>>
            \/ \E v \in Verdicts(list) :
                 /\ sigs' = [sigs EXCEPT ![t] = list]
                 /\ dups' = [dups EXCEPT ![t] = v]
      BY <2>1 DEF ScanBucket
    <3>2. CASE UNCHANGED <<sigs, dups>>
      BY <3>2, <2>1, <1>1, <1>2 DEF ScanBucket
    <3>3. ASSUME NEW v \in Verdicts(bucket_candidates[b]),
                 sigs' = [sigs EXCEPT ![t] = bucket_candidates[b]],
                 dups' = [dups EXCEPT ![t] = v]
          PROVE  Sorted' /\ Paired'
      <4> DEFINE list == bucket_candidates[b]
      <4>1. \A p \in v : /\ p[1] \in DOMAIN list /\ p[2] \in DOMAIN list
                         /\ Owner[list[p[1]].doc] # Owner[list[p[2]].doc]
        BY DEF Verdicts, CrossPairs, Valid
      <4>2. \A p \in v : CrossPair(list[p[1]].doc, list[p[2]].doc)
        BY <4>1 DEF Sorted, CrossPair
      <4>3. sigs'[t] = list /\ dups'[t] = v
        BY <3>3 DEF TypeOK
      <4>4. \A u \in Threads \ {t} : sigs'[u] = sigs[u] /\ dups'[u] = dups[u]
        BY <3>3 DEF TypeOK
      <4> HIDE DEF list
      <4>5. \A p \in dups'[t] : CrossPair(DocI(t, p), DocJ(t, p))'
        BY <4>2, <4>3 DEF DocI, DocJ, CrossPair
      <4>6. \A u \in Threads \ {t} : \A p \in dups'[u] : CrossPair(DocI(u, p), DocJ(u, p))'
        BY <4>4 DEF DocI, DocJ, CrossPair, Paired
      <4> QED BY <4>5, <4>6, <2>1, <1>1 DEF Paired, ScanBucket
    <3> QED BY <3>1, <3>2, <3>3
  <2>2. CASE DecryptThrows(t)
    BY <2>2, <1>3 DEF DecryptThrows
  <2>3. CASE RecordPair(t) \/ RecordPartner(t)
    <3>1. UNCHANGED <<sigs, bucket_candidates>> /\ \A u \in Threads : dups'[u] \subseteq dups[u]
      <4>1. \E p : dups' = [dups EXCEPT ![t] = @ \ {p}] \/ UNCHANGED dups
        BY <2>3 DEF RecordPair, RecordPartner
      <4>2. UNCHANGED <<sigs, bucket_candidates>>
        BY <2>3 DEF RecordPair, RecordPartner
      <4> QED BY <4>1, <4>2 DEF TypeOK
    <3> QED BY <3>1, <1>1 DEF Paired, DocI, DocJ, CrossPair
  <2>4. CASE BucketDone(t)
    <3>1. \A u \in Threads : dups'[u] = dups[u] /\ (u = t \/ sigs'[u] = sigs[u])
      BY <2>4 DEF BucketDone, TypeOK
    <3>2. dups[t] = {} /\ UNCHANGED bucket_candidates
      BY <2>4 DEF BucketDone
    <3> QED BY <3>1, <3>2, <1>1 DEF Paired, DocI, DocJ, CrossPair
  <2>5. CASE ClearBuckets(t)
    <3>1. bucket_candidates' = Each(Buckets, <<>>) /\ UNCHANGED <<sigs, dups>>
      BY <2>5 DEF ClearBuckets
    <3> QED BY <3>1, <1>2 DEF Sorted, Each
  <2>6. CASE CalculateRefused(t) \/ CalculateStarts(t) \/ LastBucketDone(t) \/ ClearCandidates(t)
    BY <2>6, <1>1, <1>2
       DEF CalculateRefused, CalculateStarts, LastBucketDone, ClearCandidates
  <2> QED BY <1>7, <2>1, <2>2, <2>3, <2>4, <2>5, <2>6 DEF Calculate
<1>8. ASSUME NEW t \in Threads, Hello(t) \/ GetResults(t) \/ Finish(t) PROVE Sorted' /\ Paired'
  BY <1>8, <1>1, <1>2 DEF Hello, GetResults, Finish
<1> QED BY <1>4, <1>5, <1>6, <1>7, <1>8 DEF Next, Handler

(* Pushing a document records it for its client and for no other.           *)
LEMMA RecordedAppend ==
  ASSUME TypeOK, NEW d \in Docs,
         duplicate_docs' = [duplicate_docs EXCEPT ![Owner[d]] = Append(@, d)]
  PROVE  /\ Recorded(Owner[d])' = Recorded(Owner[d]) \cup {d}
         /\ \A c \in Clients \ {Owner[d]} : Recorded(c)' = Recorded(c)
<1> DEFINE s == duplicate_docs[Owner[d]]
<1>1. Owner[d] \in Clients
  BY ConstantsAssumption
<1>2. s \in Seq(Docs)
  BY <1>1 DEF TypeOK
<1>3. duplicate_docs'[Owner[d]] = Append(s, d)
      /\ \A c \in Clients \ {Owner[d]} : duplicate_docs'[c] = duplicate_docs[c]
  BY <1>1 DEF TypeOK
<1>4. /\ \A i \in 1..Len(s) : Append(s, d)[i] = s[i]
      /\ Append(s, d)[Len(s) + 1] = d
      /\ DOMAIN Append(s, d) = 1..(Len(s) + 1) /\ DOMAIN s = 1..Len(s) /\ Len(s) \in Nat
  BY <1>2
<1>5. {Append(s, d)[i] : i \in DOMAIN Append(s, d)} = {s[i] : i \in DOMAIN s} \cup {d}
  BY <1>4
<1> QED BY <1>3, <1>5 DEF Recorded

(* The pairs of a verdict name documents.                                   *)
LEMMA PairDocs ==
  ASSUME TypeOK, NEW t \in Threads, NEW p \in dups[t]
  PROVE  DocI(t, p) \in Docs /\ DocJ(t, p) \in Docs
<1>1. sigs[t] \in Seq(Candidate) /\ p[1] \in DOMAIN sigs[t] /\ p[2] \in DOMAIN sigs[t]
  BY DEF TypeOK
<1> QED BY <1>1, DocsOfType, CandidateFields DEF DocI, DocJ

(* The first pair of a verdict is unique.                                   *)
LEMMA OneFirstPair ==
  ASSUME TypeOK, NEW t \in Threads, NEW p, NEW q, FirstPair(t, p), FirstPair(t, q)
  PROVE  p = q
<1>1. p \in Nat \X Nat /\ q \in Nat \X Nat
  BY DEF FirstPair, TypeOK
<1>2. p[1] = q[1] /\ p[2] = q[2]
  BY <1>1 DEF FirstPair
<1> QED BY <1>1, <1>2

HalfRecorded ==
  \A t \in Threads : pc[t] = "partner" =>
    \A p \in dups[t] : FirstPair(t, p) => DocI(t, p) \in Recorded(Owner[DocI(t, p)])

LoneInv == OneCalculator /\ NoLoneResult /\ HalfRecorded

(* A witness survives a step that keeps the recorded documents and the      *)
(* threads that are about to record a partner.                              *)
LEMMA LoneQuiet ==
  ASSUME TypeOK, LoneInv, OneCalculator',
         UNCHANGED <<duplicate_docs, dups, sigs>>,
         \A u \in Threads : pc[u] = "partner" <=> pc'[u] = "partner"
  PROVE  LoneInv'
<1>1. \A c \in Clients : Recorded(c)' = Recorded(c)
  BY DEF Recorded
<1>2. ASSUME NEW d \in Docs, NEW e \in Docs, Witness(d, e) PROVE Witness(d, e)'
  <2>1. Owner[e] \in Clients
    BY ConstantsAssumption
  <2> QED BY <1>1, <1>2, <2>1 DEF Witness, FirstPair, DocJ
<1>3. \A c \in Clients : Recorded(c) \subseteq Docs
  BY DEF Recorded, TypeOK
<1>4. NoLoneResult'
  BY <1>1, <1>2, <1>3 DEF LoneInv, NoLoneResult
<1>5. HalfRecorded'
  <2> SUFFICES ASSUME NEW t \in Threads, pc'[t] = "partner",
                      NEW p \in dups[t], FirstPair(t, p)
               PROVE  DocI(t, p) \in {duplicate_docs[Owner[DocI(t, p)]][i] :
                                        i \in DOMAIN duplicate_docs[Owner[DocI(t, p)]]}
    BY DEF HalfRecorded, FirstPair, DocI, Recorded
  <2> QED BY DEF LoneInv, HalfRecorded, Recorded
<1> QED BY <1>4, <1>5 DEF LoneInv

(* LoneInv holds when the process has ended.                                *)
LEMMA LoneEnd == ASSUME NEW how, End(how) PROVE LoneInv'
<1>1. \A c \in Clients : duplicate_docs'[c] = <<>>
  BY DEF End, Each
<1>2. \A t \in Threads : pc'[t] = "idle"
  BY DEF End, Each
<1> QED BY <1>1, <1>2 DEF LoneInv, NoLoneResult, HalfRecorded, Recorded, OneCalculator, Calculating

(* Pushing d keeps the other witnesses and needs one for d.                 *)
LEMMA LonePush ==
  ASSUME TypeOK, LoneInv, OneCalculator', NEW d \in Docs,
         duplicate_docs' = [duplicate_docs EXCEPT ![Owner[d]] = Append(@, d)],
         \E e \in Docs : Witness(d, e)',
         \A x \in Docs, y \in Docs : Witness(x, y) => \E z \in Docs : Witness(x, z)'
  PROVE  NoLoneResult'
<1>1. ASSUME NEW c \in Clients, NEW x, x \in Recorded(c)'
      PROVE  Owner[x] = c /\ \E e \in Docs : Witness(x, e)'
  <2>1. CASE x \in Recorded(c)
    <3>1. x \in Docs
      BY <2>1 DEF Recorded, TypeOK
    <3> QED BY <2>1, <3>1 DEF LoneInv, NoLoneResult
  <2>2. CASE x \notin Recorded(c)
    <3>1. c = Owner[d]
      <4>1. ASSUME c # Owner[d] PROVE FALSE
        <5>1. Recorded(c)' = Recorded(c)
          BY <4>1, RecordedAppend
        <5> QED BY <5>1, <1>1, <2>2
      <4> QED BY <4>1
    <3>2. Recorded(c)' = Recorded(c) \cup {d}
      BY <3>1, RecordedAppend
    <3>3. x = d
      BY <3>2, <1>1, <2>2
    <3> QED BY <3>1, <3>3
  <2> QED BY <2>1, <2>2
<1> QED BY <1>1 DEF NoLoneResult

(* Every step keeps LoneInv, as long as one calculation runs at a time.     *)
LEMMA LoneNext ==
  TypeOK /\ Sorted /\ Paired /\ LoneInv /\ [Next /\ OneCalculator']_vars => LoneInv'
<1> SUFFICES ASSUME TypeOK, Sorted, Paired, LoneInv, [Next /\ OneCalculator']_vars
             PROVE  LoneInv'
  OBVIOUS
<1>1. CASE UNCHANGED vars
  <2>1. OneCalculator'
    BY <1>1 DEF vars, LoneInv, OneCalculator
  <2> QED BY <1>1, <2>1, LoneQuiet DEF vars
<1>2. CASE Kill
  BY <1>2, LoneEnd DEF Kill
<1> SUFFICES ASSUME Next, OneCalculator' PROVE LoneInv'
  BY <1>1
<1>3. CASE Restart
  BY <1>3, LoneQuiet DEF Restart
<1> SUFFICES ASSUME NEW t \in Threads, Request(t) \/ Handler(t) \/ Finish(t) PROVE LoneInv'
  BY <1>2, <1>3 DEF Next
<1>4. ASSUME UNCHANGED <<duplicate_docs, dups, sigs>>, pc[t] # "partner",
             NEW p, p # "partner", pc' = [pc EXCEPT ![t] = p]
      PROVE  LoneInv'
  BY <1>4, LoneQuiet DEF TypeOK
<1>5. CASE Request(t)
  BY <1>5, <1>4 DEF Request, TakeHello, TakeBlock, TakeCalculate, TakeGetResults, Take,
                    HandleCandidates, AnswerCandidates, HandleDataHeader, HandleUnknown, HangUp, Answer
<1>6. CASE Upload(t)
  <2>1. CASE SkipLine(t)
    BY <2>1, LoneQuiet DEF SkipLine
  <2>2. CASE LineThrows(t)
    BY <2>2, LoneEnd DEF LineThrows
  <2>3. CASE ~SkipLine(t) /\ ~LineThrows(t)
    BY <1>6, <2>3, <1>4 DEF Upload, BlockRefused, BlockAccepted, StoreCandidate,
                            StoreInBucket, BlockStored, Answer
  <2> QED BY <2>1, <2>2, <2>3
<1>7. CASE Hello(t) \/ GetResults(t) \/ Finish(t)
  BY <1>7, <1>4 DEF Hello, GetResults, Finish, Answer
<1>8. CASE Calculate(t)
  <2>1. CASE CalculateRefused(t) \/ CalculateStarts(t) \/ LastBucketDone(t)
               \/ ClearCandidates(t) \/ ClearBuckets(t)
    BY <2>1, <1>4 DEF CalculateRefused, CalculateStarts, LastBucketDone, ClearCandidates,
                      ClearBuckets, Answer
  <2>2. CASE DecryptThrows(t)
    BY <2>2, LoneEnd DEF DecryptThrows
  <2>3. ASSUME pc[t] \in Calculating
        PROVE  \A u \in Threads \ {t} : pc[u] \notin {"pairs", "partner"}
    BY <2>3 DEF LoneInv, OneCalculator, Calculating
  <2>4. \A c \in Clients : Recorded(c) \subseteq Docs
    BY DEF Recorded, TypeOK
  <2>5. ASSUME pc[t] \in Calculating, pc[t] # "partner", UNCHANGED duplicate_docs
        PROVE  \A x, y \in Docs : Witness(x, y) => Witness(x, y)'
    <3>1. \A c \in Clients : Recorded(c)' = Recorded(c)
      BY <2>5 DEF Recorded
    <3>2. \A u \in Threads : pc[u] # "partner"
      BY <2>3, <2>5
    <3> QED BY <3>1, <3>2, ConstantsAssumption DEF Witness
  <2>6. ASSUME pc[t] \in Calculating, pc[t] # "partner", UNCHANGED duplicate_docs,
               \A u \in Threads : pc'[u] = "partner" => pc[u] = "partner"
        PROVE  LoneInv'
    <3>1. \A c \in Clients : Recorded(c)' = Recorded(c)
      BY <2>6 DEF Recorded
    <3>2. \A u \in Threads : pc'[u] # "partner"
      BY <2>3, <2>6
    <3> QED BY <2>4, <2>5, <2>6, <3>1, <3>2 DEF LoneInv, NoLoneResult, HalfRecorded
  <2>7. CASE ScanBucket(t) \/ BucketDone(t)
    <3>1. pc[t] \in {"scan", "pairs"} /\ UNCHANGED duplicate_docs
      BY <2>7 DEF ScanBucket, BucketDone
    <3>2. \A u \in Threads : pc'[u] = "partner" => pc[u] = "partner"
      BY <2>7 DEF ScanBucket, BucketDone, TypeOK
    <3> QED BY <3>1, <3>2, <2>6 DEF Calculating
  <2>8. CASE RecordPair(t)
    <3>1. PICK p \in dups[t] :
            /\ FirstPair(t, p)
            /\ \/ pc' = pc /\ UNCHANGED duplicate_docs
               \/ UNCHANGED duplicate_docs /\ \E u \in Others(t) : \E c : PushesResult(u, c)
               \/ /\ pc' = [pc EXCEPT ![t] = "partner"]
                  /\ duplicate_docs' =
                       [duplicate_docs EXCEPT ![Owner[DocI(t, p)]] = Append(@, DocI(t, p))]
                  /\ UNCHANGED dups
      BY <2>8 DEF RecordPair
    <3>2. pc[t] = "pairs" /\ UNCHANGED sigs
      BY <2>8 DEF RecordPair
    <3>3. \A u \in Threads : pc[u] # "partner"
      BY <2>3, <3>2 DEF Calculating
    <3>4. ~\E u \in Others(t) : \E c : PushesResult(u, c)
      BY <2>3, <3>2 DEF Others, PushesResult, Calculating
    <3>5. CASE pc' = pc /\ UNCHANGED duplicate_docs
      BY <3>2, <3>5, <2>6 DEF Calculating
    <3>6. CASE /\ duplicate_docs' =
                    [duplicate_docs EXCEPT ![Owner[DocI(t, p)]] = Append(@, DocI(t, p))]
               /\ pc' = [pc EXCEPT ![t] = "partner"] /\ UNCHANGED dups
      <4>1. PICK d \in Docs, e \in Docs : d = DocI(t, p) /\ e = DocJ(t, p) /\ CrossPair(d, e)
        BY PairDocs DEF Paired
      <4>2. /\ pc'[t] = "partner" /\ \A u \in Threads \ {t} : pc'[u] # "partner"
            /\ p \in dups'[t] /\ FirstPair(t, p)' /\ DocI(t, p)' = d /\ DocJ(t, p)' = e
        BY <3>1, <3>2, <3>3, <3>6, <4>1 DEF FirstPair, DocI, DocJ, TypeOK
      <4>3. duplicate_docs' = [duplicate_docs EXCEPT ![Owner[d]] = Append(@, d)]
        BY <3>6, <4>1
      <4>4. /\ \A c \in Clients : Recorded(c) \subseteq Recorded(c)'
            /\ d \in Recorded(Owner[d])'
        BY <4>3, RecordedAppend
      <4>5. \A x, y \in Docs : Witness(x, y) => Witness(x, y)'
        BY <4>4, <3>3, ConstantsAssumption DEF Witness
      <4>6. Witness(d, e)'
        BY <4>1, <4>2 DEF Witness, CrossPair
      <4>7. NoLoneResult'
        BY <4>3, <4>5, <4>6, LonePush
      <4>8. HalfRecorded'
        <5> SUFFICES ASSUME NEW q \in dups'[t], FirstPair(t, q)'
                     PROVE  DocI(t, q)' = d
          BY <4>2, <4>4 DEF HalfRecorded
        <5>1. FirstPair(t, q)
          BY <3>6 DEF FirstPair
        <5>2. q = p
          BY <5>1, <3>1, OneFirstPair
        <5> QED BY <4>2, <5>2
      <4> QED BY <4>7, <4>8 DEF LoneInv
    <3> QED BY <3>1, <3>4, <3>5, <3>6
  <2>9. CASE RecordPartner(t)
    <3>1. PICK p \in dups[t] :
            /\ FirstPair(t, p)
            /\ \/ duplicate_docs' =
                    [duplicate_docs EXCEPT ![Owner[DocJ(t, p)]] = Append(@, DocJ(t, p))]
               \/ \E u \in Others(t) : \E c : PushesResult(u, c)
      BY <2>9 DEF RecordPartner
    <3>2. PICK d \in Docs, e \in Docs : d = DocI(t, p) /\ e = DocJ(t, p) /\ CrossPair(d, e)
      BY PairDocs DEF Paired
    <3>3. pc[t] = "partner" /\ \A u \in Threads \ {t} : pc[u] \notin {"pairs", "partner"}
      BY <2>3, <2>9 DEF RecordPartner, Calculating
    <3>4. duplicate_docs' = [duplicate_docs EXCEPT ![Owner[e]] = Append(@, e)]
      BY <3>1, <3>2, <3>3 DEF Others, PushesResult
    <3>5. \A x, y \in Docs : Witness(x, y) => y \in Recorded(Owner[y]) \/ y = e
      BY <3>1, <3>2, <3>3, OneFirstPair DEF Witness
    <3>6. /\ \A c \in Clients : Recorded(c) \subseteq Recorded(c)'
          /\ e \in Recorded(Owner[e])'
      BY <3>4, RecordedAppend
    <3>7. \A x, y \in Docs : Witness(x, y) => Witness(x, y)'
      <4> SUFFICES ASSUME NEW x \in Docs, NEW y \in Docs, Witness(x, y)
                   PROVE  Witness(x, y)'
        OBVIOUS
      <4>1. y \in Recorded(Owner[y])'
        BY <3>5, <3>6, ConstantsAssumption
      <4> QED BY <4>1 DEF Witness
    <3>8. Witness(e, d)'
      <4>1. d \in Recorded(Owner[d])
        BY <3>1, <3>2, <3>3 DEF LoneInv, HalfRecorded
      <4> QED BY <4>1, <3>2, <3>6, ConstantsAssumption DEF Witness, CrossPair
    <3>9. NoLoneResult'
      BY <3>4, <3>7, <3>8, LonePush
    <3>10. HalfRecorded'
      BY <3>3, <2>9 DEF RecordPartner, HalfRecorded, TypeOK
    <3> QED BY <3>9, <3>10 DEF LoneInv
  <2> QED BY <1>8, <2>1, <2>2, <2>7, <2>8, <2>9 DEF Calculate
<1> QED BY <1>5, <1>6, <1>7, <1>8 DEF Handler


(* As long as one calculation runs at a time, every recorded duplicate is   *)
(* under its own client and has a recorded, or about to be recorded,        *)
(* counterpart of another client in the same bucket.                        *)
THEOREM ResultsHaveWitnesses == OneCalculatorSpec => []NoLoneResult
<1>1. Init => LoneInv /\ Sorted /\ Paired
  BY DEF Init, LoneInv, NoLoneResult, HalfRecorded, OneCalculator, Recorded, Sorted,
         Paired, Calculating, Each
<1>2. LoneInv => NoLoneResult
  BY DEF LoneInv
<1>3. [Next /\ OneCalculator']_vars => [Next]_vars
  OBVIOUS
<1> QED BY <1>1, <1>2, <1>3, InitType, NextType, SortedPairedNext, LoneNext, PTL
        DEF OneCalculatorSpec

-----------------------------------------------------------------------------
(* Strangers.  A line passes the lookup of its client before the first of   *)
(* its two pushes and enters its bucket after it, and the signatures of a   *)
(* calculation are copies of a bucket: the invariant follows a line along   *)
(* this way.                                                                *)
OnlyKnown(s) == \A i \in DOMAIN s : Owner[s[i].doc] \in Registered
KnownInside ==
  /\ \A d \in candidates : Owner[d] \in Registered
  /\ \A b \in Buckets : OnlyKnown(bucket_candidates[b])
  /\ \A t \in Threads : OnlyKnown(sigs[t])
  /\ \A t \in Threads : pc[t] = "bucket" => Owner[Head(lines[t]).doc] \in Registered
KnownOutside == \A c \in Clients \ Registered : client_keys[c] = 0 /\ duplicate_docs[c] = <<>>

(* The invariant is what the property says, and more.                       *)
LEMMA KnownKeepsOut == KnownInside /\ KnownOutside => StrangersKeptOut
  BY DEF KnownInside, KnownOutside, OnlyKnown, StrangersKeptOut, Stored, DocsOf

(* No stranger is known when the process starts.                            *)
LEMMA KnownInit == Init => KnownInside /\ KnownOutside
  BY ConstantsAssumption DEF Init, KnownInside, KnownOutside, OnlyKnown, Each

(* The end of the process forgets everyone.                                 *)
LEMMA KnownEnd == ASSUME NEW how, End(how) PROVE KnownInside' /\ KnownOutside'
  BY ConstantsAssumption DEF End, KnownInside, KnownOutside, OnlyKnown, Each

(* Steps that leave the containers alone, and store nothing next.           *)
LEMMA KnownQuiet ==
  ASSUME KnownInside, KnownOutside,
         UNCHANGED <<client_keys, candidates, bucket_candidates, duplicate_docs, sigs>>,
         \A t \in Threads : pc'[t] = "bucket" => pc[t] = "bucket" /\ lines'[t] = lines[t]
  PROVE  KnownInside' /\ KnownOutside'
  BY DEF KnownInside, KnownOutside, OnlyKnown

(* Only a registered client gets a key.                                     *)
LEMMA KnownHello ==
  ASSUME TypeOK, KnownInside, KnownOutside, NEW t \in Threads, Hello(t)
  PROVE  KnownInside' /\ KnownOutside'
<1>1. pc' = [pc EXCEPT ![t] = "replied"]
      /\ UNCHANGED <<candidates, bucket_candidates, duplicate_docs, sigs, lines>>
  BY DEF Hello, Answer
<1>2. KnownInside'
  BY <1>1 DEF KnownInside, OnlyKnown, TypeOK
<1>3. \A c \in Clients \ Registered : client_keys'[c] = client_keys[c]
  <2>1. \/ UNCHANGED client_keys
        \/ who[t] \in Registered /\ \E n : client_keys' = [client_keys EXCEPT ![who[t]] = n]
    BY DEF Hello
  <2> QED BY <2>1 DEF TypeOK
<1> QED BY <1>1, <1>2, <1>3 DEF KnownOutside

(* A line whose client is not registered is skipped before any push.        *)
LEMMA KnownUpload ==
  ASSUME TypeOK, KnownInside, KnownOutside, NEW t \in Threads, Upload(t)
  PROVE  KnownInside' /\ KnownOutside'
<1>1. CASE BlockRefused(t) \/ BlockAccepted(t) \/ SkipLine(t) \/ BlockStored(t)
  BY <1>1, KnownQuiet DEF BlockRefused, BlockAccepted, SkipLine, BlockStored, Answer, TypeOK
<1>2. CASE StoreCandidate(t)
  <2>1. /\ Owner[Head(lines[t]).doc] \in Registered
        /\ candidates' \subseteq candidates \cup {Head(lines[t]).doc}
        /\ pc' = [pc EXCEPT ![t] = "bucket"]
        /\ UNCHANGED <<client_keys, bucket_candidates, duplicate_docs, sigs, lines>>
    BY <1>2 DEF StoreCandidate
  <2>2. KnownInside'
    BY <2>1 DEF KnownInside, OnlyKnown, TypeOK
  <2> QED BY <2>1, <2>2 DEF KnownOutside
<1>3. CASE StoreInBucket(t)
  <2> DEFINE x == Head(lines[t])
             b == BucketOf[x.doc]
  <2>1. x \in Candidate /\ b \in Buckets /\ Owner[x.doc] \in Registered
    BY <1>3, NextLine, CandidateFields DEF StoreInBucket, KnownInside
  <2>2. /\ \/ UNCHANGED bucket_candidates
           \/ bucket_candidates' = [bucket_candidates EXCEPT ![b] = Append(bucket_candidates[b], x)]
        /\ pc' = [pc EXCEPT ![t] = "store"]
        /\ lines' = [lines EXCEPT ![t] = Tail(lines[t])]
        /\ UNCHANGED <<client_keys, candidates, duplicate_docs, sigs>>
    BY <1>3 DEF StoreInBucket
  <2> HIDE DEF x, b
  <2>3. bucket_candidates[b] \in Seq(Candidate) /\ OnlyKnown(bucket_candidates[b])
    BY <2>1 DEF TypeOK, KnownInside
  <2>4. OnlyKnown(Append(bucket_candidates[b], x))
    BY <2>1, <2>3 DEF OnlyKnown
  <2>5. \A a \in Buckets : OnlyKnown(bucket_candidates'[a])
    BY <2>1, <2>2, <2>4 DEF TypeOK, KnownInside
  <2>6. \A u \in Threads : pc'[u] = "bucket" => pc[u] = "bucket" /\ lines'[u] = lines[u]
    BY <2>2 DEF TypeOK
  <2>7. KnownInside'
    BY <2>2, <2>5, <2>6 DEF KnownInside, OnlyKnown
  <2> QED BY <2>2, <2>7 DEF KnownOutside
<1>4. CASE LineThrows(t)
  BY <1>4, KnownEnd DEF LineThrows
<1> QED BY <1>1, <1>2, <1>3, <1>4 DEF Upload

(* A pair is recorded under the owners of two signatures.                   *)
LEMMA KnownRecord ==
  ASSUME TypeOK, KnownInside, KnownOutside, NEW t \in Threads,
         RecordPair(t) \/ RecordPartner(t)
  PROVE  KnownInside' /\ KnownOutside'
<1>1. /\ UNCHANGED <<client_keys, candidates, bucket_candidates, sigs, lines>>
      /\ \A u \in Threads : pc'[u] = "bucket" => pc[u] = "bucket"
  BY DEF RecordPair, RecordPartner, TypeOK
<1>2. KnownInside'
  BY <1>1 DEF KnownInside, OnlyKnown
<1>3. \A p \in dups[t] : p[1] \in DOMAIN sigs[t] /\ p[2] \in DOMAIN sigs[t]
  BY DEF TypeOK
<1>4. \A p \in dups[t] : Owner[DocI(t, p)] \in Registered /\ Owner[DocJ(t, p)] \in Registered
  BY <1>3 DEF DocI, DocJ, KnownInside, OnlyKnown
<1>5. \/ UNCHANGED duplicate_docs
      \/ \E c \in Registered : \E l : duplicate_docs' = [duplicate_docs EXCEPT ![c] = l]
  <2>1. CASE RecordPair(t)
    BY <2>1, <1>4 DEF RecordPair
  <2>2. CASE RecordPartner(t)
    BY <2>2, <1>4 DEF RecordPartner
  <2> QED BY <2>1, <2>2
<1>6. \A c \in Clients \ Registered : duplicate_docs'[c] = duplicate_docs[c]
  BY <1>5 DEF TypeOK
<1> QED BY <1>1, <1>2, <1>6 DEF KnownOutside

(* A calculation works on copies of the buckets.                            *)
LEMMA KnownCalculate ==
  ASSUME TypeOK, KnownInside, KnownOutside, NEW t \in Threads, Calculate(t)
  PROVE  KnownInside' /\ KnownOutside'
<1>1. CASE CalculateRefused(t) \/ CalculateStarts(t) \/ LastBucketDone(t)
  BY <1>1, KnownQuiet DEF CalculateRefused, CalculateStarts, LastBucketDone, Answer, TypeOK
<1>2. CASE ScanBucket(t)
  <2>1. /\ UNCHANGED <<client_keys, candidates, bucket_candidates, duplicate_docs, lines>>
        /\ \A u \in Threads : pc'[u] = "bucket" => pc[u] = "bucket"
    BY <1>2 DEF ScanBucket, TypeOK
  <2>2. \/ UNCHANGED sigs
        \/ \E b \in Buckets : sigs' = [sigs EXCEPT ![t] = bucket_candidates[b]]
    BY <1>2 DEF ScanBucket
  <2>3. \A u \in Threads : OnlyKnown(sigs'[u])
    BY <2>2 DEF KnownInside, TypeOK
  <2> QED BY <2>1, <2>3 DEF KnownInside, KnownOutside, OnlyKnown
<1>3. CASE DecryptThrows(t)
  BY <1>3, KnownEnd DEF DecryptThrows
<1>4. CASE RecordPair(t) \/ RecordPartner(t)
  BY <1>4, KnownRecord
<1>5. CASE BucketDone(t)
  BY <1>5 DEF BucketDone, KnownInside, KnownOutside, OnlyKnown, TypeOK
<1>6. CASE ClearCandidates(t)
  BY <1>6 DEF ClearCandidates, KnownInside, KnownOutside, OnlyKnown, TypeOK
<1>7. CASE ClearBuckets(t)
  <2>1. \A b \in Buckets : OnlyKnown(bucket_candidates'[b])
    BY <1>7 DEF ClearBuckets, Each, OnlyKnown
  <2> QED BY <1>7, <2>1 DEF ClearBuckets, Answer, KnownInside, KnownOutside, OnlyKnown, TypeOK
<1> QED BY <1>1, <1>2, <1>3, <1>4, <1>5, <1>6, <1>7 DEF Calculate

(* Every step of the server keeps strangers out.                            *)
LEMMA KnownNext ==
  TypeOK /\ KnownInside /\ KnownOutside /\ [Next]_vars => KnownInside' /\ KnownOutside'
<1> SUFFICES ASSUME TypeOK, KnownInside, KnownOutside, [Next]_vars
             PROVE  KnownInside' /\ KnownOutside'
  OBVIOUS
<1>1. CASE Kill
  BY <1>1, KnownEnd DEF Kill
<1>2. CASE Restart \/ UNCHANGED vars
  BY <1>2, KnownQuiet DEF Restart, vars
<1>3. ASSUME NEW t \in Threads, Request(t) PROVE KnownInside' /\ KnownOutside'
  <2>1. ASSUME NEW point \in Points \ {"bucket"}, NEW c, NEW block, NEW more,
               Take(t, point, c, block, more)
        PROVE  KnownInside' /\ KnownOutside'
    BY <2>1, KnownQuiet DEF Take, TypeOK
  <2>2. CASE HandleCandidates(t) \/ HandleDataHeader(t) \/ HandleUnknown(t) \/ HangUp(t)
    BY <2>2, KnownQuiet DEF HandleCandidates, AnswerCandidates, HandleDataHeader,
                            HandleUnknown, HangUp, Answer, TypeOK
  <2> QED BY <1>3, <2>1, <2>2
          DEF Request, TakeHello, TakeBlock, TakeCalculate, TakeGetResults, Points
<1>4. ASSUME NEW t \in Threads, GetResults(t) \/ Finish(t) PROVE KnownInside' /\ KnownOutside'
  BY <1>4, KnownQuiet DEF GetResults, Finish, Answer, TypeOK
<1> QED BY <1>1, <1>2, <1>3, <1>4, KnownHello, KnownUpload, KnownCalculate DEF Next, Handler

(* A client that is not registered never has a key, a stored candidate or a *)
(* result, though its lines may come in blocks of anyone's, mixed with the  *)
(* lines of registered clients.                                             *)
THEOREM StrangersStayOut == Spec => []StrangersKeptOut
  BY KnownInit, KnownNext, KnownKeepsOut, InitType, NextType, PTL DEF Spec

-----------------------------------------------------------------------------
(* Vector and buckets.  Each of the two is changed in a step of its own, so *)
(* they differ while a thread is between the two pushes of a line, or       *)
(* between the two clears of a calculation.                                 *)

Between == {"bucket", "clear_buckets"}
Agreeing ==
  /\ (\A t \in Threads : pc[t] \notin Between) => candidates = Stored
  /\ \A t \in Threads : pc[t] = "bucket" => candidates = Stored \cup {Head(lines[t]).doc}
  /\ \A t \in Threads : pc[t] = "clear_buckets" => candidates = {}

(* The invariant says of idle threads what the property says.               *)
LEMMA AgreeingStores == Agreeing => StoresAgree
  BY DEF Agreeing, StoresAgree, Between, Busy

(* The containers are empty when the process starts and when it has ended.  *)
LEMMA AgreeingInit == Init => Agreeing
  BY StoredEmpty DEF Init, Agreeing, Between, Each

(* A process that has ended stores nothing.                                 *)
LEMMA AgreeingEnd == ASSUME NEW how, End(how) PROVE Agreeing'
<1>1. bucket_candidates' = Each(Buckets, <<>>) /\ candidates' = {}
      /\ \A t \in Threads : pc'[t] = "idle"
  BY DEF End, Each
<1>2. Stored' = {}
  BY <1>1, DocsOfEmpty DEF Stored, Each
<1> QED BY <1>1, <1>2 DEF Agreeing, Between

(* Steps that leave the containers alone, between two such changes or not.  *)
LEMMA AgreeingQuiet ==
  ASSUME Agreeing, UNCHANGED <<candidates, bucket_candidates>>,
         \A t \in Threads : pc[t] \in Between \/ pc'[t] \in Between =>
                              pc'[t] = pc[t] /\ lines'[t] = lines[t]
  PROVE  Agreeing'
<1>1. Stored' = Stored
  BY DEF Stored
<1> QED BY <1>1 DEF Agreeing, Between

(* The other threads are between nothing while one is busy.                 *)
LEMMA OthersRest ==
  ASSUME OneRequest, NEW t \in Threads, Busy(t)
  PROVE  \A u \in Threads \ {t} : pc[u] \notin Between /\ pc[u] \notin {"store", "clear"}
  BY DEF OneRequest, Busy, Between

(* The two pushes of a line.                                                *)
LEMMA AgreeingUpload ==
  ASSUME TypeOK, OneRequest, Agreeing, NEW t \in Threads, Upload(t)
  PROVE  Agreeing'
<1>1. CASE BlockRefused(t) \/ BlockAccepted(t) \/ SkipLine(t) \/ BlockStored(t)
  BY <1>1, AgreeingQuiet
     DEF BlockRefused, BlockAccepted, SkipLine, BlockStored, Answer, Between, TypeOK
<1>2. CASE StoreCandidate(t)
  <2> DEFINE d == Head(lines[t]).doc
  <2>1. pc[t] = "store" /\ \A u \in Threads \ {t} : pc[u] \notin Between /\ pc[u] # "store"
    BY <1>2, OthersRest DEF StoreCandidate, Busy
  <2>2. candidates' = candidates \cup {d} /\ pc' = [pc EXCEPT ![t] = "bucket"]
        /\ UNCHANGED <<bucket_candidates, lines>>
    BY <1>2, <2>1 DEF StoreCandidate, Others, PushesCandidate
  <2>3. candidates = Stored /\ Stored' = Stored
    BY <2>1, <2>2 DEF Agreeing, Between, Stored
  <2>4. pc'[t] = "bucket" /\ \A u \in Threads \ {t} : pc'[u] \notin Between
    BY <2>1, <2>2 DEF TypeOK
  <2> QED BY <2>2, <2>3, <2>4 DEF Agreeing, Between
<1>3. CASE StoreInBucket(t)
  <2> DEFINE x == Head(lines[t])
  <2>1. pc[t] = "bucket" /\ \A u \in Threads \ {t} : pc[u] \notin Between
    BY <1>3, OthersRest DEF StoreInBucket, Busy
  <2>2. /\ bucket_candidates' = [bucket_candidates EXCEPT ![BucketOf[x.doc]] = Append(@, x)]
        /\ pc' = [pc EXCEPT ![t] = "store"] /\ candidates' = candidates
    BY <1>3, <2>1 DEF StoreInBucket, Others, PushesInBucket, Between
  <2>3. candidates = Stored \cup {x.doc}
    BY <2>1 DEF Agreeing
  <2>4. x \in Candidate
    BY <2>1, NextLine
  <2> HIDE DEF x
  <2>5. Stored' = Stored \cup {x.doc}
    BY <2>2, <2>4, StoredAppend
  <2>6. \A u \in Threads : pc'[u] \notin Between
    BY <2>1, <2>2 DEF TypeOK, Between
  <2> QED BY <2>2, <2>3, <2>5, <2>6 DEF Agreeing, Between
<1>4. CASE LineThrows(t)
  BY <1>4, AgreeingEnd DEF LineThrows
<1> QED BY <1>1, <1>2, <1>3, <1>4 DEF Upload

(* The two clears of a calculation.                                         *)
LEMMA AgreeingCalculate ==
  ASSUME TypeOK, OneRequest, Agreeing, NEW t \in Threads, Calculate(t)
  PROVE  Agreeing'
<1>1. CASE CalculateRefused(t) \/ CalculateStarts(t) \/ BucketDone(t) \/ LastBucketDone(t)
  BY <1>1, AgreeingQuiet
     DEF CalculateRefused, CalculateStarts, BucketDone, LastBucketDone, Answer, Between, TypeOK
<1>2. CASE ScanBucket(t) \/ RecordPair(t) \/ RecordPartner(t)
  <2>1. /\ UNCHANGED <<candidates, bucket_candidates, lines>>
        /\ pc[t] \in {"scan", "pairs", "partner"}
        /\ pc' = pc \/ \E p \in {"pairs", "partner"} : pc' = [pc EXCEPT ![t] = p]
    BY <1>2 DEF ScanBucket, RecordPair, RecordPartner
  <2>2. \A u \in Threads : pc[u] \in Between \/ pc'[u] \in Between => pc'[u] = pc[u]
    BY <2>1 DEF Between, TypeOK
  <2> QED BY <2>1, <2>2, AgreeingQuiet
<1>3. CASE DecryptThrows(t)
  BY <1>3, AgreeingEnd DEF DecryptThrows
<1>4. CASE ClearCandidates(t)
  <2>1. pc[t] = "clear" /\ candidates' = {} /\ pc' = [pc EXCEPT ![t] = "clear_buckets"]
    BY <1>4 DEF ClearCandidates
  <2>2. pc'[t] = "clear_buckets" /\ \A u \in Threads \ {t} : pc'[u] \notin Between
    BY <2>1, OthersRest DEF Busy, TypeOK
  <2> QED BY <2>1, <2>2 DEF Agreeing, Between
<1>5. CASE ClearBuckets(t)
  <2>1. /\ pc[t] = "clear_buckets" /\ bucket_candidates' = Each(Buckets, <<>>)
        /\ pc' = [pc EXCEPT ![t] = "replied"] /\ candidates' = candidates
    BY <1>5 DEF ClearBuckets, Answer
  <2>2. Stored' = {} /\ candidates' = {}
    BY <2>1, DocsOfEmpty DEF Agreeing, Stored, Each
  <2>3. \A u \in Threads : pc'[u] \notin Between
    BY <2>1, OthersRest DEF Busy, TypeOK, Between
  <2> QED BY <2>2, <2>3 DEF Agreeing, Between
<1> QED BY <1>1, <1>2, <1>3, <1>4, <1>5 DEF Calculate

(* With one request at a time every step keeps the two in agreement.        *)
LEMMA AgreeingNext ==
  TypeOK /\ OneRequest /\ Agreeing /\ [Next]_vars => Agreeing'
<1> SUFFICES ASSUME TypeOK, OneRequest, Agreeing, [Next]_vars PROVE Agreeing'
  OBVIOUS
<1>1. CASE Kill
  BY <1>1, AgreeingEnd DEF Kill
<1>2. CASE Restart \/ UNCHANGED vars
  BY <1>2, AgreeingQuiet DEF Restart, vars
<1>3. ASSUME NEW t \in Threads, Request(t) PROVE Agreeing'
  <2>1. ASSUME NEW point \in {"hello", "block", "calculate", "get"}, NEW c, NEW block, NEW more,
               Take(t, point, c, block, more)
        PROVE  Agreeing'
    BY <2>1, AgreeingQuiet DEF Take, Between, TypeOK
  <2>2. CASE HandleCandidates(t) \/ HandleDataHeader(t) \/ HandleUnknown(t) \/ HangUp(t)
    BY <2>2, AgreeingQuiet DEF HandleCandidates, AnswerCandidates, HandleDataHeader,
                               HandleUnknown, HangUp, Answer, Between, TypeOK
  <2> QED BY <1>3, <2>1, <2>2
          DEF Request, TakeHello, TakeBlock, TakeCalculate, TakeGetResults
<1>4. ASSUME NEW t \in Threads, Hello(t) \/ GetResults(t) \/ Finish(t) PROVE Agreeing'
  BY <1>4, AgreeingQuiet DEF Hello, GetResults, Finish, Answer, Between, TypeOK
<1> QED BY <1>1, <1>2, <1>3, <1>4, AgreeingUpload, AgreeingCalculate DEF Next, Handler

(* With one request at a time the vector that CALCULATE tests for emptiness *)
(* and the buckets it compares hold the same documents between requests.    *)
THEOREM SerialStoresAgree == SerialSpec => []StoresAgree
<1>1. Init => OneRequest
  BY DEF Init, OneRequest, Busy, Each
<1>2. TypeOK /\ OneRequest /\ [SerialNext]_vars => [Next]_vars /\ OneRequest'
  <2>1. CASE UNCHANGED vars
    BY <2>1, PointStays DEF vars
  <2>2. CASE SerialNext
    BY <2>2, SerialStep, PointStays DEF vars
  <2> QED BY <2>1, <2>2
<1> QED BY <1>1, <1>2, InitType, NextType, AgreeingInit, AgreeingNext, AgreeingStores,
           PTL DEF SerialSpec

=============================================================================
