----------------------------- MODULE LocalDedup -----------------------------
(***************************************************************************)
(* The client's local deduplication (src/fed/union_find.cpp and            *)
(* FedClient::perform_local_deduplication): every pair of candidates is    *)
(* compared, similar ones are merged by rank, and of each component only   *)
(* the first candidate stays.  find() compresses paths as root() of Forest *)
(* does.                                                                   *)
(***************************************************************************)
EXTENDS Integers, Sequences, FiniteSets, Forest

CONSTANT MaxDocs  \* bound: candidates before the deduplication

ASSUME MaxDocsAssumption == MaxDocs \in Nat

VARIABLES
  num_docs,          \* candidates
  alike,             \* pairs <<i, j>>, i < j, whose similarity reaches the threshold
  stage,             \* "compare" or "filtered"
  i, j,              \* the pair compared next
  parent,            \* parent_
  rank,              \* rank_
  local_candidates   \* the candidates that are left

vars == <<num_docs, alike, stage, i, j, parent, rank, local_candidates>>

Docs  == 1..num_docs
Pairs(n) == {p \in (1..n) \X (1..n) : p[1] < p[2]}

Init ==
  /\ num_docs \in 1..MaxDocs
  /\ alike \in SUBSET Pairs(num_docs)
  /\ stage = "compare"
  /\ i = 1 /\ j = 2
  /\ parent = Singletons(1..num_docs)
  /\ rank = [d \in 1..num_docs |-> 0]
  /\ local_candidates = 1..num_docs

-----------------------------------------------------------------------------
(* Mutant: y itself, not its root, is hung below the root of x.             *)
MergeChild(x, y) ==
  /\ parent' = [Compress(Compress(parent, x), y) EXCEPT ![y] = Root(parent, x)]
  /\ UNCHANGED rank

(* Mutant: the ranks are not looked at.                                     *)
MergeNoRank(x, y) ==
  /\ parent' = [Compress(Compress(parent, x), y) EXCEPT ![Root(parent, x)] = Root(parent, y)]
  /\ UNCHANGED rank

(* merge(x, y): the root of lower rank goes below the other.                *)
MergeByRank(x, y) ==
  LET flat == Compress(Compress(parent, x), y)
      rx   == Root(parent, x)
      ry   == Root(parent, y)
  IN
  \/ /\ rx = ry
     /\ parent' = flat
     /\ UNCHANGED rank
  \/ /\ rx # ry
     /\ parent' = IF rank[rx] < rank[ry] THEN [flat EXCEPT ![rx] = ry]
                                         ELSE [flat EXCEPT ![ry] = rx]
     /\ rank' = IF rank[rx] = rank[ry] THEN [rank EXCEPT ![rx] = @ + 1] ELSE rank

(* perform_local_deduplication of LocalDeduplicator: the two loops.         *)
Advance ==
  IF j < num_docs THEN j' = j + 1 /\ UNCHANGED i
                  ELSE i' = i + 1 /\ j' = i + 2

(* Mutant: the outer loop runs once too often.                              *)
ComparePairTooFar ==
  /\ stage = "compare"
  /\ i <= num_docs
  /\ IF <<i, j>> \in alike THEN MergeByRank(i, j) ELSE UNCHANGED <<parent, rank>>
  /\ Advance
  /\ UNCHANGED <<num_docs, alike, stage, local_candidates>>

ComparePair ==
  /\ stage = "compare"
  /\ i < num_docs
  /\ IF <<i, j>> \in alike THEN MergeByRank(i, j) ELSE UNCHANGED <<parent, rank>>
  /\ Advance
  /\ UNCHANGED <<num_docs, alike, stage, local_candidates>>

(* get_components looks up every root and lists the members of a component  *)
(* in order; get_duplicate_document_ids takes all but the first.            *)
Component(d) == {e \in Docs : Together(parent, d, e)}

(* Mutant: the last of a component is kept.                                 *)
AllButTheLast == {d \in Docs : \E e \in Component(d) : e > d}
Duplicates == {d \in Docs : \E e \in Component(d) : e < d}

Filter ==
  /\ stage = "compare"
  /\ i >= num_docs
  /\ stage' = "filtered"
  /\ parent' = [d \in Docs |-> Root(parent, d)]
  /\ local_candidates' = local_candidates \ Duplicates
  /\ UNCHANGED <<num_docs, alike, i, j, rank>>

Next == ComparePair \/ Filter
Spec == Init /\ [][Next]_vars

-----------------------------------------------------------------------------
(* Properties                                                               *)

(* The type invariant: the loops stay inside the list of candidates.        *)
TypeOK ==
  /\ num_docs \in 1..MaxDocs /\ alike \subseteq Pairs(num_docs)
  /\ stage \in {"compare", "filtered"}
  /\ i \in 1..num_docs /\ j \in 1..(num_docs + 1)
  /\ parent \in [Docs -> Docs] /\ rank \in [Docs -> 0..num_docs]
  /\ local_candidates \subseteq Docs

(* The pairs that the loops have been through.                              *)
Compared == {p \in Pairs(num_docs) : p[1] < i \/ (p[1] = i /\ p[2] < j)}

(* At every moment the sets are the connected components of the similar     *)
(* pairs compared so far, whatever shape path compression and the ranks     *)
(* have given the trees.                                                    *)
ComponentsExact ==
  \A d \in Docs : Component(d) = Linked(Docs, alike \cap Compared, d)

(* The steps of find() from d to its root.                                  *)
Depth(d) == Cardinality(Path(parent, d)) - 1

(* find() recurses along a path: union by rank keeps it logarithmic.        *)
ShallowTrees ==
  \A d \in Docs : Power2[Depth(d)] <= Cardinality(Component(d))

(* What is sent to the server: of every group of candidates that chains of  *)
(* similarity connect, the first one, and only that.                        *)
FirstOfEachKept ==
  stage = "filtered" =>
    local_candidates =
      {d \in Docs : \A e \in Linked(Docs, alike, d) : d <= e}
=============================================================================
