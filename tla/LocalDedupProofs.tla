-------------------------- MODULE LocalDedupProofs --------------------------
(* Theorems about LocalDedup, for any number of candidates and any pairs    *)
(* that are similar.                                                        *)
EXTENDS LocalDedup, ForestProofs, FiniteSetTheorems

-----------------------------------------------------------------------------
(* Union by rank.  Ranks grow on the way up, and a root of rank n has at    *)
(* least 2^n documents below it.                                            *)
RankOK(par, rk) == \A x \in DOMAIN par : par[x] # x => rk[x] < rk[par[x]]
Tree(par, r)    == {e \in DOMAIN par : Root(par, e) = r}
HeavyOK(par, rk) ==
  \A r \in DOMAIN par : par[r] = r => Power2[rk[r]] <= Cardinality(Tree(par, r))

(* Ranks grow towards the root, so a way up is no longer than the rank of   *)
(* the root.                                                                *)
LEMMA RankToRoot ==
  ASSUME NEW D, NEW par \in [D -> D], Acyclic(par),
         NEW rk \in [D -> Nat], RankOK(par, rk), NEW x \in D
  PROVE  /\ par[x] # x => rk[x] < rk[Root(par, x)]
         /\ Cardinality(Path(par, x)) \in Nat \ {0}
         /\ Cardinality(Path(par, x)) + rk[x] <= rk[Root(par, x)] + 1
<1> DEFINE Good(y) == /\ par[y] # y => rk[y] < rk[Root(par, y)]
                      /\ IsFiniteSet(Path(par, y))
                      /\ Cardinality(Path(par, y)) \in Nat \ {0}
                      /\ Cardinality(Path(par, y)) + rk[y] <= rk[Root(par, y)] + 1
           T == {y \in D : ~Good(y)}
<1>1. T = {}
  <2> SUFFICES ASSUME T # {} PROVE FALSE
    OBVIOUS
  <2>1. PICK y \in T : par[y] = y \/ par[y] \notin T
    BY DEF Acyclic
  <2>2. y \in D /\ par[y] \in D /\ ~Good(y)
    OBVIOUS
  <2> HIDE DEF T
  <2>3. /\ Path(par, y) = IF par[y] = y THEN {y} ELSE {y} \cup Path(par, par[y])
        /\ Root(par, par[y]) = Root(par, y) /\ (par[y] = y => Root(par, y) = y)
        /\ Root(par, y) \in D
    BY <2>2, PathStep, RootFacts
  <2>4. rk[y] \in Nat /\ rk[par[y]] \in Nat /\ rk[Root(par, y)] \in Nat
    BY <2>2, <2>3
  <2>5. CASE par[y] = y
    <3>1. IsFiniteSet({y}) /\ Cardinality({y}) = 1
      BY FS_Singleton
    <3> QED BY <2>2, <2>3, <2>4, <2>5, <3>1
  <2>6. CASE par[y] # y
    <3>1. Good(par[y])
      BY <2>1, <2>2, <2>6 DEF T
    <3>2. /\ IsFiniteSet(Path(par, y))
          /\ Cardinality(Path(par, y)) \in Nat \ {0}
          /\ Cardinality(Path(par, y)) <= Cardinality(Path(par, par[y])) + 1
      <4> DEFINE P == Path(par, par[y])
      <4>1. IsFiniteSet(P) /\ Cardinality(P) \in Nat \ {0}
        BY <3>1
      <4>2. Path(par, y) = P \cup {y}
        BY <2>3, <2>6
      <4> HIDE DEF P
      <4>3. /\ IsFiniteSet(P \cup {y})
            /\ Cardinality(P \cup {y}) = IF y \in P THEN Cardinality(P) ELSE Cardinality(P) + 1
        BY <4>1, FS_AddElement
      <4>4. Cardinality(Path(par, y)) \in Nat \ {0} /\ Cardinality(Path(par, y)) <= Cardinality(P) + 1
        BY <4>1, <4>2, <4>3
      <4> QED BY <4>2, <4>3, <4>4 DEF P
    <3>3. rk[y] < rk[par[y]]
      BY <2>2, <2>6 DEF RankOK
    <3>4. rk[par[y]] <= rk[Root(par, y)]
      BY <2>3, <2>4, <3>1
    <3>5. /\ Cardinality(Path(par, par[y])) \in Nat
          /\ Cardinality(Path(par, par[y])) + rk[par[y]] <= rk[Root(par, y)] + 1
      BY <2>3, <3>1
    <3> QED BY <2>2, <2>4, <3>2, <3>3, <3>4, <3>5
  <2> QED BY <2>5, <2>6
<1>2. Good(x)
  <2> HIDE DEF Good
  <2> QED BY <1>1
<1> QED BY <1>2

(* Sending nodes to their roots keeps the ranks growing.                    *)
LEMMA ShortcutRank ==
  ASSUME NEW D, NEW par \in [D -> D], Acyclic(par), NEW q, Shortcut(par, q),
         NEW rk \in [D -> Nat], RankOK(par, rk)
  PROVE  RankOK(q, rk)
<1>1. q \in [D -> D] /\ \A y \in D : q[y] = par[y] \/ q[y] = Root(par, y)
  BY DEF Shortcut
<1> SUFFICES ASSUME NEW y \in D, q[y] # y PROVE rk[y] < rk[q[y]]
  BY <1>1 DEF RankOK
<1>2. CASE q[y] = par[y]
  BY <1>2 DEF RankOK
<1>3. CASE q[y] = Root(par, y)
  <2>1. par[y] # y
    BY <1>3, RootFacts
  <2> QED BY <1>3, <2>1, RankToRoot
<1> QED BY <1>1, <1>2, <1>3

(* So do the two finds of a merge.                                          *)
LEMMA FlatRank ==
  ASSUME NEW D, NEW par \in [D -> D], Acyclic(par), NEW x \in D, NEW y \in D,
         NEW flat, flat = Compress(Compress(par, x), y),
         NEW rk \in [D -> Nat], RankOK(par, rk)
  PROVE  RankOK(flat, rk)
<1> DEFINE once == Compress(par, x)
<1>1. once \in [D -> D] /\ Acyclic(once) /\ RankOK(once, rk)
  BY CompressShortcuts, CompressKeeps, ShortcutRank
<1> HIDE DEF once
<1>2. flat = Compress(once, y)
  BY DEF once
<1> QED BY <1>1, <1>2, CompressShortcuts, ShortcutRank

(* No rank is as high as the number of documents.                           *)
LEMMA RankBound ==
  ASSUME NEW D, IsFiniteSet(D), NEW par \in [D -> D], Acyclic(par),
         NEW rk \in [D -> Nat], RankOK(par, rk), HeavyOK(par, rk), NEW x \in D
  PROVE  rk[x] < Cardinality(D)
<1> DEFINE r == Root(par, x)
<1>1. r \in D /\ par[r] = r /\ (r = x <=> par[x] = x)
  BY RootFacts
<1>2. par[x] # x => rk[x] < rk[r]
  BY RankToRoot
<1> HIDE DEF r
<1>3. Tree(par, r) \in SUBSET D
  BY DEF Tree
<1>4. Cardinality(Tree(par, r)) <= Cardinality(D) /\ Cardinality(Tree(par, r)) \in Nat
      /\ Cardinality(D) \in Nat
  BY <1>3, FS_Subset, FS_CardinalityType
<1>5. Power2[rk[r]] <= Cardinality(Tree(par, r))
  BY <1>1 DEF HeavyOK
<1>6. rk[r] \in Nat /\ rk[x] \in Nat /\ Power2[rk[r]] \in Nat /\ rk[r] < Power2[rk[r]]
  BY <1>1, Power2Grows
<1> QED BY <1>1, <1>2, <1>4, <1>5, <1>6

(* The root s goes below the root r, whose rank is not lower.               *)
LEMMA LinkByRank ==
  ASSUME NEW D, IsFiniteSet(D), NEW par \in [D -> D], Acyclic(par),
         NEW rk \in [D -> Nat], RankOK(par, rk), HeavyOK(par, rk),
         NEW r \in D, NEW s \in D, par[r] = r, par[s] = s, r # s, rk[s] <= rk[r],
         NEW q \in [D -> D], q[s] = r, \A x \in D : x # s => q[x] = par[x],
         NEW new \in [D -> Nat], \A x \in D : x # r => new[x] = rk[x],
         new[r] = IF rk[s] = rk[r] THEN rk[r] + 1 ELSE rk[r]
  PROVE  RankOK(q, new) /\ HeavyOK(q, new)
<1>1. RankOK(q, new)
  <2> SUFFICES ASSUME NEW x \in D, q[x] # x PROVE new[x] < new[q[x]]
    BY DEF RankOK
  <2>0. q[x] \in D /\ par[x] \in D /\ rk[x] \in Nat /\ rk[par[x]] \in Nat /\ rk[r] \in Nat /\ rk[s] \in Nat
    OBVIOUS
  <2>1. CASE x = s
    BY <2>0, <2>1
  <2>2. CASE x # s
    <3>1. q[x] = par[x] /\ x # r
      BY <2>2
    <3>2. rk[x] < rk[par[x]]
      BY <3>1 DEF RankOK
    <3>3. new[x] = rk[x] /\ rk[par[x]] <= new[par[x]]
      BY <2>0, <3>1
    <3> QED BY <2>0, <3>1, <3>2, <3>3
  <2> QED BY <2>1, <2>2
<1>2. \A x \in D : Root(q, x) = IF Root(par, x) = s THEN r ELSE Root(par, x)
  BY LinkJoins
<1>3. HeavyOK(q, new)
  <2> SUFFICES ASSUME NEW z \in D, q[z] = z PROVE Power2[new[z]] <= Cardinality(Tree(q, z))
    BY DEF HeavyOK
  <2>1. z # s /\ par[z] = z
    OBVIOUS
  <2>2. CASE z # r
    <3>1. Tree(q, z) = Tree(par, z)
      BY <1>2, <2>1, <2>2 DEF Tree
    <3> QED BY <2>1, <2>2, <3>1 DEF HeavyOK
  <2>3. CASE z = r
    <3> DEFINE A == Tree(par, r)
               B == Tree(par, s)
    <3>1. Tree(q, r) = A \cup B /\ A \cap B = {} /\ A \in SUBSET D /\ B \in SUBSET D
      BY <1>2 DEF Tree
    <3>2. Power2[rk[r]] <= Cardinality(A) /\ Power2[rk[s]] <= Cardinality(B)
      BY DEF HeavyOK
    <3> HIDE DEF A, B
    <3>3. IsFiniteSet(A) /\ IsFiniteSet(B) /\ Cardinality(A) \in Nat /\ Cardinality(B) \in Nat
      BY <3>1, FS_Subset, FS_CardinalityType
    <3>4. Cardinality(A \cup B) = Cardinality(A) + Cardinality(B) - Cardinality(A \cap B)
      BY <3>3, FS_Union
    <3>5. Cardinality(A \cap B) = 0
      BY <3>1, FS_EmptySet
    <3>6. /\ rk[r] \in Nat /\ rk[s] \in Nat
          /\ Power2[rk[r]] \in Nat /\ Power2[rk[s]] \in Nat
          /\ Power2[rk[r] + 1] = 2 * Power2[rk[r]]
      BY Power2Grows
    <3>7. CASE rk[s] = rk[r]
      <4>1. Power2[new[r]] = 2 * Power2[rk[r]] /\ Power2[rk[s]] = Power2[rk[r]]
        BY <3>6, <3>7
      <4> QED BY <2>3, <3>1, <3>2, <3>3, <3>4, <3>5, <3>6, <4>1
    <3>8. CASE rk[s] # rk[r]
      <4>1. new[r] = rk[r]
        BY <3>8
      <4> QED BY <2>3, <3>1, <3>2, <3>3, <3>4, <3>5, <3>6, <4>1
    <3> QED BY <3>7, <3>8
  <2> QED BY <2>2, <2>3
<1> QED BY <1>1, <1>3

(* How heavy a tree is depends on the roots alone.                          *)
LEMMA SameRootsHeavy ==
  ASSUME NEW D, NEW par \in [D -> D], Acyclic(par), NEW q \in [D -> D], Acyclic(q),
         \A x \in D : Root(q, x) = Root(par, x), NEW rk, HeavyOK(par, rk)
  PROVE  HeavyOK(q, rk)
<1>1. \A z \in D : Tree(q, z) = Tree(par, z)
  BY DEF Tree
<1>2. ASSUME NEW z \in D, q[z] = z PROVE par[z] = z
  <2>1. Root(q, z) = z
    BY <1>2, RootFacts
  <2>2. Root(par, z) = z
    BY <2>1
  <2> QED BY <2>2, RootFacts
<1> QED BY <1>1, <1>2 DEF HeavyOK

-----------------------------------------------------------------------------
(* The inductive invariant.                                                 *)
ForestInv ==
  /\ parent \in [Docs -> Docs] /\ Acyclic(parent)
  /\ rank \in [Docs -> Nat] /\ RankOK(parent, rank) /\ HeavyOK(parent, rank)

LoopInv ==
  /\ num_docs \in 1..MaxDocs /\ alike \subseteq Pairs(num_docs)
  /\ stage \in {"compare", "filtered"}
  /\ i \in 1..num_docs /\ j \in 1..(num_docs + 1)
  /\ i < j /\ (i < num_docs => j <= num_docs)
  /\ stage = "compare" => local_candidates = Docs
  /\ stage = "filtered" => i = num_docs /\ local_candidates = Docs \ Duplicates

IInv == LoopInv /\ ForestInv /\ Joins(parent, alike \cap Compared)

(* The documents of a run are finitely many.                                *)
LEMMA DocsFinite ==
  ASSUME num_docs \in 1..MaxDocs
  PROVE  IsFiniteSet(Docs) /\ Cardinality(Docs) = num_docs /\ num_docs \in Nat
<1>1. num_docs \in Int /\ num_docs >= 1
  BY MaxDocsAssumption
<1> QED BY <1>1, FS_Interval DEF Docs

(* The invariant holds at the start.                                        *)
LEMMA InitHolds == Init => IInv
<1> SUFFICES ASSUME Init PROVE IInv
  OBVIOUS
<1>1. /\ num_docs \in 1..MaxDocs /\ num_docs \in Nat \ {0} /\ alike \subseteq Pairs(num_docs)
      /\ stage = "compare" /\ i = 1 /\ j = 2 /\ local_candidates = Docs
      /\ parent = Singletons(Docs) /\ rank = [d \in Docs |-> 0]
  BY MaxDocsAssumption DEF Init, Docs
<1>2. LoopInv
  BY <1>1 DEF LoopInv
<1>3. parent \in [Docs -> Docs] /\ Acyclic(parent) /\ \A S : Respects(parent, S)
  BY <1>1, SingletonsRespect
<1>4. \A d \in Docs : parent[d] = d /\ rank[d] = 0
  BY <1>1 DEF Singletons
<1>5. HeavyOK(parent, rank)
  <2> SUFFICES ASSUME NEW r \in Docs PROVE Power2[rank[r]] <= Cardinality(Tree(parent, r))
    BY <1>3 DEF HeavyOK
  <2>1. r \in Tree(parent, r) /\ Tree(parent, r) \in SUBSET Docs
    BY <1>3, <1>4, RootFacts DEF Tree
  <2>2. IsFiniteSet(Docs)
    BY <1>1, DocsFinite
  <2>3. IsFiniteSet(Tree(parent, r)) /\ Cardinality(Tree(parent, r)) \in Nat
    BY <2>1, <2>2, FS_Subset, FS_CardinalityType
  <2>4. Cardinality(Tree(parent, r)) # 0
    BY <2>1, <2>3, FS_EmptySet
  <2> QED BY <1>4, <2>3, <2>4, Power2Grows
<1>6. ForestInv
  BY <1>1, <1>3, <1>4, <1>5 DEF ForestInv, RankOK
<1>7. alike \cap Compared = {}
  BY <1>1 DEF Compared, Pairs
<1>8. Joins(parent, alike \cap Compared)
  BY <1>3, <1>7 DEF Joins, Closed
<1> QED BY <1>2, <1>6, <1>8 DEF IInv

(* Union by rank joins the two trees and keeps the ranks honest.            *)
LEMMA MergedByRank ==
  ASSUME IInv, NEW x \in Docs, NEW y \in Docs, MergeByRank(x, y), UNCHANGED num_docs
  PROVE  /\ ForestInv'
         /\ parent' \in [Docs -> Docs]
         /\ \A S : Respects(parent', S) <=> Respects(parent, S) /\ (x \in S <=> y \in S)
<1> DEFINE flat == Compress(Compress(parent, x), y)
           rx == Root(parent, x)
           ry == Root(parent, y)
<1>0. Docs' = Docs /\ IsFiniteSet(Docs)
  BY DocsFinite DEF Docs, IInv, LoopInv
<1>1. ForestInv
  BY DEF IInv
<1>2. /\ \/ rx = ry /\ parent' = flat /\ rank' = rank
         \/ /\ rx # ry
            /\ parent' = IF rank[rx] < rank[ry] THEN [flat EXCEPT ![rx] = ry] ELSE [flat EXCEPT ![ry] = rx]
            /\ rank' = IF rank[rx] = rank[ry] THEN [rank EXCEPT ![rx] = @ + 1] ELSE rank
  BY DEF MergeByRank
<1>3. flat = Compress(Compress(parent, x), y)
  OBVIOUS
<1> HIDE DEF flat
<1>4. /\ flat \in [Docs -> Docs] /\ Acyclic(flat)
      /\ \A z \in Docs : Root(flat, z) = Root(parent, z)
      /\ rx \in Docs /\ flat[rx] = rx /\ ry \in Docs /\ flat[ry] = ry
  BY <1>1, <1>3, FlatKeeps DEF ForestInv
<1>5. RankOK(flat, rank) /\ HeavyOK(flat, rank)
  BY <1>1, <1>3, <1>4, FlatRank, SameRootsHeavy DEF ForestInv
<1>6. \A z \in Docs : Root(parent, z) \in Docs /\ Root(parent, Root(parent, z)) = Root(parent, z)
  BY <1>1, RootFacts DEF ForestInv
<1>7. rank \in [Docs -> Nat] /\ parent \in [Docs -> Docs] /\ Acyclic(parent)
  BY <1>1 DEF ForestInv
<1> HIDE DEF rx, ry
<1>8. CASE rx = ry
  <2>1. parent' = flat /\ rank' = rank
    BY <1>2, <1>8
  <2>2. \A S : Respects(flat, S) <=> Respects(parent, S)
    BY <1>4, <1>7, SameRootsRespect
  <2>3. \A S : Respects(parent, S) => (x \in S <=> y \in S)
    BY <1>7, <1>8, RespectsRoots DEF rx, ry
  <2> QED BY <1>0, <1>4, <1>5, <1>7, <2>1, <2>2, <2>3 DEF ForestInv
<1>9. CASE rx # ry
  <2>1. /\ parent' = IF rank[rx] < rank[ry] THEN [flat EXCEPT ![rx] = ry] ELSE [flat EXCEPT ![ry] = rx]
        /\ rank' = IF rank[rx] = rank[ry] THEN [rank EXCEPT ![rx] = @ + 1] ELSE rank
    BY <1>2, <1>9
  <2>2. rank[rx] \in Nat /\ rank[ry] \in Nat
    BY <1>4, <1>7
  <2>3. parent' \in [Docs -> Docs] /\ rank' \in [Docs -> Nat]
    BY <1>4, <1>7, <2>1, <2>2
  <2> DEFINE Hangs(r, s) ==
        /\ rank[s] <= rank[r] /\ parent'[s] = r
        /\ \A z \in Docs : z # s => parent'[z] = flat[z]
        /\ \A z \in Docs : z # r => rank'[z] = rank[z]
        /\ rank'[r] = IF rank[s] = rank[r] THEN rank[r] + 1 ELSE rank[r]
  <2>4. PICK r \in Docs, s \in Docs : ((r = rx /\ s = ry) \/ (r = ry /\ s = rx)) /\ Hangs(r, s)
    <3>1. CASE rank[rx] < rank[ry]
      <4>1. Hangs(ry, rx)
        BY <1>4, <2>1, <2>2, <3>1
      <4> HIDE DEF Hangs
      <4> QED BY <1>4, <4>1
    <3>2. CASE ~(rank[rx] < rank[ry])
      <4>1. Hangs(rx, ry)
        BY <1>4, <1>7, <2>1, <2>2, <3>2
      <4> HIDE DEF Hangs
      <4> QED BY <1>4, <4>1
    <3> QED BY <3>1, <3>2
  <2>5. flat[r] = r /\ flat[s] = s /\ r # s
    BY <1>4, <1>9, <2>4
  <2>6. Acyclic(parent') /\ \A z \in Docs : Root(parent', z) = IF Root(flat, z) = s THEN r ELSE Root(flat, z)
    BY <1>4, <2>3, <2>4, <2>5, LinkJoins
  <2>7. RankOK(parent', rank') /\ HeavyOK(parent', rank')
    BY <1>0, <1>4, <1>5, <1>7, <2>3, <2>4, <2>5, LinkByRank, SMTT(60)
  <2>8. \A z \in Docs : Root(parent', z) = IF Root(parent, z) = s THEN r ELSE Root(parent, z)
    BY <1>4, <2>6
  <2>9. \A S : Respects(parent', S) <=> Respects(parent, S) /\ (x \in S <=> y \in S)
    <3>1. CASE r = rx /\ s = ry
      <4>1. \A z \in Docs : Root(parent', z) = IF Root(parent, z) = Root(parent, y) THEN Root(parent, x) ELSE Root(parent, z)
        BY <2>8, <3>1 DEF rx, ry
      <4> QED BY <1>7, <2>3, <2>6, <4>1, LinkRespects
    <3>2. CASE r = ry /\ s = rx
      <4>1. \A S : Respects(parent', S) <=> Respects(parent, S) /\ (y \in S <=> x \in S)
        <5>1. \A z \in Docs : Root(parent', z) = IF Root(parent, z) = Root(parent, x) THEN Root(parent, y) ELSE Root(parent, z)
          BY <2>8, <3>2 DEF rx, ry
        <5> QED BY <1>7, <2>3, <2>6, <5>1, LinkRespects
      <4> QED BY <4>1
    <3> QED BY <2>4, <3>1, <3>2
  <2> QED BY <1>0, <2>3, <2>6, <2>7, <2>9 DEF ForestInv
<1> QED BY <1>8, <1>9

-----------------------------------------------------------------------------
(* The steps.                                                               *)
LEMMA AdvanceKeepsLoop ==
  ASSUME LoopInv, i < num_docs, stage = "compare", Advance,
         UNCHANGED <<num_docs, alike, stage, local_candidates>>
  PROVE  /\ LoopInv'
         /\ Compared' = Compared \cup {<<i, j>>} /\ <<i, j>> \in Pairs(num_docs)
<1>1. num_docs \in Nat /\ i \in Nat /\ j \in Nat /\ 1 <= i /\ i < j /\ j <= num_docs
  BY MaxDocsAssumption DEF LoopInv
<1>2. \/ j < num_docs /\ j' = j + 1 /\ i' = i
      \/ j = num_docs /\ i' = i + 1 /\ j' = i + 2
  BY <1>1 DEF Advance
<1>3. LoopInv'
  <2>1. Docs' = Docs
    BY DEF Docs
  <2> QED BY <1>1, <1>2, <2>1 DEF LoopInv
<1>4. <<i, j>> \in Pairs(num_docs)
  BY <1>1 DEF Pairs
<1>5. ASSUME NEW p \in Pairs(num_docs)
      PROVE  (p[1] < i' \/ (p[1] = i' /\ p[2] < j')) <=>
             (p[1] < i \/ (p[1] = i /\ p[2] < j)) \/ p = <<i, j>>
  <2>1. p = <<p[1], p[2]>> /\ p[1] \in 1..num_docs /\ p[2] \in 1..num_docs /\ p[1] < p[2]
    BY DEF Pairs
  <2>2. p = <<i, j>> <=> p[1] = i /\ p[2] = j
    BY <2>1
  <2> QED BY <1>1, <1>2, <2>1, <2>2
<1>6. Compared' = Compared \cup {<<i, j>>}
  <2>1. Compared' = {p \in Pairs(num_docs) : p[1] < i' \/ (p[1] = i' /\ p[2] < j')}
    BY DEF Compared
  <2> QED BY <1>4, <1>5, <2>1 DEF Compared
<1> QED BY <1>3, <1>4, <1>6

(* Comparing a pair keeps it.                                               *)
LEMMA CompareKeeps == IInv /\ ComparePair => IInv'
<1> SUFFICES ASSUME IInv, ComparePair PROVE IInv'
  OBVIOUS
<1>1. /\ stage = "compare" /\ i < num_docs /\ Advance
      /\ IF <<i, j>> \in alike THEN MergeByRank(i, j) ELSE UNCHANGED <<parent, rank>>
      /\ UNCHANGED <<num_docs, alike, stage, local_candidates>>
  BY DEF ComparePair
<1>2. /\ LoopInv'
      /\ Compared' = Compared \cup {<<i, j>>} /\ <<i, j>> \in Pairs(num_docs)
  BY <1>1, AdvanceKeepsLoop DEF IInv
<1>3. Docs' = Docs /\ alike' = alike
  BY <1>1 DEF Docs
<1>4. CASE <<i, j>> \in alike
  <2>1. i \in Docs /\ j \in Docs
    BY <1>2 DEF Pairs, Docs
  <2>2. /\ ForestInv' /\ parent' \in [Docs -> Docs]
        /\ \A S : Respects(parent', S) <=> Respects(parent, S) /\ (i \in S <=> j \in S)
    BY <1>1, <1>4, <2>1, MergedByRank
  <2> DEFINE p == <<i, j>>
             old == alike \cap Compared
  <2>3. (alike \cap Compared)' = old \cup {p}
    BY <1>2, <1>3, <1>4
  <2>4. parent \in [Docs -> Docs] /\ Joins(parent, old)
    BY DEF IInv, ForestInv
  <2>5. p[1] = i /\ p[2] = j
    OBVIOUS
  <2> HIDE DEF p, old
  <2>6. \A S \in SUBSET Docs : Respects(parent', S) <=> Respects(parent, S) /\ (p[1] \in S <=> p[2] \in S)
    BY <2>2, <2>5
  <2>7. Joins(parent', old \cup {p})
    BY <2>2, <2>4, <2>6, OnePairMore
  <2> QED BY <1>2, <2>2, <2>3, <2>7 DEF IInv
<1>5. CASE <<i, j>> \notin alike
  <2>1. parent' = parent /\ rank' = rank
    BY <1>1, <1>5
  <2>2. (alike \cap Compared)' = alike \cap Compared
    BY <1>2, <1>3, <1>5
  <2> QED BY <1>2, <1>3, <2>1, <2>2 DEF IInv, ForestInv
<1> QED BY <1>4, <1>5

(* So does the filter.                                                      *)
LEMMA FilterKeeps == IInv /\ Filter => IInv'
<1> SUFFICES ASSUME IInv, Filter PROVE IInv'
  OBVIOUS
<1>1. /\ stage = "compare" /\ i >= num_docs /\ stage' = "filtered"
      /\ parent' = [d \in Docs |-> Root(parent, d)]
      /\ local_candidates' = local_candidates \ Duplicates
      /\ num_docs' = num_docs /\ alike' = alike /\ i' = i /\ j' = j /\ rank' = rank
  BY DEF Filter
<1>2. ForestInv /\ LoopInv /\ Joins(parent, alike \cap Compared)
  BY DEF IInv
<1>3. Docs' = Docs /\ (alike \cap Compared)' = alike \cap Compared
  BY <1>1 DEF Docs, Compared
<1>4. parent \in [Docs -> Docs] /\ Acyclic(parent)
  BY <1>2 DEF ForestInv
<1>5. \A d \in Docs : Root(parent, d) \in Docs
  BY <1>4, RootFacts
<1>6. parent' \in [Docs -> Docs] /\ Shortcut(parent, parent')
  BY <1>1, <1>4, <1>5 DEF Shortcut
<1>7. Acyclic(parent') /\ \A d \in Docs : Root(parent', d) = Root(parent, d)
  BY <1>4, <1>6, ShortcutKeeps
<1>8. ForestInv'
  <2>1. RankOK(parent', rank) /\ HeavyOK(parent', rank)
    BY <1>2, <1>4, <1>6, <1>7, ShortcutRank, SameRootsHeavy DEF ForestInv
  <2> QED BY <1>1, <1>2, <1>3, <1>6, <1>7, <2>1 DEF ForestInv
<1>9. LoopInv'
  <2>1. Duplicates' = Duplicates
    BY <1>3, <1>7 DEF Duplicates, Component, Together
  <2>2. i = num_docs
    BY <1>1, <1>2, MaxDocsAssumption DEF LoopInv
  <2> QED BY <1>1, <1>2, <1>3, <2>1, <2>2 DEF LoopInv
<1>10. Joins(parent', alike \cap Compared)
  <2>1. \A S : Respects(parent', S) <=> Respects(parent, S)
    BY <1>4, <1>6, <1>7, SameRootsRespect
  <2> QED BY <1>2, <1>4, <1>6, <2>1 DEF Joins
<1> QED BY <1>3, <1>8, <1>9, <1>10 DEF IInv

(* So it always holds.                                                      *)
LEMMA Inductive == Spec => []IInv
<1>1. IInv /\ [Next]_vars => IInv'
  <2> SUFFICES ASSUME IInv, [Next]_vars PROVE IInv'
    OBVIOUS
  <2>1. CASE ComparePair
    BY <2>1, CompareKeeps
  <2>2. CASE Filter
    BY <2>2, FilterKeeps
  <2>3. CASE UNCHANGED vars
    BY <2>3 DEF IInv, LoopInv, ForestInv, vars, Docs, Compared, Duplicates, Component
  <2> QED BY <2>1, <2>2, <2>3 DEF Next
<1> QED BY <1>1, InitHolds, PTL DEF Spec

-----------------------------------------------------------------------------
(* The theorems.                                                            *)

(* The loops of the local deduplication stay inside the list of candidates, *)
(* and no rank exceeds their number, however many there are.                *)
THEOREM TypeCorrect == Spec => []TypeOK
<1>1. IInv => TypeOK
  <2> SUFFICES ASSUME IInv PROVE TypeOK
    OBVIOUS
  <2>1. IsFiniteSet(Docs) /\ Cardinality(Docs) = num_docs /\ num_docs \in Nat
    BY DocsFinite DEF IInv, LoopInv
  <2>2. \A x \in Docs : rank[x] < num_docs
    BY <2>1, RankBound DEF IInv, ForestInv
  <2>3. rank \in [Docs -> 0..num_docs]
    BY <2>1, <2>2 DEF IInv, ForestInv
  <2>4. local_candidates \subseteq Docs
    BY DEF IInv, LoopInv
  <2> QED BY <2>3, <2>4 DEF TypeOK, IInv, LoopInv, ForestInv
<1> QED BY <1>1, Inductive, PTL

(* At every moment the union-find holds the connected components of the     *)
(* similar pairs that the two loops have compared, whatever path            *)
(* compression and union by rank have made of the trees.                    *)
THEOREM ExactComponents == Spec => []ComponentsExact
<1>1. IInv => ComponentsExact
  <2> SUFFICES ASSUME IInv, NEW d \in Docs
               PROVE  Component(d) = Linked(Docs, alike \cap Compared, d)
    BY DEF ComponentsExact
  <2>1. parent \in [Docs -> Docs] /\ Acyclic(parent) /\ Joins(parent, alike \cap Compared)
    BY DEF IInv, ForestInv
  <2>2. {e \in Docs : Together(parent, d, e)} = Linked(Docs, alike \cap Compared, d)
    BY <2>1, JoinsLinked
  <2> QED BY <2>2 DEF Component
<1> QED BY <1>1, Inductive, PTL

(* The recursion of find() is never deeper than the logarithm of the size   *)
(* of the component.                                                        *)
THEOREM Logarithmic == Spec => []ShallowTrees
<1>1. IInv => ShallowTrees
  <2> SUFFICES ASSUME IInv, NEW d \in Docs
               PROVE  Power2[Depth(d)] <= Cardinality(Component(d))
    BY DEF ShallowTrees
  <2>1. /\ parent \in [Docs -> Docs] /\ Acyclic(parent) /\ rank \in [Docs -> Nat]
        /\ RankOK(parent, rank) /\ HeavyOK(parent, rank)
    BY DEF IInv, ForestInv
  <2> DEFINE r == Root(parent, d)
  <2>2. r \in Docs /\ parent[r] = r
    BY <2>1, RootFacts
  <2>3. Cardinality(Path(parent, d)) \in Nat \ {0} /\ Cardinality(Path(parent, d)) + rank[d] <= rank[r] + 1
    BY <2>1, RankToRoot
  <2>4. Component(d) = Tree(parent, r)
    BY <2>1 DEF Component, Tree, Together
  <2> HIDE DEF r
  <2>5. Power2[rank[r]] <= Cardinality(Component(d))
    BY <2>1, <2>2, <2>4 DEF HeavyOK
  <2>6. Depth(d) \in Nat /\ rank[r] \in Nat /\ Depth(d) <= rank[r]
    BY <2>1, <2>2, <2>3 DEF Depth
  <2>7. Cardinality(Component(d)) \in Nat
    <3>1. IsFiniteSet(Docs)
      BY DocsFinite DEF IInv, LoopInv
    <3> QED BY <3>1, FS_Subset, FS_CardinalityType DEF Component
  <2>8. Power2[Depth(d)] \in Nat /\ Power2[rank[r]] \in Nat /\ Power2[Depth(d)] <= Power2[rank[r]]
    BY <2>6, Power2Grows
  <2> QED BY <2>5, <2>7, <2>8
<1> QED BY <1>1, Inductive, PTL

(* What the client sends to the server: of the candidates that chains of    *)
(* similarity connect exactly one, the first.                               *)
THEOREM FirstKept == Spec => []FirstOfEachKept
<1>1. IInv => FirstOfEachKept
  <2> SUFFICES ASSUME IInv, stage = "filtered"
               PROVE  local_candidates = {d \in Docs : \A e \in Linked(Docs, alike, d) : d <= e}
    BY DEF FirstOfEachKept
  <2>1. i = num_docs /\ local_candidates = Docs \ Duplicates /\ alike \subseteq Pairs(num_docs)
    BY DEF IInv, LoopInv
  <2>2. alike \cap Compared = alike
    <3>1. ASSUME NEW p \in Pairs(num_docs) PROVE p \in Compared
      <4>1. num_docs \in Nat
        BY DocsFinite DEF IInv, LoopInv
      <4>2. p[1] \in 1..num_docs /\ p[2] \in 1..num_docs /\ p[1] < p[2]
        BY DEF Pairs
      <4> QED BY <2>1, <4>1, <4>2 DEF Compared
    <3> QED BY <2>1, <3>1
  <2>3. ASSUME NEW d \in Docs PROVE Component(d) = Linked(Docs, alike, d)
    <3>1. parent \in [Docs -> Docs] /\ Acyclic(parent) /\ Joins(parent, alike)
      BY <2>2 DEF IInv, ForestInv
    <3>2. {e \in Docs : Together(parent, d, e)} = Linked(Docs, alike, d)
      BY <3>1, JoinsLinked
    <3> QED BY <3>2 DEF Component
  <2>4. ASSUME NEW d \in Docs PROVE d \notin Duplicates <=> \A e \in Component(d) : d <= e
    <3>1. \A e \in Docs : ~(e < d) <=> d <= e
      BY DEF Docs
    <3> QED BY <3>1 DEF Duplicates, Component
  <2> QED BY <2>1, <2>3, <2>4
<1> QED BY <1>1, Inductive, PTL
=============================================================================
