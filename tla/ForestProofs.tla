---------------------------- MODULE ForestProofs ----------------------------
(* Theorems about the disjoint sets of Forest, for any number of documents. *)
EXTENDS Forest, WellFoundedInduction, SequenceTheorems, TLAPS

-----------------------------------------------------------------------------
(* Paths.  A recursive function is what a CHOOSE finds, so there must be    *)
(* something to find: the least set of nodes that the way up from x stays   *)
(* in satisfies the equation of path.                                       *)

Upward(par, x) ==
  {z \in DOMAIN par : \A S \in SUBSET DOMAIN par :
     x \in S /\ (\A y \in S : par[y] \in S) => z \in S}

(* The way up from a node is the node and the way up from its parent.       *)
LEMMA UpwardStep ==
  ASSUME NEW D, NEW par \in [D -> D], NEW x \in D
  PROVE  Upward(par, x) = {x} \cup Upward(par, par[x])
<1>1. par[x] \in D /\ DOMAIN par = D
  OBVIOUS
<1>2. Upward(par, x) \subseteq {x} \cup Upward(par, par[x])
  <2> DEFINE S == {x} \cup Upward(par, par[x])
  <2>1. S \in SUBSET D
    BY <1>1 DEF Upward
  <2>2. x \in S /\ \A y \in S : par[y] \in S
    <3>1. par[x] \in Upward(par, par[x])
      BY <1>1 DEF Upward
    <3>2. ASSUME NEW y \in Upward(par, par[x]) PROVE par[y] \in Upward(par, par[x])
      BY <3>2, <1>1 DEF Upward
    <3> QED BY <3>1, <3>2
  <2> HIDE DEF S
  <2>3. \A z \in Upward(par, x) : z \in S
    BY <2>1, <2>2, <1>1 DEF Upward
  <2> QED BY <2>3 DEF S
<1>3. x \in Upward(par, x)
  BY <1>1 DEF Upward
<1>4. Upward(par, par[x]) \subseteq Upward(par, x)
  BY <1>1 DEF Upward
<1> QED BY <1>2, <1>3, <1>4

(* At a root it ends.                                                       *)
LEMMA UpwardRoot ==
  ASSUME NEW D, NEW par \in [D -> D], NEW x \in D, par[x] = x
  PROVE  Upward(par, x) = {x}
<1>1. {x} \in SUBSET DOMAIN par /\ \A y \in {x} : par[y] \in {x}
  OBVIOUS
<1> QED BY <1>1 DEF Upward

(* The equation of path.                                                    *)
LEMMA PathIsUpward ==
  ASSUME NEW D, NEW par \in [D -> D], Acyclic(par), NEW x \in D
  PROVE  Path(par, x) = Upward(par, x)
<1> DEFINE F(f) == [y \in DOMAIN par |-> IF par[y] = y THEN {y} ELSE {y} \cup f[par[y]]]
           u == [y \in D |-> Upward(par, y)]
           p == CHOOSE f : f = F(f)
<1>1. u = F(u)
  <2>1. DOMAIN par = D /\ \A y \in D : par[y] \in D
    OBVIOUS
  <2>2. ASSUME NEW y \in D
        PROVE u[y] = IF par[y] = y THEN {y} ELSE {y} \cup u[par[y]]
    BY <2>1, UpwardStep, UpwardRoot
  <2> QED BY <2>1, <2>2
<1>2. p = F(p)
  <2> HIDE DEF u, F
  <2> QED BY <1>1
<1>3. Path(par, x) = p[x]
  BY DEF Path
<1> HIDE DEF p, u
<1>4. \A y \in D : p[y] = u[y]
  <2> DEFINE T == {y \in D : p[y] # u[y]}
  <2> SUFFICES ASSUME T # {} PROVE FALSE
    OBVIOUS
  <2>1. PICK y \in T : par[y] = y \/ par[y] \notin T
    BY DEF Acyclic
  <2>2. y \in D /\ par[y] \in D
    OBVIOUS
  <2>3. p[y] = F(p)[y] /\ u[y] = F(u)[y]
    BY <1>1, <1>2
  <2> QED BY <2>1, <2>2, <2>3
<1> QED BY <1>3, <1>4 DEF u

(* root() returns a root, which is on the path, and the roots of a node and *)
(* of its parent are the same.                                              *)
LEMMA PathStep ==
  ASSUME NEW D, NEW par \in [D -> D], Acyclic(par), NEW x \in D
  PROVE  Path(par, x) = IF par[x] = x THEN {x} ELSE {x} \cup Path(par, par[x])
<1>1. par[x] \in D
  OBVIOUS
<1>2. Path(par, x) = Upward(par, x) /\ Path(par, par[x]) = Upward(par, par[x])
  BY <1>1, PathIsUpward
<1> QED BY <1>2, UpwardStep, UpwardRoot

IsRoot(par, x, r) == r \in Path(par, x) /\ par[r] = r

(* In a forest every node has exactly one root.                             *)
LEMMA OneRoot ==
  ASSUME NEW D, NEW par \in [D -> D], Acyclic(par), NEW x \in D
  PROVE  /\ Path(par, x) \subseteq D /\ x \in Path(par, x)
         /\ \E r \in D : IsRoot(par, x, r) /\ \A s : IsRoot(par, x, s) => s = r
<1> DEFINE Good(y) == /\ Path(par, y) \subseteq D /\ y \in Path(par, y)
                      /\ \E r \in D : IsRoot(par, y, r) /\ \A s : IsRoot(par, y, s) => s = r
           T == {y \in D : ~Good(y)}
<1> SUFFICES ASSUME T # {} PROVE FALSE
  OBVIOUS
<1>1. PICK y \in T : par[y] = y \/ par[y] \notin T
  BY DEF Acyclic
<1>2. y \in D /\ par[y] \in D /\ ~Good(y)
  OBVIOUS
<1>3. Path(par, y) = IF par[y] = y THEN {y} ELSE {y} \cup Path(par, par[y])
  BY <1>2, PathStep
<1>4. CASE par[y] = y
  BY <1>2, <1>3, <1>4 DEF IsRoot
<1>5. CASE par[y] # y
  <2>1. Good(par[y])
    BY <1>1, <1>2, <1>5
  <2>2. \A r : IsRoot(par, y, r) <=> IsRoot(par, par[y], r)
    BY <1>3, <1>5 DEF IsRoot
  <2> QED BY <1>2, <1>3, <1>5, <2>1, <2>2
<1> QED BY <1>4, <1>5

(* The root of a node, of its parent and of itself.                         *)
LEMMA RootFacts ==
  ASSUME NEW D, NEW par \in [D -> D], Acyclic(par), NEW x \in D
  PROVE  /\ Root(par, x) \in D /\ par[Root(par, x)] = Root(par, x)
         /\ Root(par, x) \in Path(par, x)
         /\ Root(par, par[x]) = Root(par, x)
         /\ Root(par, x) = x <=> par[x] = x
         /\ Root(par, Root(par, x)) = Root(par, x)
<1>1. ASSUME NEW y \in D
      PROVE  /\ Root(par, y) \in D /\ IsRoot(par, y, Root(par, y))
             /\ \A s : IsRoot(par, y, s) => s = Root(par, y)
  <2>1. PICK r \in D : IsRoot(par, y, r) /\ \A s : IsRoot(par, y, s) => s = r
    BY OneRoot
  <2>2. Root(par, y) = r
    BY <2>1 DEF Root, IsRoot
  <2> QED BY <2>1, <2>2
<1>2. par[x] \in D
  OBVIOUS
<1>3. Root(par, x) \in D /\ IsRoot(par, x, Root(par, x))
  BY <1>1
<1>4. Root(par, par[x]) = Root(par, x)
  <2>1. IsRoot(par, par[x], Root(par, par[x]))
    BY <1>1, <1>2
  <2>2. IsRoot(par, x, Root(par, par[x]))
    BY <2>1, PathStep, <1>2 DEF IsRoot
  <2> QED BY <2>2, <1>1
<1>5. ASSUME NEW y \in D, par[y] = y PROVE Root(par, y) = y
  <2>1. IsRoot(par, y, y)
    BY <1>5, PathStep DEF IsRoot
  <2> QED BY <2>1, <1>1
<1> QED BY <1>3, <1>4, <1>5 DEF IsRoot

(* All nodes of a path have the root of the path.                           *)
LEMMA PathRoots ==
  ASSUME NEW D, NEW par \in [D -> D], Acyclic(par), NEW x \in D
  PROVE  \A y \in Path(par, x) : Root(par, y) = Root(par, x)
<1> DEFINE T == {z \in D : \E y \in Path(par, z) : Root(par, y) # Root(par, z)}
<1> SUFFICES ASSUME T # {} PROVE FALSE
  OBVIOUS
<1>1. PICK z \in T : par[z] = z \/ par[z] \notin T
  BY DEF Acyclic
<1>2. z \in D /\ par[z] \in D
  OBVIOUS
<1>3. Path(par, z) = IF par[z] = z THEN {z} ELSE {z} \cup Path(par, par[z])
  BY <1>2, PathStep
<1>4. Root(par, par[z]) = Root(par, z)
  BY <1>2, RootFacts
<1> QED BY <1>1, <1>2, <1>3, <1>4

-----------------------------------------------------------------------------
(* Shortcuts: parents may be replaced by roots, as root() does for every    *)
(* node on its path and Broadcast for all nodes.  The sets stay the same.   *)
Shortcut(par, q) ==
  /\ q \in [DOMAIN par -> DOMAIN par]
  /\ \A y \in DOMAIN par : q[y] \in {par[y], Root(par, y)}

(* Sending nodes to their roots keeps the roots.                            *)
LEMMA ShortcutKeeps ==
  ASSUME NEW D, NEW par \in [D -> D], Acyclic(par), NEW q, Shortcut(par, q)
  PROVE  Acyclic(q) /\ \A x \in D : Root(q, x) = Root(par, x)
<1>1. q \in [D -> D] /\ \A y \in D : q[y] = par[y] \/ q[y] = Root(par, y)
  BY DEF Shortcut
<1>2. \A y \in D : /\ Root(par, y) \in D /\ par[Root(par, y)] = Root(par, y)
                   /\ Root(par, par[y]) = Root(par, y) /\ (Root(par, y) = y <=> par[y] = y)
                   /\ Root(par, Root(par, y)) = Root(par, y)
  BY RootFacts
<1>3. \A y \in D : Root(par, q[y]) = Root(par, y) /\ (q[y] = y <=> par[y] = y)
  BY <1>1, <1>2
<1>4. Acyclic(q)
  <2> SUFFICES ASSUME NEW S \in SUBSET D, S # {}
               PROVE  \E x \in S : q[x] = x \/ q[x] \notin S
    BY <1>1 DEF Acyclic
  <2>1. PICK y \in S : par[y] = y \/ par[y] \notin S
    BY DEF Acyclic
  <2>2. y \in D
    OBVIOUS
  <2>3. CASE q[y] = par[y]
    BY <2>1, <2>2, <2>3
  <2>4. CASE q[y] = Root(par, y)
    <3>1. q[Root(par, y)] = Root(par, y)
      BY <1>2, <1>3, <2>2
    <3> QED BY <2>4, <3>1
  <2> QED BY <1>1, <2>2, <2>3, <2>4
<1>5. ASSUME NEW x \in D PROVE Root(q, x) = Root(par, x)
  <2> DEFINE T == {y \in D : Root(q, y) # Root(par, y)}
  <2> SUFFICES ASSUME T # {} PROVE FALSE
    OBVIOUS
  <2>1. PICK y \in T : q[y] = y \/ q[y] \notin T
    BY <1>1, <1>4 DEF Acyclic
  <2>2. y \in D /\ q[y] \in D
    BY <1>1
  <2>3. Root(q, q[y]) = Root(q, y) /\ (Root(q, y) = y <=> q[y] = y)
    BY <1>1, <1>4, <2>2, RootFacts
  <2> QED BY <1>2, <1>3, <2>1, <2>2, <2>3
<1> QED BY <1>4, <1>5

(* Path compression sends nodes to their roots,                             *)
LEMMA CompressShortcuts ==
  ASSUME NEW D, NEW par \in [D -> D], Acyclic(par), NEW x \in D
  PROVE  Compress(par, x) \in [D -> D] /\ Shortcut(par, Compress(par, x))
<1>1. \A y \in Path(par, x) : Root(par, y) = Root(par, x)
  BY PathRoots
<1>2. Root(par, x) \in D
  BY RootFacts
<1>3. Compress(par, x) \in [D -> D]
  BY <1>2 DEF Compress
<1> QED BY <1>1, <1>3 DEF Shortcut, Compress

(* and so keeps the roots.                                                  *)
LEMMA CompressKeeps ==
  ASSUME NEW D, NEW par \in [D -> D], Acyclic(par), NEW x \in D
  PROVE  /\ Compress(par, x) \in [D -> D] /\ Acyclic(Compress(par, x))
         /\ \A y \in D : Root(Compress(par, x), y) = Root(par, y)
BY CompressShortcuts, ShortcutKeeps

(* Both calls of root() in a merge.                                         *)
LEMMA FlatKeeps ==
  ASSUME NEW D, NEW par \in [D -> D], Acyclic(par), NEW x \in D, NEW y \in D,
         NEW flat, flat = Compress(Compress(par, x), y)
  PROVE  /\ flat \in [D -> D] /\ Acyclic(flat)
         /\ \A z \in D : Root(flat, z) = Root(par, z)
         /\ Root(par, x) \in D /\ flat[Root(par, x)] = Root(par, x)
         /\ Root(par, y) \in D /\ flat[Root(par, y)] = Root(par, y)
<1> DEFINE once == Compress(par, x)
<1>1. once \in [D -> D] /\ Acyclic(once) /\ \A z \in D : Root(once, z) = Root(par, z)
  BY CompressKeeps
<1> HIDE DEF once
<1>2. flat = Compress(once, y)
  BY DEF once
<1>3. flat \in [D -> D] /\ Acyclic(flat) /\ \A z \in D : Root(flat, z) = Root(par, z)
  BY <1>1, <1>2, CompressKeeps
<1>4. /\ Root(par, x) \in D /\ flat[Root(par, x)] = Root(par, x)
      /\ Root(par, y) \in D /\ flat[Root(par, y)] = Root(par, y)
  BY <1>3, RootFacts
<1> QED BY <1>3, <1>4

(* A root hung below another root joins the two sets.                       *)
LEMMA LinkJoins ==
  ASSUME NEW D, NEW par \in [D -> D], Acyclic(par), NEW r \in D, NEW s \in D,
         par[r] = r, par[s] = s, r # s,
         NEW q \in [D -> D], q[s] = r, \A x \in D : x # s => q[x] = par[x]
  PROVE  /\ Acyclic(q)
         /\ \A x \in D : Root(q, x) = IF Root(par, x) = s THEN r ELSE Root(par, x)
<1>1. q \in [D -> D] /\ q[s] = r /\ \A x \in D \ {s} : q[x] = par[x]
  OBVIOUS
<1>2. Acyclic(q)
  <2> SUFFICES ASSUME NEW S \in SUBSET D, S # {}
               PROVE  \E x \in S : q[x] = x \/ q[x] \notin S
    BY <1>1 DEF Acyclic
  <2>1. PICK y \in S : par[y] = y \/ par[y] \notin S
    BY DEF Acyclic
  <2> QED BY <1>1, <2>1
<1>3. ASSUME NEW x \in D
      PROVE  Root(q, x) = IF Root(par, x) = s THEN r ELSE Root(par, x)
  <2> DEFINE Want(y) == IF Root(par, y) = s THEN r ELSE Root(par, y)
             T == {y \in D : Root(q, y) # Want(y)}
  <2> SUFFICES ASSUME T # {} PROVE FALSE
    OBVIOUS
  <2>1. PICK y \in T : q[y] = y \/ q[y] \notin T
    BY <1>1, <1>2 DEF Acyclic
  <2>2. y \in D /\ q[y] \in D
    BY <1>1
  <2>3. Root(q, q[y]) = Root(q, y) /\ (q[y] = y => Root(q, y) = y)
    BY <1>1, <1>2, <2>2, RootFacts
  <2>4. /\ Root(par, par[y]) = Root(par, y) /\ (par[y] = y => Root(par, y) = y)
        /\ Root(par, r) = r /\ Root(par, s) = s
    BY <2>2, RootFacts
  <2> QED BY <1>1, <2>1, <2>2, <2>3, <2>4
<1> QED BY <1>1, <1>2, <1>3

(* merge(x, y) joins the sets of x and y, and no others.                    *)
LEMMA MergeJoins ==
  ASSUME NEW D, NEW par \in [D -> D], Acyclic(par), NEW x \in D, NEW y \in D
  PROVE  /\ Merge(par, x, y) \in [D -> D] /\ Acyclic(Merge(par, x, y))
         /\ \A z \in D : Root(Merge(par, x, y), z) =
              IF Root(par, z) = Root(par, y) THEN Root(par, x) ELSE Root(par, z)
<1> DEFINE flat == Compress(Compress(par, x), y)
<1> HIDE DEF flat
<1>1. flat = Compress(Compress(par, x), y)
  BY DEF flat
<1>2. flat \in [D -> D] /\ Acyclic(flat) /\ \A z \in D : Root(flat, z) = Root(par, z)
  BY <1>1, FlatKeeps
<1>3. /\ Root(par, x) \in D /\ flat[Root(par, x)] = Root(par, x)
      /\ Root(par, y) \in D /\ flat[Root(par, y)] = Root(par, y)
  BY <1>1, FlatKeeps
<1>4. CASE Root(par, x) = Root(par, y)
  <2>1. Merge(par, x, y) = flat
    BY <1>4 DEF Merge, flat
  <2> QED BY <1>2, <1>4, <2>1
<1>5. CASE Root(par, x) # Root(par, y)
  <2> DEFINE r == Root(par, x)
             t == Root(par, y)
             q == [flat EXCEPT ![t] = r]
  <2>1. Merge(par, x, y) = q
    BY <1>5 DEF Merge, flat
  <2>2. r \in D /\ flat[r] = r /\ t \in D /\ flat[t] = t /\ r # t
    BY <1>3, <1>5
  <2> HIDE DEF r, t
  <2>3. q \in [D -> D] /\ q[t] = r /\ \A z \in D : z # t => q[z] = flat[z]
    BY <1>2, <2>2
  <2> HIDE DEF q
  <2>4. Acyclic(q) /\ \A z \in D : Root(q, z) = IF Root(flat, z) = t THEN r ELSE Root(flat, z)
    BY <1>2, <2>2, <2>3, LinkJoins
  <2> QED BY <1>2, <2>1, <2>3, <2>4 DEF r, t
<1> QED BY <1>4, <1>5

-----------------------------------------------------------------------------
(* What a forest says of its documents is the family of sets that it        *)
(* respects: those that hold, with each document, also its parent, and the  *)
(* reverse.  Merging two documents leaves, of these, the sets that hold     *)
(* both or none, so that the sets of documents need not be followed.        *)
Respects(par, S) == \A x \in DOMAIN par : x \in S <=> par[x] \in S

(* The forest joins what the pairs link, and nothing else.                  *)
Joins(par, pairs) ==
  \A S \in SUBSET DOMAIN par : Respects(par, S) <=> Closed(pairs, S)

(* A set respects a forest iff it has a node whenever it has its root.      *)
LEMMA RespectsRoots ==
  ASSUME NEW D, NEW par \in [D -> D], Acyclic(par), NEW S
  PROVE  Respects(par, S) <=> \A x \in D : x \in S <=> Root(par, x) \in S
<1>1. ASSUME Respects(par, S), NEW x \in D PROVE x \in S <=> Root(par, x) \in S
  <2> DEFINE T == {y \in D : ~(y \in S <=> Root(par, y) \in S)}
  <2> SUFFICES ASSUME T # {} PROVE FALSE
    OBVIOUS
  <2>1. PICK y \in T : par[y] = y \/ par[y] \notin T
    BY DEF Acyclic
  <2>2. y \in D /\ par[y] \in D
    OBVIOUS
  <2>3. Root(par, par[y]) = Root(par, y) /\ (par[y] = y => Root(par, y) = y)
    BY <2>2, RootFacts
  <2>4. y \in S <=> par[y] \in S
    BY <1>1, <2>2 DEF Respects
  <2> QED BY <2>1, <2>2, <2>3, <2>4
<1>2. ASSUME \A x \in D : x \in S <=> Root(par, x) \in S, NEW x \in D
      PROVE  x \in S <=> par[x] \in S
  <2>1. par[x] \in D /\ Root(par, par[x]) = Root(par, x)
    BY RootFacts
  <2> QED BY <1>2, <2>1
<1> QED BY <1>1, <1>2 DEF Respects

(* The sets of a forest are the sets linked by the pairs that it joins.     *)
LEMMA JoinsLinked ==
  ASSUME NEW D, NEW par \in [D -> D], Acyclic(par), NEW pairs, Joins(par, pairs), NEW d \in D
  PROVE  {e \in D : Together(par, d, e)} = Linked(D, pairs, d)
<1> DEFINE C == {e \in D : Together(par, d, e)}
           closed == {S \in SUBSET D : d \in S /\ Closed(pairs, S)}
<1>1. \A x \in D : Root(par, x) \in D /\ Root(par, Root(par, x)) = Root(par, x)
  BY RootFacts
<1>2. C \in closed
  <2>1. \A x \in D : x \in C <=> Root(par, x) \in C
    BY <1>1 DEF Together
  <2>2. Respects(par, C)
    BY <2>1, RespectsRoots
  <2> QED BY <2>2 DEF Joins, Together
<1>3. ASSUME NEW S \in closed, NEW e \in C PROVE e \in S
  <2>1. Respects(par, S)
    BY DEF Joins
  <2>2. \A x \in D : x \in S <=> Root(par, x) \in S
    BY <2>1, RespectsRoots
  <2>3. d \in S /\ e \in D /\ Root(par, d) = Root(par, e)
    BY DEF Together
  <2> QED BY <2>2, <2>3
<1>4. Linked(D, pairs, d) = {e \in D : \A S \in closed : e \in S}
  BY DEF Linked
<1> HIDE DEF closed
<1> QED BY <1>2, <1>3, <1>4

(* Every set respects the forest of singletons.                             *)
LEMMA SingletonsRespect ==
  ASSUME NEW D
  PROVE  /\ Singletons(D) \in [D -> D] /\ Acyclic(Singletons(D))
         /\ \A S : Respects(Singletons(D), S)
BY DEF Singletons, Acyclic, Respects

(* Two forests with the same roots respect the same sets.                   *)
LEMMA SameRootsRespect ==
  ASSUME NEW D, NEW par \in [D -> D], Acyclic(par), NEW q \in [D -> D], Acyclic(q),
         \A x \in D : Root(q, x) = Root(par, x), NEW S
  PROVE  Respects(q, S) <=> Respects(par, S)
BY RespectsRoots

(* A root hung below the root of another set joins the two.                 *)
LEMMA LinkRespects ==
  ASSUME NEW D, NEW par \in [D -> D], Acyclic(par), NEW x \in D, NEW y \in D,
         NEW q \in [D -> D], Acyclic(q),
         \A z \in D : Root(q, z) = IF Root(par, z) = Root(par, y) THEN Root(par, x) ELSE Root(par, z),
         NEW S
  PROVE  Respects(q, S) <=> Respects(par, S) /\ (x \in S <=> y \in S)
<1> DEFINE r == Root(par, x)
           t == Root(par, y)
<1>1. /\ r \in D /\ t \in D
      /\ \A z \in D : Root(par, z) \in D /\ Root(par, Root(par, z)) = Root(par, z)
  <2>1. \A z \in D : Root(par, z) \in D /\ Root(par, Root(par, z)) = Root(par, z)
    BY RootFacts
  <2> QED BY <2>1
<1>2. Respects(q, S) <=> \A z \in D : z \in S <=> Root(q, z) \in S
  BY RespectsRoots
<1>3. Respects(par, S) <=> \A z \in D : z \in S <=> Root(par, z) \in S
  BY RespectsRoots
<1>4. ASSUME Respects(q, S) PROVE Respects(par, S) /\ (x \in S <=> y \in S)
  <2>1. (x \in S <=> r \in S) /\ (y \in S <=> r \in S) /\ (t \in S <=> r \in S)
    <3>1. Root(q, x) = r /\ Root(q, y) = r /\ Root(q, t) = r
      BY <1>1
    <3> QED BY <1>1, <1>2, <1>4, <3>1
  <2>2. ASSUME NEW z \in D PROVE z \in S <=> Root(par, z) \in S
    <3>1. z \in S <=> Root(q, z) \in S
      BY <1>2, <1>4
    <3> QED BY <2>1, <3>1
  <2> QED BY <1>3, <2>1, <2>2
<1>5. ASSUME Respects(par, S), x \in S <=> y \in S PROVE Respects(q, S)
  <2>1. (x \in S <=> r \in S) /\ (y \in S <=> t \in S)
    BY <1>3, <1>5
  <2> QED BY <1>2, <1>3, <1>5, <2>1
<1> QED BY <1>4, <1>5

(* A set respects a merged forest iff it respected the forest and does not  *)
(* tell the two nodes apart.                                                *)
LEMMA MergeRespects ==
  ASSUME NEW D, NEW par \in [D -> D], Acyclic(par), NEW x \in D, NEW y \in D
  PROVE  /\ Merge(par, x, y) \in [D -> D] /\ Acyclic(Merge(par, x, y))
         /\ \A S : Respects(Merge(par, x, y), S) <=>
                   Respects(par, S) /\ (x \in S <=> y \in S)
<1> DEFINE q == Merge(par, x, y)
<1>1. /\ q \in [D -> D] /\ Acyclic(q)
      /\ \A z \in D : Root(q, z) = IF Root(par, z) = Root(par, y) THEN Root(par, x) ELSE Root(par, z)
  BY MergeJoins
<1> HIDE DEF q
<1>2. \A S : Respects(q, S) <=> Respects(par, S) /\ (x \in S <=> y \in S)
  BY <1>1, LinkRespects
<1> QED BY <1>1, <1>2 DEF q

(* So a merge joins one pair more.                                          *)
LEMMA OnePairMore ==
  ASSUME NEW D, NEW par \in [D -> D], NEW pairs, Joins(par, pairs),
         NEW q \in [D -> D], NEW p,
         \A S \in SUBSET D : Respects(q, S) <=> Respects(par, S) /\ (p[1] \in S <=> p[2] \in S)
  PROVE  Joins(q, pairs \cup {p})
<1>1. \A S : Closed(pairs \cup {p}, S) <=> Closed(pairs, S) /\ (p[1] \in S <=> p[2] \in S)
  <2> SUFFICES ASSUME NEW S
               PROVE  Closed(pairs \cup {p}, S) <=> Closed(pairs, S) /\ (p[1] \in S <=> p[2] \in S)
    OBVIOUS
  <2>1. (\A o \in pairs \cup {p} : o[1] \in S <=> o[2] \in S) <=>
        (\A o \in pairs : o[1] \in S <=> o[2] \in S) /\ (p[1] \in S <=> p[2] \in S)
    <3> DEFINE B(o) == o[1] \in S <=> o[2] \in S
    <3> HIDE DEF B
    <3>1. (\A o \in pairs \cup {p} : B(o)) <=> (\A o \in pairs : B(o)) /\ B(p)
      OBVIOUS
    <3> QED BY <3>1 DEF B
  <2> QED BY <2>1 DEF Closed
<1>2. ASSUME NEW S \in SUBSET D PROVE Respects(q, S) <=> Closed(pairs \cup {p}, S)
  BY <1>1 DEF Joins
<1> QED BY <1>2 DEF Joins

-----------------------------------------------------------------------------
(* Loops over numbers.  A set of numbers that is not empty has a least one; *)
(* so a function defined by what it is at 0 and by a step exists.           *)
LEMMA Least ==
  ASSUME NEW T \in SUBSET Nat, T # {}
  PROVE  \E m \in T : \A k \in T : m <= k
<1> DEFINE R == {ss \in Nat \X Nat : ss[1] < ss[2]}
<1>1. IsWellFoundedOn(R, Nat)
  BY NatLessThanWellFounded DEF OpToRel
<1>2. PICK m \in T : \A k \in T : ~(<<k, m>> \in R)
  <2> HIDE DEF R
  <2> QED BY <1>1, WFMin
<1>3. ASSUME NEW k \in T PROVE m <= k
  <2>1. k \in Nat /\ m \in Nat
    OBVIOUS
  <2>2. ~(k < m)
    BY <1>2, <2>1
  <2> QED BY <2>1, <2>2
<1> QED BY <1>3

Runs(f, V, v, step, n) ==
  /\ f \in [0..n -> V] /\ f[0] = v
  /\ \A k \in 1..n : f[k] = step[<<f[k - 1], k>>]

(* A step repeated a number of times has a run.                             *)
LEMMA Recursion ==
  ASSUME NEW N \in Nat, NEW V, NEW v \in V, NEW step,
         \A q \in V, n \in 1..N : step[<<q, n>>] \in V
  PROVE  \E f : Runs(f, V, v, step, N)
<1> DEFINE T == {n \in 0..N : ~ \E f : Runs(f, V, v, step, n)}
<1> SUFFICES ASSUME T # {} PROVE FALSE
  OBVIOUS
<1>1. PICK m \in T : \A k \in T : m <= k
  <2>1. T \in SUBSET Nat
    OBVIOUS
  <2> HIDE DEF T
  <2> QED BY <2>1, Least
<1>2. CASE m = 0
  <2>1. Runs([k \in 0..0 |-> v], V, v, step, 0)
    BY DEF Runs
  <2> QED BY <1>2, <2>1
<1>3. CASE m # 0
  <2>1. m \in 1..N /\ m - 1 \in 0..N
    BY <1>3
  <2>2. m - 1 \notin T
    BY <1>1, <2>1
  <2>3. PICK f : Runs(f, V, v, step, m - 1)
    BY <2>1, <2>2
  <2> DEFINE g == [k \in 0..m |-> IF k = m THEN step[<<f[m - 1], m>>] ELSE f[k]]
  <2>4. f[m - 1] \in V
    BY <2>1, <2>3 DEF Runs
  <2>5. step[<<f[m - 1], m>>] \in V
    BY <2>1, <2>4
  <2>6. g \in [0..m -> V] /\ g[0] = v
    BY <2>1, <2>3, <2>5 DEF Runs
  <2>7. ASSUME NEW k \in 1..m PROVE g[k] = step[<<g[k - 1], k>>]
    <3>1. /\ k - 1 \in 0..(m - 1) /\ k - 1 # m /\ g[k - 1] = f[k - 1]
          /\ g[k] = IF k = m THEN step[<<f[m - 1], m>>] ELSE f[k]
      BY <2>1
    <3> HIDE DEF g
    <3>2. CASE k = m
      BY <3>1, <3>2
    <3>3. CASE k # m
      <4>1. k \in 1..(m - 1) /\ g[k] = f[k]
        BY <2>1, <3>1, <3>3
      <4>2. f[k] = step[<<f[k - 1], k>>]
        BY <2>3, <4>1 DEF Runs
      <4> QED BY <3>1, <4>1, <4>2
    <3> QED BY <3>2, <3>3
  <2>8. Runs(g, V, v, step, m)
    <3> HIDE DEF g
    <3> QED BY <2>6, <2>7 DEF Runs
  <2> QED BY <2>8
<1> QED BY <1>2, <1>3

(* It has only one.                                                         *)
LEMMA OneRun ==
  ASSUME NEW V, NEW v, NEW step, NEW f, NEW g, NEW m \in Nat, NEW n \in Nat,
         Runs(f, V, v, step, m), Runs(g, V, v, step, n), NEW i \in Nat, i <= m, i <= n
  PROVE  f[i] = g[i]
<1> DEFINE T == {k \in Nat : k <= m /\ k <= n /\ f[k] # g[k]}
<1> SUFFICES ASSUME T # {} PROVE FALSE
  OBVIOUS
<1>1. PICK k \in T : \A l \in T : k <= l
  <2>1. T \in SUBSET Nat
    OBVIOUS
  <2> HIDE DEF T
  <2> QED BY <2>1, Least
<1>2. k \in Nat /\ k <= m /\ k <= n /\ f[k] # g[k]
  OBVIOUS
<1>3. k # 0
  BY <1>2 DEF Runs
<1>4. k \in 1..m /\ k \in 1..n /\ k - 1 \in Nat /\ k - 1 < k
  BY <1>2, <1>3
<1>5. f[k - 1] = g[k - 1]
  <2>1. k - 1 \notin T
    <3> HIDE DEF T
    <3> QED BY <1>1, <1>4
  <2> QED BY <1>4, <2>1
<1> QED BY <1>2, <1>4, <1>5 DEF Runs

(* Powers of two.                                                           *)
Double == [a \in Nat \X Nat |-> 2 * a[1]]
Doubled(n) == CHOOSE f : Runs(f, Nat, 1, Double, n)

(* Powers of two are what their recursion says.                             *)
LEMMA Power2Equation ==
  \A n \in Nat : Power2[n] = IF n = 0 THEN 1 ELSE 2 * Power2[n - 1]
<1> DEFINE F(f) == [n \in Nat |-> IF n = 0 THEN 1 ELSE 2 * f[n - 1]]
           p == [n \in Nat |-> Doubled(n)[n]]
<1>1. \A q, n \in Nat : Double[<<q, n>>] = 2 * q /\ Double[<<q, n>>] \in Nat
  BY DEF Double
<1>2. \A n \in Nat : Runs(Doubled(n), Nat, 1, Double, n)
  <2> TAKE n \in Nat
  <2>1. \E f : Runs(f, Nat, 1, Double, n)
    <3>1. \A q \in Nat, k \in 1..n : Double[<<q, k>>] \in Nat
      <4> TAKE q \in Nat, k \in 1..n
      <4>1. k \in Nat
        OBVIOUS
      <4> QED BY <1>1, <4>1
    <3>2. 1 \in Nat
      OBVIOUS
    <3> QED BY <3>1, <3>2, Recursion
  <2> QED BY <2>1 DEF Doubled
<1>3. ASSUME NEW n \in Nat PROVE p[n] = IF n = 0 THEN 1 ELSE 2 * p[n - 1]
  <2>1. CASE n = 0
    BY <1>2, <2>1 DEF Runs
  <2>2. CASE n # 0
    <3>1. n - 1 \in Nat /\ n - 1 <= n /\ n \in 1..n /\ n - 1 \in 0..n
      BY <2>2
    <3>2. Doubled(n)[n - 1] = Doubled(n - 1)[n - 1]
      BY <1>2, <3>1, OneRun
    <3>3. Runs(Doubled(n), Nat, 1, Double, n)
      BY <1>2
    <3>4. Doubled(n)[n - 1] \in Nat /\ Doubled(n)[n] = Double[<<Doubled(n)[n - 1], n>>]
      BY <3>1, <3>3 DEF Runs
    <3>5. Doubled(n)[n] = 2 * Doubled(n)[n - 1]
      BY <1>1, <3>4
    <3> QED BY <2>2, <3>1, <3>2, <3>5
  <2> QED BY <2>1, <2>2
<1>4. p = F(p)
  BY <1>3
<1>5. Power2 = F(Power2)
  <2> HIDE DEF p, F
  <2>1. \E f : f = F(f)
    BY <1>4
  <2>2. Power2 = CHOOSE f : f = F(f)
    BY DEF Power2, F
  <2> QED BY <2>1, <2>2
<1> HIDE DEF p
<1>6. \A n \in Nat : Power2[n] = F(Power2)[n]
  BY <1>5
<1> QED BY <1>6

(* They double and outgrow their exponents.                                 *)
LEMMA Power2Grows ==
  /\ Power2[0] = 1
  /\ \A n \in Nat : /\ Power2[n] \in Nat /\ n < Power2[n]
                    /\ Power2[n + 1] = 2 * Power2[n]
                    /\ \A m \in Nat : m <= n => Power2[m] <= Power2[n]
<1> DEFINE T == {n \in Nat : ~(/\ Power2[n] \in Nat /\ n < Power2[n]
                               /\ \A m \in Nat : m <= n => Power2[m] <= Power2[n])}
<1>1. Power2[0] = 1
  BY Power2Equation
<1>2. ASSUME NEW n \in Nat PROVE Power2[n + 1] = 2 * Power2[n]
  <2>1. n + 1 \in Nat /\ n + 1 # 0 /\ (n + 1) - 1 = n
    OBVIOUS
  <2> QED BY <2>1, Power2Equation
<1>3. T = {}
  <2> SUFFICES ASSUME T # {} PROVE FALSE
    OBVIOUS
  <2>1. PICK n \in T : \A k \in T : n <= k
    <3>1. T \in SUBSET Nat
      OBVIOUS
    <3> HIDE DEF T
    <3> QED BY <3>1, Least
  <2>2. n \in Nat
    OBVIOUS
  <2>3. n # 0
    BY <1>1
  <2>4. n - 1 \in Nat /\ n - 1 < n
    BY <2>2, <2>3
  <2>5. /\ Power2[n - 1] \in Nat /\ n - 1 < Power2[n - 1]
        /\ \A m \in Nat : m <= n - 1 => Power2[m] <= Power2[n - 1]
    <3>1. n - 1 \notin T
      <4>1. ~(n <= n - 1)
        BY <2>2
      <4> HIDE DEF T
      <4> QED BY <2>1, <4>1
    <3> QED BY <2>4, <3>1
  <2>6. Power2[n] = 2 * Power2[n - 1]
    BY <2>2, <2>3, Power2Equation
  <2>7. Power2[n] \in Nat /\ n < Power2[n] /\ Power2[n - 1] <= Power2[n]
    BY <2>2, <2>4, <2>5, <2>6
  <2>8. ASSUME NEW m \in Nat, m <= n PROVE Power2[m] <= Power2[n]
    <3>1. m = n \/ m <= n - 1
      BY <2>2, <2>8
    <3>2. Power2[m] \in Nat \/ m = n
      <4>1. CASE m <= n - 1
        <5>1. m \notin T
          <6> HIDE DEF T
          <6> QED BY <2>1, <2>2, <4>1
        <5> QED BY <5>1
      <4> QED BY <3>1, <4>1
    <3> QED BY <2>5, <2>7, <3>1, <3>2
  <2> QED BY <2>7, <2>8
<1> QED BY <1>1, <1>2, <1>3

(* merge_union's loop adds the links of the received array to the forest,   *)
(* all of them, whether or not the array is a forest itself.                *)
Trees(D) == {q \in [D -> D] : Acyclic(q)}
One(new, q, n) == IF new[n] = n THEN q ELSE Merge(q, new[n], n)
UpTo(par, new, n, q) ==
  \A S : Respects(q, S) <=> Respects(par, S) /\ \A k \in 1..n : k \in S <=> new[k] \in S

(* Absorbing the parent of one node.                                        *)
LEMMA OneRespects ==
  ASSUME NEW D, NEW new \in [D -> D], NEW q \in Trees(D), NEW n \in D
  PROVE  /\ One(new, q, n) \in Trees(D)
         /\ \A S : Respects(One(new, q, n), S) <=> Respects(q, S) /\ (n \in S <=> new[n] \in S)
<1>1. new[n] \in D /\ q \in [D -> D] /\ Acyclic(q)
  BY DEF Trees
<1>2. CASE new[n] = n
  BY <1>2 DEF One
<1>3. CASE new[n] # n
  <2>1. /\ Merge(q, new[n], n) \in [D -> D] /\ Acyclic(Merge(q, new[n], n))
        /\ \A S : Respects(Merge(q, new[n], n), S) <=> Respects(q, S) /\ (new[n] \in S <=> n \in S)
    BY <1>1, MergeRespects
  <2> QED BY <1>3, <2>1 DEF One, Trees
<1> QED BY <1>2, <1>3

(* Absorbing the parents of the nodes up to one more.                       *)
LEMMA UpToStep ==
  ASSUME NEW N \in Nat, NEW n \in 1..N, NEW par, NEW new, NEW q, NEW r,
         UpTo(par, new, n - 1, q),
         \A S : Respects(r, S) <=> Respects(q, S) /\ (n \in S <=> new[n] \in S)
  PROVE  UpTo(par, new, n, r)
<1>1. 1..n = 1..(n - 1) \cup {n}
  OBVIOUS
<1>2. ASSUME NEW S
      PROVE  (\A k \in 1..n : k \in S <=> new[k] \in S) <=>
             (\A k \in 1..(n - 1) : k \in S <=> new[k] \in S) /\ (n \in S <=> new[n] \in S)
  BY <1>1
<1> QED BY <1>2 DEF UpTo

(* Absorbing a whole array.                                                 *)
LEMMA AbsorbRespects ==
  ASSUME NEW N \in Nat, NEW par \in [1..N -> 1..N], Acyclic(par), NEW new \in [1..N -> 1..N]
  PROVE  /\ Absorb(par, new) \in [1..N -> 1..N] /\ Acyclic(Absorb(par, new))
         /\ \A S : Respects(Absorb(par, new), S) <=> Respects(par, S) /\ Respects(new, S)
<1> DEFINE V == Trees(1..N)
           F(f) == [n \in 0..Len(new) |-> IF n = 0 THEN par
                                          ELSE IF new[n] = n THEN f[n - 1] ELSE Merge(f[n - 1], new[n], n)]
           upto == CHOOSE f : f = F(f)
<1>1. new \in Seq(1..N) /\ Len(new) = N
  <2>1. new \in Seq(1..N)
    BY SeqDef
  <2> QED BY <2>1, LenProperties
<1>2. par \in V
  BY DEF Trees
<1> HIDE DEF V
<1>0. ASSUME NEW q \in V, NEW n \in 1..N
      PROVE  /\ One(new, q, n) \in V
             /\ \A S : Respects(One(new, q, n), S) <=> Respects(q, S) /\ (n \in S <=> new[n] \in S)
  <2> DEFINE D == 1..N
  <2>1. new \in [D -> D] /\ n \in D /\ q \in Trees(D)
    BY DEF V
  <2> HIDE DEF D
  <2>2. One(new, q, n) \in Trees(D)
         /\ \A S : Respects(One(new, q, n), S) <=> Respects(q, S) /\ (n \in S <=> new[n] \in S)
    BY <2>1, OneRespects
  <2> QED BY <2>2 DEF D, V
<1>3. PICK f : f \in [0..N -> V] /\ f[0] = par /\ \A n \in 1..N : f[n] = One(new, f[n - 1], n)
  <2> DEFINE step == [a \in V \X (1..N) |-> One(new, a[1], a[2])]
  <2>1. \A q \in V, n \in 1..N : step[<<q, n>>] = One(new, q, n)
    OBVIOUS
  <2>2. \A q \in V, n \in 1..N : step[<<q, n>>] \in V
    BY <1>0, <2>1
  <2> HIDE DEF step
  <2>3. PICK f : Runs(f, V, par, step, N)
    BY <1>2, <2>2, Recursion
  <2>4. ASSUME NEW n \in 1..N PROVE f[n] = One(new, f[n - 1], n)
    <3>1. n - 1 \in 0..N
      OBVIOUS
    <3>2. f[n - 1] \in V
      BY <2>3, <3>1 DEF Runs
    <3> QED BY <2>1, <2>3, <3>2 DEF Runs
  <2> QED BY <2>3, <2>4 DEF Runs
<1>4. f = F(f)
  <2>1. ASSUME NEW n \in 0..N
        PROVE  f[n] = IF n = 0 THEN par
                      ELSE IF new[n] = n THEN f[n - 1] ELSE Merge(f[n - 1], new[n], n)
    <3>1. n = 0 \/ n \in 1..N
      OBVIOUS
    <3> QED BY <1>3, <3>1 DEF One
  <2> QED BY <1>1, <1>3, <2>1
<1>5. upto = F(upto)
  <2> HIDE DEF F
  <2> QED BY <1>4
<1>6. Absorb(par, new) = upto[N]
  BY <1>1 DEF Absorb
<1> HIDE DEF upto
<1>7. upto[0] = par /\ \A n \in 1..N : upto[n] = One(new, upto[n - 1], n)
  <2>1. \A n \in 0..N : upto[n] = F(upto)[n]
    BY <1>5
  <2>2. upto[0] = par
    BY <1>1, <2>1
  <2>3. ASSUME NEW n \in 1..N PROVE upto[n] = One(new, upto[n - 1], n)
    <3>1. n \in 0..N /\ n # 0
      OBVIOUS
    <3>2. F(upto)[n] = IF new[n] = n THEN upto[n - 1] ELSE Merge(upto[n - 1], new[n], n)
      BY <1>1, <3>1
    <3> QED BY <2>1, <3>1, <3>2 DEF One
  <2> QED BY <2>2, <2>3
<1> HIDE DEF F
<1> DEFINE T == {n \in 0..N : ~(upto[n] \in V /\ UpTo(par, new, n, upto[n]))}
<1>8. T = {}
  <2> SUFFICES ASSUME T # {} PROVE FALSE
    OBVIOUS
  <2>1. PICK n \in T : \A k \in T : n <= k
    <3>1. T \in SUBSET Nat
      OBVIOUS
    <3> HIDE DEF T
    <3> QED BY <3>1, Least
  <2>2. n \in 0..N /\ ~(upto[n] \in V /\ UpTo(par, new, n, upto[n]))
    OBVIOUS
  <2>3. CASE n = 0
    <3>1. \A k \in 1..0 : FALSE
      OBVIOUS
    <3> QED BY <1>2, <1>7, <2>2, <2>3, <3>1 DEF UpTo
  <2>4. CASE n # 0
    <3>1. n \in 1..N /\ n - 1 \in 0..N /\ n - 1 < n
      BY <2>2, <2>4
    <3>2. n - 1 \notin T
      <4> HIDE DEF T
      <4> QED BY <2>1, <3>1
    <3>3. upto[n - 1] \in V /\ UpTo(par, new, n - 1, upto[n - 1])
      BY <3>1, <3>2
    <3>4. upto[n] = One(new, upto[n - 1], n)
      BY <1>7, <3>1
    <3>5. /\ upto[n] \in V
          /\ \A S : Respects(upto[n], S) <=> Respects(upto[n - 1], S) /\ (n \in S <=> new[n] \in S)
      <4> DEFINE q == upto[n - 1]
      <4>1. q \in V
        BY <3>3
      <4>2. upto[n] = One(new, q, n)
        BY <3>4
      <4> HIDE DEF q
      <4>3. /\ One(new, q, n) \in V
            /\ \A S : Respects(One(new, q, n), S) <=> Respects(q, S) /\ (n \in S <=> new[n] \in S)
        BY <1>0, <3>1, <4>1
      <4> QED BY <4>2, <4>3 DEF q
    <3>6. UpTo(par, new, n, upto[n])
      BY <3>1, <3>3, <3>5, UpToStep
    <3> QED BY <2>2, <3>5, <3>6
  <2> QED BY <2>3, <2>4
<1>9. upto[N] \in V /\ UpTo(par, new, N, upto[N])
  <2>1. N \in 0..N
    OBVIOUS
  <2> QED BY <1>8, <2>1
<1>10. \A S : Respects(new, S) <=> \A k \in 1..N : k \in S <=> new[k] \in S
  BY DEF Respects
<1> QED BY <1>6, <1>9, <1>10 DEF V, Trees, UpTo
=============================================================================
