------------------------------- MODULE Forest -------------------------------
(***************************************************************************)
(* The disjoint sets of src/lsh.cu: par[x] is the parent of x, a root is   *)
(* its own parent.  root() makes every node on its path a child of the     *)
(* root; merge(x, y) hangs the root of y below the root of x.              *)
(***************************************************************************)
EXTENDS Integers, Sequences, FiniteSets

Singletons(S) == [x \in S |-> x]

(* From x up to its root.                                                   *)
Path(par, x) ==
  LET path[y \in DOMAIN par] == IF par[y] = y THEN {y} ELSE {y} \cup path[par[y]]
  IN  path[x]

Root(par, x) == CHOOSE y \in Path(par, x) : par[y] = y

Compress(par, x) ==
  [y \in DOMAIN par |-> IF y \in Path(par, x) THEN Root(par, x) ELSE par[y]]

(* Mutant: the root of y goes below x itself, without a test.               *)
MergeUnrooted(par, x, y) ==
  [Compress(Compress(par, x), y) EXCEPT ![Root(par, y)] = x]

Merge(par, x, y) ==
  LET flat == Compress(Compress(par, x), y)
      rx   == Root(par, x)
      ry   == Root(par, y)
  IN  IF rx = ry THEN flat ELSE [flat EXCEPT ![ry] = rx]

(* Mutant: the loop starts at the second document.                          *)
AbsorbFromSecond(par, new) ==
  LET upto[n \in 1..Len(new)] ==
        IF n = 1 THEN par
        ELSE IF new[n] = n THEN upto[n - 1] ELSE Merge(upto[n - 1], new[n], n)
  IN  upto[Len(new)]

(* merge_union's loop over a received array: every link it holds is merged. *)
Absorb(par, new) ==
  LET upto[n \in 0..Len(new)] ==
        IF n = 0 THEN par
        ELSE IF new[n] = n THEN upto[n - 1] ELSE Merge(upto[n - 1], new[n], n)
  IN  upto[Len(new)]

(* No cycles, so root() returns: every set of nodes has one whose parent is *)
(* itself or is outside of the set.                                         *)
Acyclic(par) ==
  \A S \in SUBSET DOMAIN par : S # {} => \E x \in S : par[x] = x \/ par[x] \notin S

Together(par, x, y) == Root(par, x) = Root(par, y)

(* The documents that a set of pairs links to x, in any number of steps:    *)
(* the least set that holds x and, of each pair, both documents or none.    *)
Closed(pairs, S) == \A p \in pairs : p[1] \in S <=> p[2] \in S
Linked(docs, pairs, x) ==
  LET closed == {S \in SUBSET docs : x \in S /\ Closed(pairs, S)}
  IN  {e \in docs : \A S \in closed : e \in S}

(* For the height of a tree and the levels of merge_union.                  *)
Power2[n \in Nat] == IF n = 0 THEN 1 ELSE 2 * Power2[n - 1]
=============================================================================
