------------------------------ MODULE Loading ------------------------------
(***************************************************************************)
(* What the client's preprocessor promises: files are loaded one after the *)
(* other, and each that can be opened contributes every line whose text is *)
(* long enough, once, in some order.                                       *)
(***************************************************************************)
EXTENDS Integers, Sequences, FiniteSets

CONSTANT Files    \* the files in directory order; Files[f][l] says whether
                  \* line l of file f has a text of at least min_length_ bytes

VARIABLES
  next_file,        \* files loaded so far
  opened,           \* those of them that could be opened
  local_candidates  \* the lines kept, as <<file, line>>

Kept(f)   == {<<f, l>> : l \in {i \in DOMAIN Files[f] : Files[f][i]}}
Lists(S)  == {s \in [1..Cardinality(S) -> S] : \A i, j \in DOMAIN s : s[i] = s[j] => i = j}

Init == next_file = 0 /\ opened = {} /\ local_candidates = <<>>

(* A file that cannot be opened is passed over.                             *)
LoadFile ==
  /\ opened' = opened \cup {next_file'}
  /\ \E s \in Lists(Kept(next_file')) : local_candidates' = local_candidates \o s

Load ==
  /\ next_file < Len(Files)
  /\ next_file' = next_file + 1
  /\ LoadFile \/ UNCHANGED <<opened, local_candidates>>

Spec == Init /\ [][Load]_<<next_file, opened, local_candidates>>
=============================================================================
