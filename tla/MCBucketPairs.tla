--------------------------- MODULE MCBucketPairs ---------------------------
(* Small instances of BucketPairs for TLC.                                  *)
EXTENDS BucketPairs, Sequences, TLC

Sig(d) == 0 :> d[1] @@ 1 :> d[2] @@ 2 :> d[3] @@ 3 :> d[4]
Docs0(s) == [d \in 0..(Len(s) - 1) |-> Sig(s[d + 1])]

(* Four or five documents in blocks of two: whole blocks and blocks cut off *)
(* at the end.  The last has more pairs than the list.                      *)
A == <<1, 2, 3, 4>>
B == <<1, 2, 3, 5>>
D == <<6, 7, 8, 9>>
MCInputs ==
  {Docs0(s) : s \in {<<A, B, A, D>>, <<A, D, D, A, A>>, <<D, A, A, A, B>>, <<B, A>>,
                     <<A, D, B>>, <<A, A, A, A, D>>, <<A, A, A, A, A>>}}
=============================================================================
