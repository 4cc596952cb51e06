---------------------------- MODULE MCFederation ----------------------------
(* Small instances of Federation for TLC.                                   *)
EXTENDS Federation, TLC

CONSTANTS client1, client2, a1, b1, b2, b3

MCDocs  == {a1, b1, b2, b3}
MCOwner == (a1 :> client1) @@ (b1 :> client2) @@ (b2 :> client2) @@ (b3 :> client2)

(* client2 is run again after its first run has failed or succeeded, with   *)
(* two candidates, which may be one too many for a block and share a bucket *)
(* of their own.  Its calculation goes over the first bucket again when that *)
(* is not cleared yet.                                                       *)
MCRunDocs == (client1 :> <<{a1}>>) @@ (client2 :> <<{b1}, {b2, b3}>>)
MCBucketOf == [d \in MCDocs |-> IF d \in {a1, b1} THEN 1 ELSE 2]
MCThreads == {<<client1, 1>>, <<client2, 1>>, <<client2, 2>>}
=============================================================================
