---------------------------- MODULE MCFedServer ----------------------------
(* Small instances of FedServer for TLC.                                    *)
EXTENDS FedServer, TLC

CONSTANTS t1, t2, t3, client1, client2, stranger, a1, a2, a3, b1, b2, x1

ThreadSymmetry == Permutations(Threads)

TwoDocs     == {a1, b1}
TwoOwner    == (a1 :> client1) @@ (b1 :> client2)
SameBucket  == (a1 :> 1) @@ (b1 :> 1)

(* Documents of both clients over two buckets, and a document of a client   *)
(* that the server does not know, which shares the second bucket.           *)
StrangeDocs   == {a1, a2, b1, x1}
StrangeOwner  ==
  (a1 :> client1) @@ (a2 :> client1) @@ (b1 :> client2) @@ (x1 :> stranger)
StrangeBucket == (a1 :> 1) @@ (b1 :> 1) @@ (a2 :> 2) @@ (x1 :> 2)
=============================================================================
