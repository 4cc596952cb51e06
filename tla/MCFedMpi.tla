------------------------------ MODULE MCFedMpi ------------------------------
(* Small instances of FedMpi for TLC.                                       *)
EXTENDS FedMpi, TLC

(* Six documents in three files, the last a short one; a chain of           *)
(* duplicates over four bands, which closes in a cycle; in a fifth band     *)
(* four of them have a common key if there are eight keys, and make more    *)
(* pairs than a bucket of five may list.                                    *)
MCFileOf  == <<0, 0, 1, 1, 2, 2>>
MCSimilar == {<<1, 2>>, <<2, 3>>, <<1, 3>>, <<4, 5>>, <<3, 5>>, <<1, 5>>, <<2, 5>>}
Sums(s)   == [t \in 0..6 |-> s[t + 1]]
MCSumOf   == (0 :> Sums(<<0, 1, 2, 1, 3, 4, 5>>)) @@ (1 :> Sums(<<0, 1, 2, 2, 3, 3, 5>>))
             @@ (2 :> Sums(<<0, 1, 1, 2, 3, 4, 5>>)) @@ (3 :> Sums(<<0, 1, 9, 3, 4, 4, 5>>))
             @@ (4 :> Sums(<<0, 1, 9, 17, 4, 25, 5>>))

(* One to four processes; hashes in memory or in files; the directory there *)
(* or not; GPUs with little memory, alike or not; no Open MPI.              *)
Setup(bucket, ompi, offload, exists) ==
  [size |-> Len(bucket), ompi |-> ompi, bucket |-> bucket, offload |-> offload, dir |-> exists,
   blank |-> exists]
MCSetups ==
  {Setup(<<100>>, TRUE, FALSE, TRUE), Setup(<<5>>, TRUE, TRUE, TRUE),
   Setup(<<100, 100>>, TRUE, TRUE, FALSE), Setup(<<100, 100>>, TRUE, FALSE, TRUE),
   Setup(<<2, 100>>, TRUE, TRUE, TRUE), Setup(<<3, 3>>, TRUE, FALSE, FALSE),
   Setup(<<100>>, FALSE, FALSE, TRUE),
   Setup(<<100, 100, 100>>, TRUE, TRUE, FALSE), Setup(<<100, 100, 100, 100>>, TRUE, FALSE, TRUE),
   Setup(<<100, 2, 100, 3>>, TRUE, TRUE, TRUE)}
=============================================================================
