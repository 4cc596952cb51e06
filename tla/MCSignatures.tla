---------------------------- MODULE MCSignatures ----------------------------
(* Small instances of Signatures for TLC.                                   *)
EXTENDS Signatures
LOCAL INSTANCE Bitwise

(* Lines of one to nine chars in a buffer of twelve; hash function 0 or 3.  *)
(* Texts start at 1 and shingles have two chars.                            *)
MCLines ==
  {[buf |-> <<0>> \o b \o <<2, 1, 0, 0, 0>>, len |-> n, hash |-> h] :
     b \in [1..5 -> 0..3], n \in 1..9, h \in {0, 3}}

A == <<1, 2, 3, 1>>
B == <<1, 2, 3>>
C == <<1, 2, 3, 1, 2>>
D == <<3, 0>>
E == <<2>>
MCBatches ==
  {<<A, B>>, <<A, C, D>>, <<E, A, A>>, <<D, E, E>>, <<B, B>>, <<C, B, A>>, <<A>>}

MCIvs == {<<0, 0>>, <<5, 63>>, <<32, 7>>}

(* A permutation of the blocks for each key, in place of AES.               *)
MCEnc(k, x) == <<(x[2] + k) % 64, (x[1] + 3 * x[2] + 5 * k) % 64>>
MCDec(k, x) == LET b == (x[1] - k) % 64 IN <<(x[2] - 3 * b - 5 * k) % 64, b>>
MCKeyWord(k, w) == (7 * k + w) % 4
MCXorWord(x, y) == x ^^ y
=============================================================================
