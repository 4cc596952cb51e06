----------------------------- MODULE Signatures -----------------------------
(***************************************************************************)
(* How the signatures come about and how they travel.  On the MPI side, a  *)
(* thread of hash_string_kernel_lsh (src/lsh.cu) rolls one hash function   *)
(* over one line of the buffer.  On the federation's side, the client      *)
(* hashes a batch of texts on its GPU (src/fed/fed_cuda.cu), chooses the   *)
(* buckets, encrypts the signatures with AES in CBC mode, and the server   *)
(* decrypts them, with AES on the CPU (src/fed/crypto.cpp, aes_crypto.cpp) *)
(* or with a kernel on the GPU (src/fed/decrypt_cuda.cu).                  *)
(*                                                                         *)
(* Unsigned arithmetic is modulo WordMod (2^32 in the code).  A behaviour  *)
(* is one thread or one batch: threads share nothing they write.           *)
(***************************************************************************)
EXTENDS Integers, Sequences, FiniteSets, FiniteSetsExt

CONSTANTS
  WordMod,     \* unsigned arithmetic; the greatest word is also UINT32_MAX
  CharMod,     \* a char holds 0..CharMod-1; signed, from CharMod/2 on
  Q,           \* q[h]: the modulus of every hash function
  P0,          \* p[0]: function h multiplies by P0 + h
  NumHash,     \* hash functions
  Shingle,     \* shingle length
  TextAt,      \* where the text of a line starts (10 in the code)
  NumBands,    \* bands of calculate_bucket_id
  BucketMod,   \* its modulus (1000003 in the code)
  BlockWords,  \* words of an AES block (4 in the code)
  Lines,       \* inputs of the MPI side: buffer contents and line lengths
  Batches,     \* inputs of the federation's side: texts by document
  Ivs,         \* initialization vectors that are drawn
  Enc(_, _),   \* AES: key, block
  Dec(_, _),
  KeyWord(_, _), \* byte i of the key of a document's client
  XorWord(_, _) \* exclusive or of two words

Words   == 0..(WordMod - 1)
Hashes  == 0..(NumHash - 1)
MaxWord == WordMod - 1
Chars   == 0..(CharMod - 1)
Cells   == [1..BlockWords -> Words]     \* the values of an AES block
ZeroBlock == [w \in 1..BlockWords |-> 0]

(* What the code and its parameters guarantee.  A multiplier times a hash   *)
(* value, and a char that leaves the window, positive, times r, fit in a    *)
(* word: for 4294967 and 257 + h, with no more than 617 hash functions.  A  *)
(* buffer goes on after a line.                                             *)
ASSUME SignaturesAssumption ==
  /\ WordMod \in Nat /\ CharMod \in Nat \ {0} /\ Q \in 1..WordMod /\ P0 \in Nat
  /\ NumHash \in Nat \ {0} /\ Shingle \in Nat \ {0} /\ TextAt \in Nat
  /\ (Q - 1) * (P0 + NumHash - 1) + CharMod - 1 < WordMod
  /\ (Q - 1) * (P0 + NumHash - 1) + ((CharMod - 1) \div 2) * Q < WordMod
  /\ NumBands \in 1..NumHash /\ BucketMod \in Nat \ {0}

ASSUME InputsAssumption ==
  /\ \A l \in Lines :
       /\ l.buf \in Seq(Chars) /\ l.len \in Nat /\ l.hash \in Hashes
       /\ l.len <= Len(l.buf) /\ TextAt + Shingle <= Len(l.buf)
  /\ Batches \subseteq Seq(Seq(Chars))

(* A signature is longer than an AES block.                                 *)
ASSUME CipherAssumption ==
  /\ BlockWords \in 1..NumHash /\ BlockWords < WordMod /\ Ivs \subseteq Cells
  /\ \A k \in UNION {DOMAIN t : t \in Batches} : \A x \in Cells :
       Enc(k, x) \in Cells /\ Dec(k, Enc(k, x)) = x
  /\ \A x, y \in Words : XorWord(x, y) \in Words /\ XorWord(XorWord(x, y), y) = x

VARIABLES
  side,     \* "mpi" or "federation"
  pc,       \* where the thread, the client or the server is
  input,    \* the line and the hash function, or the texts of the batch
  i,        \* the loop of the thread
  sum, res, \* its hash of the window, and the least so far
  wrapped,  \* history: an intermediate result has left the range of words
  sig,      \* signatures of the batch
  bucket,   \* their buckets
  cipher,   \* what is sent, in blocks
  replaced, \* documents whose client has got another key since
  plain     \* what the server makes of it

rolling == <<i, sum, res, wrapped>>
batch   == <<sig, bucket, cipher, replaced, plain>>
signvars == <<side, pc, input, rolling, batch>>

-----------------------------------------------------------------------------
(* Hash functions.  All of them, and the bucket ids, are loops that          *)
(* multiply an unsigned number by m, add the next of a and reduce it modulo  *)
(* q.  r starts at q - 1, so it becomes -p^Shingle.                          *)

P(h) == P0 + h

Horner(m, q, x, a) ==
  LET acc[n \in 0..Len(a)] ==
        IF n = 0 THEN x ELSE ((acc[n - 1] * m + a[n]) % WordMod) % q
  IN  acc[Len(a)]

(* Mutant: the power is one short.                                          *)
RShort(h) == Horner(P(h), Q, Q - 1, [j \in 1..(Shingle - 1) |-> 0])

R(h) == Horner(P(h), Q, Q - 1, [j \in 1..Shingle |-> 0])

(* The MPI kernel adds a char as it is, that is signed; the federation's    *)
(* kernels convert it to unsigned char.                                     *)
Signed(c) == IF 2 * c >= CharMod THEN c - CharMod ELSE c
AsUnsigned(c) == Signed(c) % WordMod

SignInit ==
  /\ i = 0 /\ sum = 0 /\ res = 0 /\ wrapped = FALSE
  /\ sig = <<>> /\ bucket = <<>> /\ cipher = <<>> /\ plain = <<>> /\ replaced = {}
  /\ \/ side = "mpi" /\ pc = "start" /\ input \in Lines
     \/ side = "federation" /\ pc = "hash" /\ input \in Batches

-----------------------------------------------------------------------------
(* hash_string_kernel_lsh.  The first window is read whatever the length of *)
(* the line: a line shorter than TextAt + Shingle is read beyond its end.   *)

Text(k) == input.buf[k + 1]

Absorbed(s, k) == s * P(input.hash) + AsUnsigned(Text(k))
InRange(s, more) == s * P(input.hash) + more \in Words

LineTooShort ==
  /\ pc = "start" /\ input.len < Shingle
  /\ pc' = "skipped"
  /\ UNCHANGED <<side, input, rolling, batch>>

FirstWindowBegins ==
  /\ pc = "start" /\ input.len >= Shingle
  /\ pc' = "first" /\ i' = TextAt
  /\ UNCHANGED <<side, input, sum, res, wrapped, batch>>

FirstWindow ==
  /\ pc = "first" /\ i < TextAt + Shingle
  /\ sum' = (Absorbed(sum, i) % WordMod) % Q
  /\ wrapped' = (wrapped \/ ~InRange(sum, Signed(Text(i))))
  /\ i' = i + 1
  /\ UNCHANGED <<side, pc, input, res, batch>>

RollingBegins ==
  /\ pc = "first" /\ i = TextAt + Shingle
  /\ res' = sum /\ pc' = "roll"
  /\ UNCHANGED <<side, input, i, sum, wrapped, batch>>

More == i < input.len - Shingle - 1

Roll ==
  /\ pc = "roll" /\ More
  /\ LET old == i - Shingle IN
       /\ sum' = ((Absorbed(sum, i) + AsUnsigned(Text(old)) * R(input.hash)) % WordMod) % Q
       /\ wrapped' = (wrapped \/
            ~InRange(sum, Signed(Text(old)) * R(input.hash) + Signed(Text(i))))
  /\ res' = IF sum' < res THEN sum' ELSE res
  /\ i' = i + 1
  /\ UNCHANGED <<side, pc, input, batch>>

LineHashed ==
  /\ pc = "roll" /\ ~More
  /\ pc' = "hashed"
  /\ UNCHANGED <<side, input, rolling, batch>>

-----------------------------------------------------------------------------
(* compute_batch_signatures: the texts are concatenated, and a thread reads *)
(* its own from its offset.                                                 *)

Docs == DOMAIN input
Offset(d) ==
  LET end[e \in 0..Len(input)] == IF e = 0 THEN 0 ELSE end[e - 1] + Len(input[e])
  IN  end[d - 1]

Concatenated ==
  LET upto[e \in 0..Len(input)] == IF e = 0 THEN <<>> ELSE upto[e - 1] \o input[e]
  IN  upto[Len(input)]

ShingleHash(h, from) ==
  Horner(P(h), Q, R(h), SubSeq(Concatenated, from + 1, from + Shingle))

MinHash(d, h) ==
  Min({MaxWord} \cup {ShingleHash(h, Offset(d) + k) : k \in 0..(Len(input[d]) - Shingle)})

BatchSignatures ==
  /\ pc = "hash"
  /\ sig' = [d \in Docs |-> [h \in 1..NumHash |-> MinHash(d, h - 1)]]
  /\ pc' = "bucket"
  /\ UNCHANGED <<side, input, rolling, bucket, cipher, replaced, plain>>

(* calculate_bucket_id: all bands, folded.                                  *)
RowsPerBand == NumHash \div NumBands
BandSum(s, b) ==
  Horner(1, WordMod, 0, SubSeq(s, b * RowsPerBand + 1, (b + 1) * RowsPerBand))
BucketId(s) == Horner(31, BucketMod, 0, [b \in 1..NumBands |-> BandSum(s, b - 1)])

ChooseBuckets ==
  /\ pc = "bucket"
  /\ bucket' = [d \in Docs |-> BucketId(sig[d])]
  /\ pc' = "encrypt"
  /\ UNCHANGED <<side, input, rolling, sig, cipher, replaced, plain>>

-----------------------------------------------------------------------------
(* AES in CBC mode with padding.  Words stand for bytes in the padding.     *)
(* Document d is encrypted under key d: of clients with a key each.         *)

XorBlocks(x, y) == [w \in 1..BlockWords |-> XorWord(x[w], y[w])]
PadLen(s) == BlockWords - (Len(s) % BlockWords)
Padded(s) == s \o [w \in 1..PadLen(s) |-> PadLen(s)]
InBlocks(s) ==
  [b \in 1..(Len(s) \div BlockWords) |->
     [w \in 1..BlockWords |-> s[(b - 1) * BlockWords + w]]]
Flat(c) ==
  [n \in 1..(Len(c) * BlockWords) |->
     c[((n - 1) \div BlockWords) + 1][((n - 1) % BlockWords) + 1]]

EncryptCbc(k, iv, s) ==
  LET blocks == InBlocks(Padded(s))
      chain[b \in 0..Len(blocks)] ==
        IF b = 0 THEN iv ELSE Enc(k, XorBlocks(blocks[b], chain[b - 1]))
  IN  [b \in 1..Len(blocks) |-> chain[b]]

(* Mutant: every block is decrypted with the initialization vector.         *)
DecryptBlocksApart(k, iv, c) == [b \in 1..Len(c) |-> XorBlocks(Dec(k, c[b]), iv)]

DecryptBlocks(k, iv, c) ==
  [b \in 1..Len(c) |-> XorBlocks(Dec(k, c[b]), IF b = 1 THEN iv ELSE c[b - 1])]

(* The padding is well formed: its length, in each of its words.           *)
PaddedBy(s, n) == n \in 1..BlockWords /\ \A w \in (Len(s) - n + 1)..Len(s) : s[w] = n
WellPadded(s) == PaddedBy(s, s[Len(s)])

(* encrypt_signature draws the initialization vector and does not send it.  *)
EncryptSignatures ==
  /\ pc = "encrypt"
  /\ \E iv \in [Docs -> Ivs] : cipher' = [d \in Docs |-> EncryptCbc(d, iv[d], sig[d])]
  /\ pc' = "sent"
  /\ UNCHANGED <<side, input, rolling, sig, bucket, replaced, plain>>

(* decrypt_signature, one candidate after the other: it decrypts with an    *)
(* initialization vector of zeros and the key the server has, 0 where a     *)
(* second HELLO of the client has replaced the one the candidate came with. *)
(* Malformed padding throws; what is too long is cut.                       *)
KeyOf(d) == IF d \in replaced THEN 0 ELSE d
Decrypted(d) == Flat(DecryptBlocks(KeyOf(d), ZeroBlock, cipher[d]))

DecryptSignature(s) == SubSeq(s, 1, Min({NumHash, Len(s) - s[Len(s)]}))

ReplaceKeys ==
  /\ pc = "sent" /\ replaced = {}
  /\ replaced' \in SUBSET Docs
  /\ UNCHANGED <<side, pc, input, rolling, sig, bucket, cipher, plain>>

DecryptOnCpu ==
  /\ pc = "sent"
  /\ IF \A d \in Docs : WellPadded(Decrypted(d))
       THEN /\ plain' = [d \in Docs |-> DecryptSignature(Decrypted(d))]
            /\ pc' = "decrypted"
       ELSE /\ pc' = "threw"
            /\ UNCHANGED plain
  /\ UNCHANGED <<side, input, rolling, sig, bucket, cipher, replaced>>

(* simple_decrypt_kernel: the words of the encrypted signature, padding and *)
(* all, each xor a byte of the key.                                         *)
DecryptOnGpu ==
  /\ pc = "sent"
  /\ plain' = [d \in Docs |-> LET c == Flat(cipher[d]) IN
                 [w \in 1..Len(c) |-> XorWord(c[w], KeyWord(KeyOf(d), (w - 1) % 32))]]
  /\ pc' = "garbled"
  /\ UNCHANGED <<side, input, rolling, sig, bucket, cipher, replaced>>

SignNext ==
  \/ LineTooShort \/ FirstWindowBegins \/ FirstWindow \/ RollingBegins \/ Roll \/ LineHashed
  \/ BatchSignatures \/ ChooseBuckets \/ EncryptSignatures \/ ReplaceKeys
  \/ DecryptOnCpu \/ DecryptOnGpu

SignSpec == SignInit /\ [][SignNext]_signvars

-----------------------------------------------------------------------------
(* Properties                                                               *)

(* The polynomial with the coefficients of a after x, in whole numbers, and *)
(* the hash of a window of signed chars, without any history.               *)
Poly(m, x, a) ==
  LET acc[n \in 0..Len(a)] == IF n = 0 THEN x ELSE acc[n - 1] * m + a[n]
  IN  acc[Len(a)]
Window(last) == [j \in 1..Shingle |-> Signed(Text(last - Shingle + j))]
Direct(h, last) == Poly(P(h), 0, Window(last)) % Q

(* hash_string_kernel_lsh: in every round the rolled sum is the hash of the *)
(* window alone and the result is the least over the windows so far, as     *)
(* long as no intermediate result wrapped around; and that only happens in  *)
(* a line with a char that is negative.                                     *)
HashExact ==
  pc \in {"roll", "hashed"} =>
    /\ ~wrapped =>
         /\ sum = Direct(input.hash, i - 1)
         /\ res = Min({Direct(input.hash, k) : k \in (TextAt + Shingle - 1)..(i - 1)})
    /\ wrapped => \E k \in TextAt..(i - 1) : Signed(Text(k)) < 0

(* Similarity arrives: what two texts have in common when each is hashed by *)
(* itself, whatever else is in the batch, is what their signatures on the   *)
(* server have in common, up to the one block that the initialization       *)
(* vector garbles; decryption with the key of the encryption never throws   *)
(* and gives a signature of full length; and texts with the same shingles   *)
(* are in the same bucket.                                                  *)
Shingles(t) == {SubSeq(t, k, k + Shingle - 1) : k \in 1..(Len(t) - Shingle + 1)}
ShingleSum(h, s) == Poly(P(h), R(h), s) % Q
TrueMin(t, h) == Min({MaxWord} \cup {ShingleSum(h, s) : s \in Shingles(t)})
Agreement(f, g) == Cardinality({h \in 1..NumHash : f[h] = g[h]})

SimilarityArrives ==
  pc \in {"decrypted", "threw"} /\ replaced = {} =>
    /\ pc = "decrypted"
    /\ \A d, e \in Docs :
         LET true == Cardinality({h \in Hashes : TrueMin(input[d], h) = TrueMin(input[e], h)})
             got  == Agreement(plain[d], plain[e])
         IN  /\ Len(plain[d]) = NumHash
             /\ d # e => got - true \in (-BlockWords)..BlockWords
             /\ Shingles(input[d]) = Shingles(input[e]) => bucket[d] = bucket[e]

=============================================================================
