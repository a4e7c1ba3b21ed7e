------------------------------ MODULE Envelope ------------------------------
(***************************************************************************)
(* The envelope of a request and of its answer: encryptByteArray and       *)
(* decryptByteArray (src/publib/cryptofuck.h) over the CBC mode of         *)
(* src/publib/aes.c, as the network threads of the worker run them: each   *)
(* decrypts the request it was given (router.cpp:48) and encrypts its      *)
(* answer (RESPONSE_200, entity.h:39).  The initialisation vector is one   *)
(* static array for all threads; it is written byte by byte and copied     *)
(* byte by byte into the thread's own context, without a lock.             *)
(*                                                                         *)
(* A byte of a text is "A", "F" (any byte that is no "A") or "?", a byte   *)
(* that came out as anything.  A byte of a vector is the number of the     *)
(* message it belongs to, a byte of an enciphered block its place.  The    *)
(* block cipher (module Aes) is what a bijection promises: a block         *)
(* remembers what was put in, the text and what it was mixed with.         *)
(***************************************************************************)
EXTENDS Integers, Sequences

CONSTANTS
  Threads,   \* the network threads of the worker, numbers from 1
  MaxText,   \* bound: the bytes of a text
  Block,     \* AES_BLOCKLEN
  Pad        \* the padded length is a multiple of it (32)

\* Padding fills blocks.
ASSUME EnvelopeBounds ==
  /\ Threads \subseteq Nat
  /\ MaxText \in Nat /\ Block \in Nat \ {0} /\ Pad \in Nat \ {0}
  /\ Pad % Block = 0

VARIABLES
  iv,        \* the static array
  doing,     \* per thread: where it is in its request
  spot,      \* per thread: the byte of the vector it is at
  context,   \* per thread: Iv of its AES_ctx
  vector,    \* per thread: iv_ba, the vector of its message
  text,      \* per thread: the text that is in the message
  output,    \* per thread: what the reader of the message made of it
  alone      \* per thread: nobody else wrote iv since its first write

envelopeVars == <<iv, doing, spot, context, vector, text, output, alone>>

Texts == UNION {[1..n -> {"A", "F"}] : n \in 0..MaxText}

\* The vectors: one for each message, that of the request and the answer.
RequestVector(t) == [i \in 1..Block |-> 2 * t]
AnswerVector(t) == [i \in 1..Block |-> 2 * t + 1]

-----------------------------------------------------------------------------
(* Texts and blocks *)

\* 'F', then 'A' up to the next multiple of Pad; a full Pad when the text and
\* the 'F' end at one.
Padded(x) == Append(x, "F") \o [i \in 1..(Pad - ((Len(x) + 1) % Pad)) |-> "A"]

\* The 'A's at the end are chopped, and one byte more.
Solid(x) == {i \in 1..Len(x) : x[i] # "A"}
Unpadded(x) ==
  IF Solid(x) = {} THEN <<>>
  ELSE SubSeq(x, 1, (CHOOSE n \in Solid(x) : \A i \in Solid(x) : i <= n) - 1)

\* A text in blocks, and blocks as a text.
Blocks(x) == [b \in 1..(Len(x) \div Block) |-> [i \in 1..Block |-> x[Block * (b - 1) + i]]]
Unblocked(blocks) ==
  [i \in 1..(Block * Len(blocks)) |-> blocks[(i - 1) \div Block + 1][((i - 1) % Block) + 1]]

\* AES_CBC_encrypt_buffer: each block is mixed with the one before it, the first
\* with the vector v.
CbcEncrypt(v, blocks) ==
  [b \in 1..Len(blocks) |->
     [data |-> blocks[b],
      mix |-> [i \in 1..Block |-> IF b = 1 THEN v[i] ELSE 1 - b],
      bytes |-> [i \in 1..Block |-> -b]]]

\* XorWithIv of a deciphered block: a byte that was mixed with another byte comes
\* out as anything.
Unmixed(c, v) == [i \in 1..Block |-> IF c.mix[i] = v[i] THEN c.data[i] ELSE "?"]

\* storeNextIv: the vector after v for the block behind c.
\* Mutant: the vector is not replaced by the block just read.
KeepsVector(v, c) == v
NextVector(v, c) == c.bytes

\* AES_CBC_decrypt_buffer.  Its length is one more than the text's
\* (cryptofuck.h:99); what the pass beyond the text changes is no part of it.
CbcDecrypt(v, cipher) ==
  Unblocked([b \in 1..Len(cipher) |->
               Unmixed(cipher[b], IF b = 1 THEN v ELSE NextVector(v, cipher[b - 1]))])

\* What is read of the text x: in a message that was encrypted with the vector e
\* and is decrypted with d.
Encrypted(e, x) == CbcEncrypt(e, Blocks(Padded(x)))
Decrypted(d, cipher) == Unpadded(CbcDecrypt(d, cipher))

-----------------------------------------------------------------------------
(* The threads *)

\* Where a thread depends on the shared array.
Sharing == {"set in", "set out", "copy in", "copy out"}

EnvelopeInit ==
  /\ iv = [i \in 1..Block |-> 0]
  /\ doing = [t \in Threads |-> "wait"]
  /\ spot = [t \in Threads |-> 1]
  /\ context = [t \in Threads |-> [i \in 1..Block |-> 0]]
  /\ vector = [t \in Threads |-> <<>>]
  /\ text = [t \in Threads |-> <<>>]
  /\ output = [t \in Threads |-> <<>>]
  /\ alone = [t \in Threads |-> TRUE]

\* A request arrives and decryptByteArray takes its vector off it.  The texts are
\* chosen when they are read: nothing depends on them before.
RequestArrives(t) ==
  /\ doing[t] = "wait"
  /\ vector' = [vector EXCEPT ![t] = RequestVector(t)]
  /\ doing' = [doing EXCEPT ![t] = "set in"]
  /\ UNCHANGED <<iv, spot, context, text, output, alone>>

\* The thread goes to its next byte, or to what comes after the last one.
Onward(t, after) ==
  IF spot[t] < Block
  THEN spot' = [spot EXCEPT ![t] = @ + 1] /\ doing' = doing
  ELSE spot' = [spot EXCEPT ![t] = 1] /\ doing' = [doing EXCEPT ![t] = after]

\* The next byte of the thread's vector goes into the shared array; it is the
\* request's own or one drawn for the answer (its digits are random).
SetByte(t) ==
  /\ doing[t] \in {"set in", "set out"}
  /\ iv' = [iv EXCEPT ![spot[t]] = vector[t][spot[t]]]
  /\ alone' = [u \in Threads |-> IF u = t THEN alone[u] \/ spot[t] = 1
                                 ELSE alone[u] /\ doing[u] \notin Sharing]
  /\ Onward(t, IF doing[t] = "set in" THEN "copy in" ELSE "copy out")
  /\ UNCHANGED <<context, vector, text, output>>

\* AES_init_ctx_iv: memcpy of the array into the context.  What the thread does
\* with its context after the last byte touches nothing shared and is one step.
CopyByte(t) ==
  /\ doing[t] \in {"copy in", "copy out"}
  /\ context' = [context EXCEPT ![t][spot[t]] = iv[spot[t]]]
  /\ Onward(t, IF doing[t] = "copy in" THEN "decrypt" ELSE "encrypt")
  /\ UNCHANGED <<iv, vector, text, output, alone>>

\* The rest of decryptByteArray, for a request that the client, one thread of
\* another process, encrypted with the vector it put before it.
Decrypt(t) ==
  /\ doing[t] = "decrypt"
  /\ \E x \in Texts :
       /\ text' = [text EXCEPT ![t] = x]
       /\ output' = [output EXCEPT ![t] = Decrypted(context[t], Encrypted(vector[t], x))]
  /\ doing' = [doing EXCEPT ![t] = "handle"]
  /\ UNCHANGED <<iv, spot, context, vector, alone>>

\* The handler answers and encryptByteArray begins.
HandlerReplies(t) ==
  /\ doing[t] = "handle"
  /\ vector' = [vector EXCEPT ![t] = AnswerVector(t)]
  /\ text' = [text EXCEPT ![t] = <<>>] /\ output' = [output EXCEPT ![t] = <<>>]
  /\ doing' = [doing EXCEPT ![t] = "set out"]
  /\ UNCHANGED <<iv, spot, context, alone>>

\* The rest of encryptByteArray, and the client's decryptByteArray with the vector
\* that was put before the answer, which is the local one.
\* Mutant: it is read from the shared array.
SharedPrefix(t) == iv
Prefix(t) == vector[t]
Encrypt(t) ==
  /\ doing[t] = "encrypt"
  /\ \E x \in Texts :
       /\ text' = [text EXCEPT ![t] = x]
       /\ output' = [output EXCEPT ![t] = Decrypted(Prefix(t), Encrypted(context[t], x))]
  /\ doing' = [doing EXCEPT ![t] = "end"]
  /\ UNCHANGED <<iv, spot, context, vector, alone>>

EnvelopeNext == \E t \in Threads :
  RequestArrives(t) \/ SetByte(t) \/ CopyByte(t) \/ Decrypt(t) \/ HandlerReplies(t) \/ Encrypt(t)

EnvelopeSpec == EnvelopeInit /\ [][EnvelopeNext]_envelopeVars
-----------------------------------------------------------------------------
(* Properties *)

\* The reader of the thread's message has read it.
HasRead(t) == doing[t] \in {"handle", "end"}

\* Whatever the threads do to the shared vector meanwhile, a message's damage ends
\* with its first block: every block after it is mixed with the block before it,
\* which travels in the message (aes.c:486-516), and the padding is found at the
\* end.  (For a text shorter than a block the padding itself is in the first block.)
OnlyFirstBlock ==
  \A t \in Threads : HasRead(t) /\ Len(text[t]) >= Block =>
    /\ Len(output[t]) = Len(text[t])
    /\ \A i \in (Block + 1)..Len(text[t]) : output[t][i] = text[t][i]

\* A thread that had the vector to itself from its first byte to the end of the copy
\* reads and writes whole texts, whatever their length, their last bytes and the
\* other threads do before and after (cryptofuck.h:36, 68).
WholeWhenAlone == \A t \in Threads : HasRead(t) /\ alone[t] => output[t] = text[t]

\* What threads that share the initialisation vector encrypt is decrypted to itself,
\* but for the first block of those that met.
EnvelopeSound == OnlyFirstBlock /\ WholeWhenAlone
=============================================================================
