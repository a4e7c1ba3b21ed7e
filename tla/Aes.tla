-------------------------------- MODULE Aes --------------------------------
(***************************************************************************)
(* The block cipher of the request envelope: src/publib/aes.c, built with  *)
(* AES256 (aes.h:28).  One step of this module is one round of Cipher or   *)
(* of InvCipher; the two run one after the other on one block, as a        *)
(* request is encrypted by one side and decrypted by the other.            *)
(*                                                                         *)
(* Bytes are numbers below 256 and keep their width: xtime drops the bit   *)
(* that is shifted out, Multiply adds at most five shifts of it.  A state  *)
(* is a function of the byte's index 0..15: state[i][j] is s[4*i + j].  *)
(***************************************************************************)
EXTENDS Integers, Sequences, Bitwise, SequencesExt

CONSTANTS
    Cases           \* records [key, plain, cipher]: what is tried, and the known results

VARIABLES
    case,           \* the key and the block of this behaviour
    keys,           \* RoundKey by words, filled by AES_init_ctx_iv
    s,              \* the state
    done,           \* "enc" with the rounds done, then "dec", then "end"
    round,          \* the loop variable of Cipher and InvCipher
    trail           \* the states after each round of Cipher (for the properties)

vars == <<case, keys, s, done, round, trail>>

Nk == 8             \* the words of a key
Nr == 14            \* the rounds

Bytes == 0..255
Index == 0..15

SBox == << 99, 124, 119, 123, 242, 107, 111, 197,  48,   1, 103,  43, 254, 215, 171, 118,
                202, 130, 201, 125, 250,  89,  71, 240, 173, 212, 162, 175, 156, 164, 114, 192,
                183, 253, 147,  38,  54,  63, 247, 204,  52, 165, 229, 241, 113, 216,  49,  21,
                  4, 199,  35, 195,  24, 150,   5, 154,   7,  18, 128, 226, 235,  39, 178, 117,
                  9, 131,  44,  26,  27, 110,  90, 160,  82,  59, 214, 179,  41, 227,  47, 132,
                 83, 209,   0, 237,  32, 252, 177,  91, 106, 203, 190,  57,  74,  76,  88, 207,
                208, 239, 170, 251,  67,  77,  51, 133,  69, 249,   2, 127,  80,  60, 159, 168,
                 81, 163,  64, 143, 146, 157,  56, 245, 188, 182, 218,  33,  16, 255, 243, 210,
                205,  12,  19, 236,  95, 151,  68,  23, 196, 167, 126,  61, 100,  93,  25, 115,
                 96, 129,  79, 220,  34,  42, 144, 136,  70, 238, 184,  20, 222,  94,  11, 219,
                224,  50,  58,  10,  73,   6,  36,  92, 194, 211, 172,  98, 145, 149, 228, 121,
                231, 200,  55, 109, 141, 213,  78, 169, 108,  86, 244, 234, 101, 122, 174,   8,
                186, 120,  37,  46,  28, 166, 180, 198, 232, 221, 116,  31,  75, 189, 139, 138,
                112,  62, 181, 102,  72,   3, 246,  14,  97,  53,  87, 185, 134, 193,  29, 158,
                225, 248, 152,  17, 105, 217, 142, 148, 155,  30, 135, 233, 206,  85,  40, 223,
                140, 161, 137,  13, 191, 230,  66, 104,  65, 153,  45,  15, 176,  84, 187,  22>>

RSBox == << 82,   9, 106, 213,  48,  54, 165,  56, 191,  64, 163, 158, 129, 243, 215, 251,
                124, 227,  57, 130, 155,  47, 255, 135,  52, 142,  67,  68, 196, 222, 233, 203,
                 84, 123, 148,  50, 166, 194,  35,  61, 238,  76, 149,  11,  66, 250, 195,  78,
                  8,  46, 161, 102,  40, 217,  36, 178, 118,  91, 162,  73, 109, 139, 209,  37,
                114, 248, 246, 100, 134, 104, 152,  22, 212, 164,  92, 204,  93, 101, 182, 146,
                108, 112,  72,  80, 253, 237, 185, 218,  94,  21,  70,  87, 167, 141, 157, 132,
                144, 216, 171,   0, 140, 188, 211,  10, 247, 228,  88,   5, 184, 179,  69,   6,
                208,  44,  30, 143, 202,  63,  15,   2, 193, 175, 189,   3,   1,  19, 138, 107,
                 58, 145,  17,  65,  79, 103, 220, 234, 151, 242, 207, 206, 240, 180, 230, 115,
                150, 172, 116,  34, 231, 173,  53, 133, 226, 249,  55, 232,  28, 117, 223, 110,
                 71, 241,  26, 113,  29,  41, 197, 137, 111, 183,  98,  14, 170,  24, 190,  27,
                252,  86,  62,  75, 198, 210, 121,  32, 154, 219, 192, 254, 120, 205,  90, 244,
                 31, 221, 168,  51, 136,   7, 199,  49, 177,  18,  16,  89,  39, 128, 236,  95,
                 96,  81, 127, 169,  25, 181,  74,  13,  45, 229, 122, 159, 147, 201, 156, 239,
                160, 224,  59,  77, 174,  42, 245, 176, 200, 235, 187,  60, 131,  83, 153,  97,
                 23,  43,   4, 126, 186, 119, 214,  38, 225, 105,  20,  99,  85,  33,  12, 125>>

Rcon == <<141, 1, 2, 4, 8, 16, 32, 64, 128, 27, 54>>

(* sbox[x], rsbox[x] and the sum of two bytes (^), tabulated once by nibbles. *)
NibbleXor == [a \in 0..15 |-> [b \in 0..15 |-> a ^^ b]]
Add(a, b) == 16 * NibbleXor[a \div 16][b \div 16] + NibbleXor[a % 16][b % 16]
AddAll(bytes) == FoldLeft(Add, 0, bytes)

SubByte(x) == SBox[x + 1]
InvSubByte(x) == RSBox[x + 1]

-----------------------------------------------------------------------------
(* A word of the expanded key, byte by byte. *)
Word(Byte(_)) == <<Byte(0), Byte(1), Byte(2), Byte(3)>>

(* Mutant: the branch of AES256 is left out. *)
NeverSubstituted(k) == FALSE

(* A longer key's words in the middle of a group are substituted too. *)
Substituted(k) == k % Nk = 4

(* Word k of the expanded key, from the words w[1..k], words 0 to k - 1. *)
NewWord(w, k) ==
    LET last == w[k]
        Mixed(j) == IF k % Nk = 0 THEN Add(SubByte(last[((j + 1) % 4) + 1]),
                                           IF j = 0 THEN Rcon[(k \div Nk) + 1] ELSE 0)
                    ELSE IF Substituted(k) THEN SubByte(last[j + 1]) ELSE last[j + 1]
        Sum(j) == Add(w[k - Nk + 1][j + 1], Mixed(j))
    IN  Word(Sum)

(* KeyExpansion: Nb * (Nr + 1) words, the first Nk of them the key's. *)
KeyExpansion(key) ==
    FoldLeft(LAMBDA w, k: Append(w, NewWord(w, k)),
             [i \in 1..Nk |-> SubSeq(key, 4 * i - 3, 4 * i)],
             [n \in 1..(4 * (Nr + 1) - Nk) |-> n + Nk - 1])

AddRoundKey(r, st) == [b \in Index |-> Add(st[b], keys[4 * r + (b \div 4) + 1][(b % 4) + 1])]

SubBytes(st) == [b \in Index |-> SubByte(st[b])]
InvSubBytes(st) == [b \in Index |-> InvSubByte(st[b])]

(* Row j moves j columns to the left, and back to the right. *)
ShiftRows(st) == [b \in Index |-> st[(b + 4 * (b % 4)) % 16]]

(* Mutant: the rows are moved to the left again. *)
InvShiftRowsLeft(st) == [b \in Index |-> st[(b + 4 * (b % 4)) % 16]]

InvShiftRows(st) == [b \in Index |-> st[(b + 12 * (b % 4)) % 16]]

xtime(x) == Add((2 * x) % 256, 27 * (x \div 128))

(* The products with 1, 2, 4, 8 and 16 that y's five low bits select. *)
Multiply(x, y) ==
    LET x2 == xtime(x) x4 == xtime(x2) x8 == xtime(x4) x16 == xtime(x8)
        Bit(n, v) == IF (y \div n) % 2 = 1 THEN v ELSE 0
    IN  AddAll(<<Bit(1, x), Bit(2, x2), Bit(4, x4), Bit(8, x8), Bit(16, x16)>>)

(* Each byte of a column takes the xor of the column and twice the xor of  *)
(* itself and its successor, the first byte's old value after the last.    *)
MixColumns(st) ==
    [b \in Index |->
        LET col == 4 * (b \div 4)
            next == col + ((b + 1) % 4)
        IN  AddAll(<<st[b], xtime(Add(st[b], st[next])),
                   st[col], st[col + 1], st[col + 2], st[col + 3]>>)]

(* The rows of factors that InvMixColumns multiplies a column with. *)
Factors == <<14, 11, 13, 9>>

InvMixColumns(st) ==
    [b \in Index |->
        LET col == 4 * (b \div 4)
        IN  AddAll([i \in 1..4 |-> Multiply(st[col + i - 1], Factors[((i - 1 - b) % 4) + 1])])]

-----------------------------------------------------------------------------
Init ==
    /\ case \in Cases
    /\ keys = KeyExpansion(case.key)
    /\ s = [b \in Index |-> case.plain[b + 1]]
    /\ done = "start" /\ round = 0 /\ trail = <<>>

(* Cipher before its loop. *)
Start ==
    /\ done = "start"
    /\ s' = AddRoundKey(0, s)
    /\ trail' = <<s'>>
    /\ done' = "enc" /\ round' = 1
    /\ UNCHANGED <<case, keys>>

(* A pass of the loop, and the last round, which has no MixColumns. *)
Round ==
    /\ done = "enc"
    /\ LET shifted == ShiftRows(SubBytes(s))
       IN  s' = AddRoundKey(round, IF round < Nr THEN MixColumns(shifted) ELSE shifted)
    /\ trail' = Append(trail, s')
    /\ round' = round + 1
    /\ done' = IF round < Nr THEN "enc" ELSE "crypted"
    /\ UNCHANGED <<case, keys>>

(* InvCipher before its loop. *)
InvStart ==
    /\ done = "crypted"
    /\ s' = AddRoundKey(Nr, s)
    /\ done' = "dec" /\ round' = Nr - 1
    /\ UNCHANGED <<case, keys, trail>>

(* A pass of the inverse loop, and the last round. *)
InvRound ==
    /\ done = "dec"
    /\ LET added == AddRoundKey(round, InvSubBytes(InvShiftRows(s)))
       IN  s' = IF round > 0 THEN InvMixColumns(added) ELSE added
    /\ round' = IF round > 0 THEN round - 1 ELSE round
    /\ done' = IF round > 0 THEN "dec" ELSE "end"
    /\ UNCHANGED <<case, keys, trail>>

Next == Start \/ Round \/ InvStart \/ InvRound

Spec == Init /\ [][Next]_vars

-----------------------------------------------------------------------------
(* Every round of InvCipher undoes the matching round of Cipher: before a  *)
(* pass with round r the state is Cipher's state before round r + 1 as it  *)
(* stood between ShiftRows and MixColumns, and in the end it is the block  *)
(* that was encrypted.  The two loops run in opposite order, with other    *)
(* tables, shifts and factors (Cipher, InvCipher).                         *)
Undoes ==
    /\ done = "dec" => s = ShiftRows(SubBytes(trail[round + 1]))
    /\ done = "end" => s = [b \in Index |-> case.plain[b + 1]]

(* What Cipher makes of the blocks whose result is known from the standard *)
(* the file names (aes.c:3): the key schedule, the tables and the rounds   *)
(* are the standard's, not only inverse to each other.                     *)
Standard ==
    done = "crypted" /\ case.cipher # <<>> => s = [b \in Index |-> case.cipher[b + 1]]
=============================================================================
