-------------------------------- MODULE AES --------------------------------
(***************************************************************************)
(* The block cipher, AES with keys of 256 bits: the tables and functions   *)
(* of AES.vhd and the combinational entities of encrypt/ and decrypt/,     *)
(* with the generic fast, so that the registers of the S-boxes, which      *)
(* module BlockPipeline models, are left out.  Bytes are numbers.          *)
(***************************************************************************)
EXTENDS Integers, Sequences

VARIABLE arg   \* the byte that is compared, or NoByte

\* GF(2^8), in which FIPS-197 computes; its elements are sets of powers of x.
Field == INSTANCE GHash WITH Width <- 8, Taps <- {0, 1, 3, 4}

Byte   == 0 .. 255
NoByte == 256

Weight == <<1, 2, 4, 8, 16, 32, 64, 128>>

\* The bits of a byte that are one, and the byte that has such bits.
Bits(a) == {i \in 0 .. 7 : (a \div Weight[i + 1]) % 2 = 1}

ByteOf(S) ==
  LET w(i) == IF i \in S THEN Weight[i + 1] ELSE 0
  IN  w(0) + w(1) + w(2) + w(3) + w(4) + w(5) + w(6) + w(7)

\* xor of two bytes, as a table that TLC computes once.
XorTable == [a \in Byte |-> [b \in Byte |-> ByteOf(Field!Plus(Bits(a), Bits(b)))]]
a (+) b == XorTable[a][b]

SBox_a == <<
    99, 124, 119, 123, 242, 107, 111, 197,  48,   1, 103,  43, 254, 215, 171, 118,
   202, 130, 201, 125, 250,  89,  71, 240, 173, 212, 162, 175, 156, 164, 114, 192,
   183, 253, 147,  38,  54,  63, 247, 204,  52, 165, 229, 241, 113, 216,  49,  21,
     4, 199,  35, 195,  24, 150,   5, 154,   7,  18, 128, 226, 235,  39, 178, 117,
     9, 131,  44,  26,  27, 110,  90, 160,  82,  59, 214, 179,  41, 227,  47, 132,
    83, 209,   0, 237,  32, 252, 177,  91, 106, 203, 190,  57,  74,  76,  88, 207,
   208, 239, 170, 251,  67,  77,  51, 133,  69, 249,   2, 127,  80,  60, 159, 168,
    81, 163,  64, 143, 146, 157,  56, 245, 188, 182, 218,  33,  16, 255, 243, 210,
   205,  12,  19, 236,  95, 151,  68,  23, 196, 167, 126,  61, 100,  93,  25, 115,
    96, 129,  79, 220,  34,  42, 144, 136,  70, 238, 184,  20, 222,  94,  11, 219,
   224,  50,  58,  10,  73,   6,  36,  92, 194, 211, 172,  98, 145, 149, 228, 121,
   231, 200,  55, 109, 141, 213,  78, 169, 108,  86, 244, 234, 101, 122, 174,   8,
   186, 120,  37,  46,  28, 166, 180, 198, 232, 221, 116,  31,  75, 189, 139, 138,
   112,  62, 181, 102,  72,   3, 246,  14,  97,  53,  87, 185, 134, 193,  29, 158,
   225, 248, 152,  17, 105, 217, 142, 148, 155,  30, 135, 233, 206,  85,  40, 223,
   140, 161, 137,  13, 191, 230,  66, 104,  65, 153,  45,  15, 176,  84, 187,  22 >>

InvSBox_a == <<
    82,   9, 106, 213,  48,  54, 165,  56, 191,  64, 163, 158, 129, 243, 215, 251,
   124, 227,  57, 130, 155,  47, 255, 135,  52, 142,  67,  68, 196, 222, 233, 203,
    84, 123, 148,  50, 166, 194,  35,  61, 238,  76, 149,  11,  66, 250, 195,  78,
     8,  46, 161, 102,  40, 217,  36, 178, 118,  91, 162,  73, 109, 139, 209,  37,
   114, 248, 246, 100, 134, 104, 152,  22, 212, 164,  92, 204,  93, 101, 182, 146,
   108, 112,  72,  80, 253, 237, 185, 218,  94,  21,  70,  87, 167, 141, 157, 132,
   144, 216, 171,   0, 140, 188, 211,  10, 247, 228,  88,   5, 184, 179,  69,   6,
   208,  44,  30, 143, 202,  63,  15,   2, 193, 175, 189,   3,   1,  19, 138, 107,
    58, 145,  17,  65,  79, 103, 220, 234, 151, 242, 207, 206, 240, 180, 230, 115,
   150, 172, 116,  34, 231, 173,  53, 133, 226, 249,  55, 232,  28, 117, 223, 110,
    71, 241,  26, 113,  29,  41, 197, 137, 111, 183,  98,  14, 170,  24, 190,  27,
   252,  86,  62,  75, 198, 210, 121,  32, 154, 219, 192, 254, 120, 205,  90, 244,
    31, 221, 168,  51, 136,   7, 199,  49, 177,  18,  16,  89,  39, 128, 236,  95,
    96,  81, 127, 169,  25, 181,  74,  13,  45, 229, 122, 159, 147, 201, 156, 239,
   160, 224,  59,  77, 174,  42, 245, 176, 200, 235, 187,  60, 131,  83, 153,  97,
    23,  43,   4, 126, 186, 119, 214,  38, 225, 105,  20,  99,  85,  33,  12, 125 >>

Rcon == <<1, 2, 4, 8, 16, 32, 64, 128, 27, 54>>

SBoxf(x)    == SBox_a[x + 1]
InvSBoxf(x) == InvSBox_a[x + 1]

\* The product with the polynomial x, modulo x^8 + x^4 + x^3 + x + 1.
times2(x)  == ((2 * x) % 256) (+) (IF x >= 128 THEN 27 ELSE 0)
times3(x)  == times2(x) (+) x
times4(x)  == times2(times2(x))
times8(x)  == times2(times4(x))
times9(x)  == times8(x) (+) x
times11(x) == times8(x) (+) times2(x) (+) x
times13(x) == times8(x) (+) times4(x) (+) x
times14(x) == times8(x) (+) times4(x) (+) times2(x)

-----------------------------------------------------------------------------
(* The entities.  A block has four columns of four bytes: the bytes 0 to 3 *)
(* of the code are b[1][1] to b[1][4].  A key has words in the same way.   *)

Index == 1 .. 4
Word  == [Index -> Byte]
State == [Index -> Word]

\* The index i places after c, in a circle.
After(c, i) == 1 + ((c - 1 + i) % 4)

SubBytes(b)    == [c \in Index |-> [r \in Index |-> SBoxf(b[c][r])]]
InvSubBytes(b) == [c \in Index |-> [r \in Index |-> InvSBoxf(b[c][r])]]

ShiftRows(b)    == [c \in Index |-> [r \in Index |-> b[After(c, r - 1)][r]]]
InvShiftRows(b) == [c \in Index |-> [r \in Index |-> b[After(c, 1 - r)][r]]]

XorWord(v, w) == <<v[1] (+) w[1], v[2] (+) w[2], v[3] (+) w[3], v[4] (+) w[4]>>

AddRoundKey(b, k) ==
  <<XorWord(k[1], b[1]), XorWord(k[2], b[2]), XorWord(k[3], b[3]), XorWord(k[4], b[4])>>

\* Every row of the matrix is the one above it, rotated.
MixColumn(w) ==
  LET m(r) == times2(w[r]) (+) times3(w[After(r, 1)]) (+) w[After(r, 2)] (+) w[After(r, 3)]
  IN  <<m(1), m(2), m(3), m(4)>>

InvMixColumn(w) ==
  LET m(r) == times14(w[r]) (+) times11(w[After(r, 1)])
                (+) times13(w[After(r, 2)]) (+) times9(w[After(r, 3)])
  IN  <<m(1), m(2), m(3), m(4)>>

MixColumns(b)    == <<MixColumn(b[1]), MixColumn(b[2]), MixColumn(b[3]), MixColumn(b[4])>>
InvMixColumns(b) ==
  <<InvMixColumn(b[1]), InvMixColumn(b[2]), InvMixColumn(b[3]), InvMixColumn(b[4])>>

\* A mutant of Scrambled: without the step that only keys of 256 bits have.
Scrambled_short(i, w) ==
  IF i % 8 = 0 THEN XorWord([r \in Index |-> SBoxf(w[After(r, 1)])], <<Rcon[i \div 8], 0, 0, 0>>)
  ELSE w

\* tmp2 of word i of the key schedule, made from the word before it.
Scrambled(i, w) ==
  CASE i % 8 = 0 -> XorWord([r \in Index |-> SBoxf(w[After(r, 1)])], <<Rcon[i \div 8], 0, 0, 0>>)
    [] i % 8 = 4 -> [r \in Index |-> SBoxf(w[r])]
    [] OTHER     -> w

\* The 60 words of the schedule; the key is its first eight words, and ks[n]
\* the first n words.
Schedules(key) ==
  LET ks[n \in 8 .. 60] ==
        IF n = 8 THEN key
        ELSE LET sofar == ks[n - 1]
             IN  Append(sofar, XorWord(sofar[n - 8], Scrambled(n - 1, sofar[n - 1])))
  IN  ks

KeyExpansion(key) == Schedules(key)[60]

\* Bytes 16*n to 16*n + 15 of the schedule.
RoundKey(ks, n) == [c \in Index |-> ks[4 * n + c]]

EncryptionRound(b, k, lastRound) ==
  LET net1 == ShiftRows(SubBytes(b))
  IN  AddRoundKey(IF lastRound THEN net1 ELSE MixColumns(net1), k)

\* A mutant of DecryptionRound: the columns are mixed before the key is added.
DecryptionRound_swapped(b, k, lastRound) ==
  LET net0 == InvSubBytes(InvShiftRows(b))
  IN  AddRoundKey(IF lastRound THEN net0 ELSE InvMixColumns(net0), k)

DecryptionRound(b, k, lastRound) ==
  LET net0 == AddRoundKey(InvSubBytes(InvShiftRows(b)), k)
  IN  IF lastRound THEN net0 ELSE InvMixColumns(net0)

\* net[n] is the first n of the blocks between the rounds; the code numbers them
\* from 13 down.
EncryptionNet(ks, ptxt) ==
  LET net[n \in 1 .. 14] ==
        IF n = 1 THEN <<AddRoundKey(ptxt, RoundKey(ks, 0))>>
        ELSE LET sofar == net[n - 1]
             IN  Append(sofar, EncryptionRound(sofar[n - 1], RoundKey(ks, n - 1), FALSE))
  IN  net

DecryptionNet(ks, ctxt) ==
  LET net[n \in 1 .. 14] ==
        IF n = 1 THEN <<AddRoundKey(ctxt, RoundKey(ks, 14))>>
        ELSE LET sofar == net[n - 1]
             IN  Append(sofar, DecryptionRound(sofar[n - 1], RoundKey(ks, 15 - n), FALSE))
  IN  net

EncryptBlock(key, ptxt) ==
  LET ks == KeyExpansion(key)
  IN  EncryptionRound(EncryptionNet(ks, ptxt)[14][14], RoundKey(ks, 14), TRUE)

DecryptBlock(key, ctxt) ==
  LET ks == KeyExpansion(key)
  IN  DecryptionRound(DecryptionNet(ks, ctxt)[14][14], RoundKey(ks, 0), TRUE)

-----------------------------------------------------------------------------
(* All bytes in turn, for the comparison with FIPS-197.                    *)

TablesInit == arg = 0

TablesNext == arg < 255 /\ arg' = arg + 1

TablesSpec == TablesInit /\ [][TablesNext]_arg

-----------------------------------------------------------------------------
(* Reference definitions.                                                  *)

a ** b == ByteOf(Field!RefMul(Bits(a), Bits(b)))

IsInverse(a, y) == IF a = 0 THEN y = 0 ELSE a ** y = 1

Rotate(y, n) == ((y * 2 ^ n) % 256) + (y \div 2 ^ (8 - n))

\* The affine map of FIPS-197, 5.1.1.
Affine(y) ==
  y (+) Rotate(y, 1) (+) Rotate(y, 2) (+) Rotate(y, 3) (+) Rotate(y, 4) (+) 99

\* The table is the S-box of the standard: the affine map of the inverse.
IsSBox(y) == \E z \in Byte : SBoxf(y) = Affine(z) /\ IsInverse(y, z)

\* The chains of doublings are the products they are named after.
AreProducts(y) ==
  /\ times2(y) = 2 ** y   /\ times3(y) = 3 ** y
  /\ times4(y) = 4 ** y   /\ times8(y) = 8 ** y   /\ times9(y) = 9 ** y
  /\ times11(y) = 11 ** y /\ times13(y) = 13 ** y /\ times14(y) = 14 ** y

\* The first block of the example F.5.5 of NIST SP 800-38A.
ExampleKey ==
  LET byte == <<96, 61, 235, 16, 21, 202, 113, 190, 43, 115, 174, 240, 133, 125, 119, 129,
                31, 53, 44, 7, 59, 97, 8, 215, 45, 152, 16, 163, 9, 20, 223, 244>>
  IN  [w \in 1 .. 8 |-> [r \in Index |-> byte[4 * (w - 1) + r]]]
ExampleInput  == [c \in Index |-> [r \in Index |-> 240 + 4 * (c - 1) + (r - 1)]]
ExampleOutput ==
  LET byte == <<11, 223, 125, 241, 89, 23, 22, 51, 94, 154, 139, 21, 200, 96, 197, 2>>
  IN  [c \in Index |-> [r \in Index |-> byte[4 * (c - 1) + r]]]

-----------------------------------------------------------------------------
\* The tables and functions of AES.vhd, the key schedule and the rounds are
\* those of the standard: each byte of SBox_a and the products of MixColumns
\* and its inverse by their definition, and all of it together on a published
\* block, which no part that is wrong in a consistent way would give.
CipherIsStandard ==
  arg \in Byte =>
    /\ IsSBox(arg) /\ AreProducts(arg)
    /\ arg = 0 => EncryptBlock(ExampleKey, ExampleInput) = ExampleOutput

\* DecryptBlock undoes EncryptBlock: its rounds take the round keys in the
\* opposite order, each one undoes the round it faces, with InvSBox_a, which
\* is typed in separately, and with the other factors in InvMixColumns.
DecryptionInverts ==
  arg \in Byte =>
    LET key == [w \in 1 .. 8 |-> [r \in Index |-> (arg * (4 * w + r) + 29 * r) % 256]]
        b   == [c \in Index |-> [r \in Index |-> (arg * arg + 13 * r + 57 * c) % 256]]
    IN  DecryptBlock(key, EncryptBlock(key, b)) = b
=============================================================================
