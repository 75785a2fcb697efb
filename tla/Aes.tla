-------------------------------- MODULE Aes --------------------------------
(***************************************************************************)
(* aes_impl.hpp: the software rounds of AES that the vector handler runs   *)
(* in place of the AES-NI instructions, and after them what the            *)
(* processor's manual (FIPS 197) says they compute.  A block is a function *)
(* from 0 .. 15 to bytes, column-major: byte row + 4 * column.             *)
(***************************************************************************)
EXTENDS Integers, Sequences, Bitwise

Byte == 0 .. 255
Block == 0 .. 15

\* <<F(0), ..., F(n - 1)>>: TLC evaluates a table once, an operator at every use.
Table(F(_), n) == SubSeq([i \in 1 .. n |-> F(i - 1)], 1, n)

Xors == Table(LAMBDA a : Table(LAMBDA b : a ^^ b, 256), 256)
xor(a, b) == Xors[a + 1][b + 1]
xor4(a, b, c, d) == xor(xor(a, b), xor(c, d))

sbox_rows ==
    <<
      99, 124, 119, 123, 242, 107, 111, 197, 48, 1, 103, 43, 254, 215, 171, 118,
      202, 130, 201, 125, 250, 89, 71, 240, 173, 212, 162, 175, 156, 164, 114, 192,
      183, 253, 147, 38, 54, 63, 247, 204, 52, 165, 229, 241, 113, 216, 49, 21,
      4, 199, 35, 195, 24, 150, 5, 154, 7, 18, 128, 226, 235, 39, 178, 117,
      9, 131, 44, 26, 27, 110, 90, 160, 82, 59, 214, 179, 41, 227, 47, 132,
      83, 209, 0, 237, 32, 252, 177, 91, 106, 203, 190, 57, 74, 76, 88, 207,
      208, 239, 170, 251, 67, 77, 51, 133, 69, 249, 2, 127, 80, 60, 159, 168,
      81, 163, 64, 143, 146, 157, 56, 245, 188, 182, 218, 33, 16, 255, 243, 210,
      205, 12, 19, 236, 95, 151, 68, 23, 196, 167, 126, 61, 100, 93, 25, 115,
      96, 129, 79, 220, 34, 42, 144, 136, 70, 238, 184, 20, 222, 94, 11, 219,
      224, 50, 58, 10, 73, 6, 36, 92, 194, 211, 172, 98, 145, 149, 228, 121,
      231, 200, 55, 109, 141, 213, 78, 169, 108, 86, 244, 234, 101, 122, 174, 8,
      186, 120, 37, 46, 28, 166, 180, 198, 232, 221, 116, 31, 75, 189, 139, 138,
      112, 62, 181, 102, 72, 3, 246, 14, 97, 53, 87, 185, 134, 193, 29, 158,
      225, 248, 152, 17, 105, 217, 142, 148, 155, 30, 135, 233, 206, 85, 40, 223,
      140, 161, 137, 13, 191, 230, 66, 104, 65, 153, 45, 15, 176, 84, 187, 22
    >>

inv_sbox_rows ==
    <<
      82, 9, 106, 213, 48, 54, 165, 56, 191, 64, 163, 158, 129, 243, 215, 251,
      124, 227, 57, 130, 155, 47, 255, 135, 52, 142, 67, 68, 196, 222, 233, 203,
      84, 123, 148, 50, 166, 194, 35, 61, 238, 76, 149, 11, 66, 250, 195, 78,
      8, 46, 161, 102, 40, 217, 36, 178, 118, 91, 162, 73, 109, 139, 209, 37,
      114, 248, 246, 100, 134, 104, 152, 22, 212, 164, 92, 204, 93, 101, 182, 146,
      108, 112, 72, 80, 253, 237, 185, 218, 94, 21, 70, 87, 167, 141, 157, 132,
      144, 216, 171, 0, 140, 188, 211, 10, 247, 228, 88, 5, 184, 179, 69, 6,
      208, 44, 30, 143, 202, 63, 15, 2, 193, 175, 189, 3, 1, 19, 138, 107,
      58, 145, 17, 65, 79, 103, 220, 234, 151, 242, 207, 206, 240, 180, 230, 115,
      150, 172, 116, 34, 231, 173, 53, 133, 226, 249, 55, 232, 28, 117, 223, 110,
      71, 241, 26, 113, 29, 41, 197, 137, 111, 183, 98, 14, 170, 24, 190, 27,
      252, 86, 62, 75, 198, 210, 121, 32, 154, 219, 192, 254, 120, 205, 90, 244,
      31, 221, 168, 51, 136, 7, 199, 49, 177, 18, 16, 89, 39, 128, 236, 95,
      96, 81, 127, 169, 25, 181, 74, 13, 45, 229, 122, 159, 147, 201, 156, 239,
      160, 224, 59, 77, 174, 42, 245, 176, 200, 235, 187, 60, 131, 83, 153, 97,
      23, 43, 4, 126, 186, 119, 214, 38, 225, 105, 20, 99, 85, 33, 12, 125
    >>

sbox(b) == sbox_rows[b + 1]
inv_sbox(b) == inv_sbox_rows[b + 1]

\* Multiplication in GF(2^8): the sum of a * x^k over the bits k of b.
xtime(a) == IF a >= 128 THEN xor((2 * a) % 256, 27) ELSE 2 * a
Product[a \in Byte, b \in Byte] ==
    IF b = 0 THEN 0 ELSE xor(IF b % 2 = 1 THEN a ELSE 0, Product[xtime(a), b \div 2])
Products == Table(LAMBDA b : Table(LAMBDA a : Product[a, b], 256), 16)
gmul(a, b) == Products[b + 1][a + 1]

sub_bytes(s) == [i \in Block |-> sbox(s[i])]
inv_sub_bytes(s) == [i \in Block |-> inv_sbox(s[i])]

shift_rows(s) ==
    [s EXCEPT ![1] = s[5], ![5] = s[9], ![9] = s[13], ![13] = s[1],
              ![2] = s[10], ![10] = s[2], ![6] = s[14], ![14] = s[6],
              ![15] = s[11], ![11] = s[7], ![7] = s[3], ![3] = s[15]]

inv_shift_rows(s) ==
    [s EXCEPT ![13] = s[9], ![9] = s[5], ![5] = s[1], ![1] = s[13],
              ![2] = s[10], ![10] = s[2], ![6] = s[14], ![14] = s[6],
              ![3] = s[7], ![7] = s[11], ![11] = s[15], ![15] = s[3]]

mix_columns(s) ==
    [i \in Block |->
        LET c == i - (i % 4)
            a0 == s[c]
            a1 == s[c + 1]
            a2 == s[c + 2]
            a3 == s[c + 3]
        IN CASE i % 4 = 0 -> xor4(gmul(a0, 2), gmul(a1, 3), a2, a3)
             [] i % 4 = 1 -> xor4(a0, gmul(a1, 2), gmul(a2, 3), a3)
             [] i % 4 = 2 -> xor4(a0, a1, gmul(a2, 2), gmul(a3, 3))
             [] i % 4 = 3 -> xor4(gmul(a0, 3), a1, a2, gmul(a3, 2))]

inv_mix_columns(s) ==
    [i \in Block |->
        LET c == i - (i % 4)
            a0 == s[c]
            a1 == s[c + 1]
            a2 == s[c + 2]
            a3 == s[c + 3]
        IN CASE i % 4 = 0 -> xor4(gmul(a0, 14), gmul(a1, 11), gmul(a2, 13), gmul(a3, 9))
             [] i % 4 = 1 -> xor4(gmul(a0, 9), gmul(a1, 14), gmul(a2, 11), gmul(a3, 13))
             [] i % 4 = 2 -> xor4(gmul(a0, 13), gmul(a1, 9), gmul(a2, 14), gmul(a3, 11))
             [] i % 4 = 3 -> xor4(gmul(a0, 11), gmul(a1, 13), gmul(a2, 9), gmul(a3, 14))]

xor_block(s, key) == [i \in Block |-> xor(s[i], key[i])]

\* A word is its four bytes, the lowest first.
sub_word(w) == [k \in 0 .. 3 |-> sbox(w[k])]
rot_word(w) == [k \in 0 .. 3 |-> w[(k + 3) % 4]]     \* (w << 8) | (w >> 24)

aesenc(s, key) == xor_block(mix_columns(sub_bytes(shift_rows(s))), key)
aesenclast(s, key) == xor_block(sub_bytes(shift_rows(s)), key)
\* A decryption round that mixes its columns after the key is added, as the
\* straightforward inverse cipher does, needs keys that aesimc has not touched.
Mut_aesdec(s, key) == inv_mix_columns(xor_block(inv_sub_bytes(inv_shift_rows(s)), key))

aesdec(s, key) == xor_block(inv_mix_columns(inv_sub_bytes(inv_shift_rows(s))), key)

aesdeclast(s, key) == xor_block(inv_sub_bytes(inv_shift_rows(s)), key)
aesimc(s) == inv_mix_columns(s)

Word(s, first) == [k \in 0 .. 3 |-> s[first + k]]
aeskeygenassist(s, rcon) ==
    [i \in Block |->
        LET sw == sub_word(Word(s, IF i < 8 THEN 4 ELSE 12))
        IN IF i % 8 < 4 THEN sw[i % 4]
           ELSE xor(rot_word(sw)[i % 4], IF i % 4 = 0 THEN rcon ELSE 0)]

-----------------------------------------------------------------------------
(* The manual's definitions *)

\* The S-box: the inverse in GF(2^8), or 0, then an affine map of its bits.
Inverses ==
    Table(LAMBDA b : IF b = 0 THEN 0 ELSE CHOOSE c \in Byte : Product[b, c] = 1, 256)
BitOf(b, k) == (b \div (2 ^ (k % 8))) % 2
AffineBit(b, k) ==
    (BitOf(b, k) + BitOf(b, k + 4) + BitOf(b, k + 5) + BitOf(b, k + 6) + BitOf(b, k + 7)
       + BitOf(99, k)) % 2
Affine(b) ==
    AffineBit(b, 0) + 2 * AffineBit(b, 1) + 4 * AffineBit(b, 2) + 8 * AffineBit(b, 3)
      + 16 * AffineBit(b, 4) + 32 * AffineBit(b, 5) + 64 * AffineBit(b, 6)
      + 128 * AffineBit(b, 7)
SubBytes == Table(LAMBDA b : Affine(Inverses[b + 1]), 256)
InvSubBytes == Table(LAMBDA b : (CHOOSE c \in 1 .. 256 : SubBytes[c] = b) - 1, 256)

\* Row r of the state is rotated by r columns, and every column multiplied by a
\* fixed polynomial, whose coefficients p lists from the constant on.
Rotated(s, left) ==
    [i \in Block |->
        LET row == i % 4
            col == i \div 4
        IN s[row + 4 * ((col + (IF left THEN row ELSE 4 - row)) % 4)]]
Mixed(s, p) ==
    [i \in Block |->
        LET a(k) == gmul(s[i - (i % 4) + k], p[((i - k + 4) % 4) + 1])
        IN xor4(a(0), a(1), a(2), a(3))]
MixPoly == <<2, 1, 1, 3>>
InvMixPoly == <<14, 9, 13, 11>>
Substituted(s, table) == [i \in Block |-> table[s[i] + 1]]

ManualEncLast(s, key) == xor_block(Substituted(Rotated(s, TRUE), SubBytes), key)
ManualEnc(s, key) == xor_block(Mixed(Substituted(Rotated(s, TRUE), SubBytes), MixPoly), key)
ManualDecLast(s, key) == xor_block(Substituted(Rotated(s, FALSE), InvSubBytes), key)
ManualDec(s, key) ==
    xor_block(Mixed(Substituted(Rotated(s, FALSE), InvSubBytes), InvMixPoly), key)

\* Words 1 and 3, substituted, each followed by itself turned down by one byte, plus rcon.
ManualKeyGenAssist(s, rcon) ==
    [i \in Block |->
        LET first == IF i < 8 THEN 4 ELSE 12
        IN IF i % 8 < 4 THEN SubBytes[s[first + (i % 4)] + 1]
           ELSE xor(SubBytes[s[first + ((i + 1) % 4)] + 1], IF i % 4 = 0 THEN rcon ELSE 0)]
=============================================================================
