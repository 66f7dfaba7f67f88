------------------------------- MODULE Cipher -------------------------------
(***************************************************************************)
(* j2::crypt::cipher: AES-128 of texts that are padded to whole blocks,    *)
(* each encrypted by itself, and written in hexadecimal digits.  A block   *)
(* is a sequence of 16 bytes, column after column; its places count from 0.*)
(***************************************************************************)
EXTENDS Integers, SequencesExt, Calls

CONSTANTS Secrets, PlainTexts      \* keys and texts: sequences of bytes

VARIABLES m_round_keys, key_       \* 44 words, or <<>> without a key; the key that was set

cipherVars == <<m_round_keys, key_>>

sbox == <<
    99, 124, 119, 123, 242, 107, 111, 197, 48, 1, 103, 43, 254, 215, 171, 118, 202, 130, 201, 125, 250, 89, 71, 240, 173,
    212, 162, 175, 156, 164, 114, 192, 183, 253, 147, 38, 54, 63, 247, 204, 52, 165, 229, 241, 113, 216, 49, 21, 4, 199,
    35, 195, 24, 150, 5, 154, 7, 18, 128, 226, 235, 39, 178, 117, 9, 131, 44, 26, 27, 110, 90, 160, 82, 59, 214,
    179, 41, 227, 47, 132, 83, 209, 0, 237, 32, 252, 177, 91, 106, 203, 190, 57, 74, 76, 88, 207, 208, 239, 170, 251,
    67, 77, 51, 133, 69, 249, 2, 127, 80, 60, 159, 168, 81, 163, 64, 143, 146, 157, 56, 245, 188, 182, 218, 33, 16,
    255, 243, 210, 205, 12, 19, 236, 95, 151, 68, 23, 196, 167, 126, 61, 100, 93, 25, 115, 96, 129, 79, 220, 34, 42,
    144, 136, 70, 238, 184, 20, 222, 94, 11, 219, 224, 50, 58, 10, 73, 6, 36, 92, 194, 211, 172, 98, 145, 149, 228,
    121, 231, 200, 55, 109, 141, 213, 78, 169, 108, 86, 244, 234, 101, 122, 174, 8, 186, 120, 37, 46, 28, 166, 180, 198,
    232, 221, 116, 31, 75, 189, 139, 138, 112, 62, 181, 102, 72, 3, 246, 14, 97, 53, 87, 185, 134, 193, 29, 158, 225,
    248, 152, 17, 105, 217, 142, 148, 155, 30, 135, 233, 206, 85, 40, 223, 140, 161, 137, 13, 191, 230, 66, 104, 65, 153,
    45, 15, 176, 84, 187, 22>>

rsbox == <<
    82, 9, 106, 213, 48, 54, 165, 56, 191, 64, 163, 158, 129, 243, 215, 251, 124, 227, 57, 130, 155, 47, 255, 135, 52,
    142, 67, 68, 196, 222, 233, 203, 84, 123, 148, 50, 166, 194, 35, 61, 238, 76, 149, 11, 66, 250, 195, 78, 8, 46,
    161, 102, 40, 217, 36, 178, 118, 91, 162, 73, 109, 139, 209, 37, 114, 248, 246, 100, 134, 104, 152, 22, 212, 164, 92,
    204, 93, 101, 182, 146, 108, 112, 72, 80, 253, 237, 185, 218, 94, 21, 70, 87, 167, 141, 157, 132, 144, 216, 171, 0,
    140, 188, 211, 10, 247, 228, 88, 5, 184, 179, 69, 6, 208, 44, 30, 143, 202, 63, 15, 2, 193, 175, 189, 3, 1,
    19, 138, 107, 58, 145, 17, 65, 79, 103, 220, 234, 151, 242, 207, 206, 240, 180, 230, 115, 150, 172, 116, 34, 231, 173,
    53, 133, 226, 249, 55, 232, 28, 117, 223, 110, 71, 241, 26, 113, 29, 41, 197, 137, 111, 183, 98, 14, 170, 24, 190,
    27, 252, 86, 62, 75, 198, 210, 121, 32, 154, 219, 192, 254, 120, 205, 90, 244, 31, 221, 168, 51, 136, 7, 199, 49,
    177, 18, 16, 89, 39, 128, 236, 95, 96, 81, 127, 169, 25, 181, 74, 13, 45, 229, 122, 159, 147, 201, 156, 239, 160,
    224, 59, 77, 174, 42, 245, 176, 200, 235, 187, 60, 131, 83, 153, 97, 23, 43, 4, 126, 186, 119, 214, 38, 225, 105,
    20, 99, 85, 33, 12, 125>>

rcon == <<1, 2, 4, 8, 16, 32, 64, 128, 27, 54>>

-----------------------------------------------------------------------------
\* The bits in which two bytes differ, by their halves.
XorHalf ==
  [a, b \in 0..15 |-> LET bit(w) == w * ((a \div w + b \div w) % 2) IN bit(1) + bit(2) + bit(4) + bit(8)]
XorBytes(a, b) == 16 * XorHalf[a \div 16, b \div 16] + XorHalf[a % 16, b % 16]
XorWord(v, w) == <<XorBytes(v[1], w[1]), XorBytes(v[2], w[2]), XorBytes(v[3], w[3]), XorBytes(v[4], w[4])>>

\* gmix: the product in the field of 256 elements.
Doubled(a) == IF a >= 128 THEN XorBytes((2 * a) % 256, 27) ELSE 2 * a
Gmix(a, b) ==
  LET Shift_(st, i) == [p |-> IF st.b % 2 = 1 THEN XorBytes(st.p, st.a) ELSE st.p,
                        a |-> Doubled(st.a), b |-> st.b \div 2]
  IN FoldLeft(Shift_, [p |-> 0, a |-> a, b |-> b], <<1, 2, 3, 4, 5, 6, 7, 8>>).p
Products == [b \in {1, 2, 3, 9, 11, 13, 14} |-> [a \in 0..255 |-> Gmix(a, b)]]

\* The block that has byte(i) at each place; it is written out, and so evaluated once.
Block(byte(_)) ==
  <<byte(0), byte(1), byte(2), byte(3), byte(4), byte(5), byte(6), byte(7),
    byte(8), byte(9), byte(10), byte(11), byte(12), byte(13), byte(14), byte(15)>>

SubBytes(state) == Block(LAMBDA i : sbox[state[i + 1] + 1])
InvSubBytes(state) == Block(LAMBDA i : rsbox[state[i + 1] + 1])

\* (A faulty variant: the rows are turned the same way again.)
TurnedAgain(state) == Block(LAMBDA i : state[((5 * i) % 16) + 1])

ShiftRows(state) == Block(LAMBDA i : state[((5 * i) % 16) + 1])
InvShiftRows(state) == Block(LAMBDA i : state[((13 * i) % 16) + 1])

Mixed(state, factors) ==
  LET product(i, k) == Products[factors[((k - i) % 4) + 1]][state[4 * (i \div 4) + k + 1]]
  IN Block(LAMBDA i : XorBytes(XorBytes(product(i, 0), product(i, 1)), XorBytes(product(i, 2), product(i, 3))))
MixColumns(state) == Mixed(state, <<2, 3, 1, 1>>)
InvMixColumns(state) == Mixed(state, <<14, 11, 13, 9>>)

AddRoundKey(state, r) ==
  Block(LAMBDA i : XorBytes(state[i + 1], m_round_keys[4 * r + (i \div 4) + 1][(i % 4) + 1]))

\* key_expansion, of the sixteen bytes of set_key: a longer key is cut.
KeyBytes(key) == [i \in 1..16 |-> IF i <= Len(key) THEN key[i] ELSE 0]
Substituted(w, i) == <<XorBytes(sbox[w[2] + 1], rcon[i \div 4]), sbox[w[3] + 1], sbox[w[4] + 1], sbox[w[1] + 1]>>
KeyExpansion(bytes) ==
  LET Next_(words, i) ==
        Append(words, IF i < 4 THEN SubSeq(bytes, 4 * i + 1, 4 * i + 4)
                      ELSE XorWord(words[i - 3], IF i % 4 = 0 THEN Substituted(words[i], i) ELSE words[i]))
  IN FoldLeft(Next_, <<>>, [k \in 1..44 |-> k - 1])

EncryptBlock(block) ==
  LET Round(states, r) == Append(states, AddRoundKey(MixColumns(ShiftRows(SubBytes(Last(states)))), r))
      states == FoldLeft(Round, <<AddRoundKey(block, 0)>>, <<1, 2, 3, 4, 5, 6, 7, 8, 9>>)
  IN AddRoundKey(ShiftRows(SubBytes(Last(states))), 10)

DecryptBlock(block) ==
  LET Round(states, r) == Append(states, InvMixColumns(AddRoundKey(InvSubBytes(InvShiftRows(Last(states))), r)))
      states == FoldLeft(Round, <<AddRoundKey(block, 10)>>, <<9, 8, 7, 6, 5, 4, 3, 2, 1>>)
  IN AddRoundKey(InvSubBytes(InvShiftRows(Last(states))), 0)

-----------------------------------------------------------------------------
\* add_padding, which adds at least one byte, and remove_padding.
AddPadding(s) == LET n == 16 - (Len(s) % 16) IN s \o [i \in 1..n |-> n]
RemovePadding(s) ==
  LET n == Last(s)
  IN IF s = <<>> \/ n \notin 1..16 \/ n > Len(s) \/ \E i \in 1..n : s[Len(s) - i + 1] # n THEN <<>>
     ELSE SubSeq(s, 1, Len(s) - n)

\* to_hex, from_hex
ToHex(data) == FlattenSeq([i \in DOMAIN data |-> <<data[i] \div 16, data[i] % 16>>])
FromHex(hex) == IF Len(hex) % 2 # 0 THEN <<>> ELSE [i \in 1..(Len(hex) \div 2) |-> 16 * hex[2 * i - 1] + hex[2 * i]]

\* encrypt and decrypt, one block after the other.
Blocks(data) == [k \in 1..(Len(data) \div 16) |-> SubSeq(data, 16 * k - 15, 16 * k)]

Encrypt(s) ==
  LET blocks == Blocks(AddPadding(s))
  IN IF m_round_keys = <<>> THEN <<>> ELSE ToHex(FlattenSeq([k \in DOMAIN blocks |-> EncryptBlock(blocks[k])]))
Decrypt(hex) ==
  LET data == FromHex(hex)
  IN IF m_round_keys = <<>> \/ data = <<>> \/ Len(data) % 16 # 0 THEN <<>>
     ELSE RemovePadding(FlattenSeq([k \in DOMAIN Blocks(data) |-> DecryptBlock(Blocks(data)[k])]))

InitCipher == m_round_keys = <<>> /\ key_ = <<>>

SetKey(key) == Call /\ m_round_keys' = KeyExpansion(KeyBytes(key)) /\ key_' = key
NextCipher == \E key \in Secrets : SetKey(key)

-----------------------------------------------------------------------------
\* The table of the standard: the inverse in the field, and a sum of its bits.
Inverse_(a) == IF a = 0 THEN 0 ELSE CHOOSE b \in 1..255 : Gmix(a, b) = 1
Turned(a, n) == ((a * 2^n) % 256) + ((a * 2^n) \div 256)
Affine(a) == XorBytes(XorBytes(XorBytes(a, Turned(a, 1)), XorBytes(Turned(a, 2), Turned(a, 3))), XorBytes(Turned(a, 4), 99))

\* The example of the standard: this key, this block, and what it becomes.
ExampleKey == Block(LAMBDA i : i)
ExampleBlock == Block(LAMBDA i : 17 * i)
ExampleAnswer == <<105, 196, 224, 216, 106, 123, 4, 48, 216, 205, 183, 128, 112, 180, 197, 90>>

\* What was encrypted with a key is decrypted to what it was, also where it ends
\* with a block or with bytes like those of the padding; and the tables and what
\* is computed are the standard's cipher.
TextsAreDecrypted ==
  /\ m_round_keys = <<>> => \A a \in 0..255 : sbox[a + 1] = Affine(Inverse_(a)) /\ rsbox[sbox[a + 1] + 1] = a
  /\ m_round_keys # <<>> =>
       /\ \A s \in PlainTexts : LET hex == Encrypt(s)
                                IN Len(hex) = 32 * (Len(s) \div 16 + 1) /\ Decrypt(hex) = s
       /\ key_ = ExampleKey => EncryptBlock(ExampleBlock) = ExampleAnswer
=============================================================================
