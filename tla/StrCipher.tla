----------------------------- MODULE StrCipher ------------------------------
(***************************************************************************)
(* The string decryption of xcj_loader.c: the keys put together from       *)
(* fragments, the base64 decoder and the XOR with the key.  Characters are *)
(* ASCII codes; the sizes of buffer and key are CONSTANTS.                 *)
(***************************************************************************)
EXTENDS Integers, Sequences, Bitwise, SequencesExt

CONSTANTS
  Masked, Pad,  \* the fragments X0_STRK_M0.. and X0_STRK_P0.., a sequence of sequences each
  BufMax        \* sizeof(decoded) and sizeof(plain), 1024 in the code

ASSUME CipherAssumption == DOMAIN Masked = DOMAIN Pad /\ BufMax \in Nat \ {0}

\* The first n elements at most.
UpTo(s, n) == SubSeq(s, 1, IF n < Len(s) THEN n ELSE Len(s))

\* xcj_rebuild_str_key: every byte of every fragment, MASKED ^ PAD, in turn.
StrKey == FlattenSeq([f \in DOMAIN Masked |-> [b \in DOMAIN Masked[f] |-> Masked[f][b] ^^ Pad[f][b]]])

MutB64Val(c) == CASE c \in 65 .. 90 -> c - 65
                  [] c \in 97 .. 122 -> c - 97 + 25
                  [] c \in 48 .. 57 -> c - 48 + 52
                  [] c = 43 -> 62
                  [] c = 47 -> 63
                  [] OTHER -> -1

\* _b64_val
B64Val(c) == CASE c \in 65 .. 90 -> c - 65
               [] c \in 97 .. 122 -> c - 97 + 26
               [] c \in 48 .. 57 -> c - 48 + 52
               [] c = 43 -> 62
               [] c = 47 -> 63
               [] OTHER -> -1

\* _b64_decode: the characters of the alphabet are taken four at a time,
\* whatever stands between them; a group that is cut short gives the bytes its
\* characters reach, and the output stops at its size.
B64Decode(in, max) ==
  LET v == SelectSeq([i \in DOMAIN in |-> B64Val(in[i])], LAMBDA x : x >= 0)
      Group(g) == UpTo(SubSeq(v, 4 * g - 3, Len(v)), 4)
      Bytes(q) == SubSeq(<<(q[1] * 4 + (IF Len(q) > 1 THEN q[2] \div 16 ELSE 0)) % 256,
                           IF Len(q) > 2 THEN (q[2] % 16) * 16 + (q[3] \div 4) ELSE 0,
                           IF Len(q) > 3 THEN (q[3] % 4) * 64 + q[4] ELSE 0>>,
                         1, IF Len(q) > 2 THEN Len(q) - 1 ELSE 1)
      out == FlattenSeq([g \in 1 .. (Len(v) + 3) \div 4 |-> Bytes(Group(g))])
  IN  UpTo(out, max)

\* native_str_decrypt behind its look at the command line; NewStringUTF takes
\* the bytes in front of the first 0.
StrDecrypt(encoded) ==
  LET d == B64Decode(encoded, BufMax)
      n == IF Len(d) < BufMax - 1 THEN Len(d) ELSE BufMax - 1
      plain == [i \in 1 .. n |-> d[i] ^^ StrKey[((i - 1) % Len(StrKey)) + 1]]
      zeros == {i \in 1 .. n : plain[i] = 0}
  IN  IF zeros = {} THEN plain
      ELSE SubSeq(plain, 1, (CHOOSE i \in zeros : \A j \in zeros : i <= j) - 1)

-----------------------------------------------------------------------------
(* The reference: what the build encrypts, read by the definition of base64 *)

B64Char(n) == CASE n < 26 -> n + 65
                [] n \in 26 .. 51 -> n - 26 + 97
                [] n \in 52 .. 61 -> n - 52 + 48
                [] n = 62 -> 43
                [] OTHER -> 47

\* Bits, most significant first, and back.
Bits(n, width) == [i \in 1 .. width |-> (n \div (2 ^ (width - i))) % 2]
Value(bits) == FoldLeft(LAMBDA a, b : 2 * a + b, 0, bits)

\* A text as the build writes it: XOR with the key, the bits of all the bytes
\* cut in sixes, filled with "=" to a multiple of four.
Encode(key, text) ==
  LET cipher == [i \in DOMAIN text |-> text[i] ^^ key[((i - 1) % Len(key)) + 1]]
      bits == FlattenSeq([i \in DOMAIN cipher |-> Bits(cipher[i], 8)])
      sixes == (Len(bits) + 5) \div 6
      full == bits \o [i \in 1 .. 6 * sixes - Len(bits) |-> 0]
      chars == [s \in 1 .. sixes |-> B64Char(Value(SubSeq(full, 6 * s - 5, 6 * s)))]
  IN  chars \o [i \in 1 .. (4 - (sixes % 4)) % 4 |-> 61]

\* A text with a line break behind every second character.
Broken(chars) == FlattenSeq([i \in DOMAIN chars |-> IF i % 2 = 0 THEN <<chars[i], 10>> ELSE <<chars[i]>>])

\* What native_str_decrypt gives back of the text that was encrypted: all of it
\* up to the size of the buffers, broken into lines or not.
RoundTrip(key, text) ==
  LET cut == UpTo(text, BufMax - 1)
  IN  StrDecrypt(Encode(key, text)) = cut /\ StrDecrypt(Broken(Encode(key, text))) = cut
=============================================================================
