----------------------------- MODULE StreamHash -----------------------------
(***************************************************************************)
(* The buffering and the padding of the four copies of SHA-256 and SHA-1   *)
(* in sig_verify.c, self_verify.c and integrity.c.  The compression        *)
(* function is left out: a context keeps the blocks it has compressed, and *)
(* two contexts with the same blocks have the same digest.                 *)
(***************************************************************************)
EXTENDS Integers, Sequences, SequencesExt

CONSTANTS Lengths    \* the lengths of the messages that are compared

Block == 64
LengthAt == 56       \* the bit count fills the end of the last block

ASSUME LengthsAssumption == Lengths \subseteq Nat

NewContext ==
  [blocks |-> <<>>, data |-> [i \in 0 .. Block - 1 |-> 0], datalen |-> 0, bitlen |-> 0]

\* The whole buffer is compressed.
Compress(ctx) == [ctx EXCEPT !.blocks = Append(@, ctx.data)]

\* One byte of sha256_update.
Push(ctx, byte) ==
  LET put == [ctx EXCEPT !.data[ctx.datalen] = byte, !.datalen = @ + 1] IN
  IF put.datalen < Block THEN put
  ELSE [Compress(put) EXCEPT !.bitlen = @ + 8 * Block, !.datalen = 0]

Update(ctx, bytes) == FoldLeft(Push, ctx, bytes)

\* The bit count in eight bytes, the highest first; the upper four stay 0 for
\* the lengths compared here.
LengthBytes(bits) ==
  <<0, 0, 0, 0, bits \div 16777216, (bits \div 65536) % 256, (bits \div 256) % 256, bits % 256>>

\* The buffer from datalen on: 0x80, then zeros up to but not including the end.
PadTo(ctx, end) ==
  [ctx EXCEPT !.data = [i \in 0 .. Block - 1 |->
     IF i = ctx.datalen THEN 128 ELSE IF i \in ctx.datalen + 1 .. end - 1 THEN 0 ELSE @[i]]]

\* sha256_final: the count does not fit behind a buffer of 56 bytes or more,
\* which takes a block of its own.
Padded(ctx) ==
  IF ctx.datalen < LengthAt THEN PadTo(ctx, LengthAt)
  ELSE LET full == Compress(PadTo(ctx, Block)) IN
       [full EXCEPT !.data = [i \in 0 .. Block - 1 |-> IF i < LengthAt THEN 0 ELSE @[i]]]

Final(ctx) ==
  LET bits == ctx.bitlen + 8 * ctx.datalen
      padded == Padded(ctx) IN
  Compress([padded EXCEPT !.data = [i \in 0 .. Block - 1 |->
     IF i < LengthAt THEN @[i] ELSE LengthBytes(bits)[i - LengthAt + 1]]]).blocks

\* sha1_final pads with sha1_update, byte by byte; the count is taken before.
Sha1Final(ctx) ==
  LET bits == ctx.bitlen + 8 * ctx.datalen
      one == Push(ctx, 128)
      zeros == (LengthAt - one.datalen) % Block IN
  Update(Update(one, [i \in 1 .. zeros |-> 0]), LengthBytes(bits)).blocks

-----------------------------------------------------------------------------
(***************************************************************************)
(* The reference: FIPS 180-4, section 5.1.1 and 5.2.1.                     *)
(***************************************************************************)
Message(n) == [i \in 1 .. n |-> 1 + (i % 127)]

Reference(n) ==
  LET zeros == (LengthAt - 1 - n) % Block
      all == Message(n) \o <<128>> \o [i \in 1 .. zeros |-> 0] \o LengthBytes(8 * n) IN
  [b \in 1 .. Len(all) \div Block |-> [i \in 0 .. Block - 1 |-> all[Block * (b - 1) + i + 1]]]

\* A message that arrives in two pieces of any lengths is padded and cut as the
\* standard says, by each of the copies.
PaddingIsStandard ==
  \A n \in Lengths : \A k \in {0, 1, n \div 2, n} \cap (0 .. n) :
    LET ctx == Update(Update(NewContext, SubSeq(Message(n), 1, k)),
                      SubSeq(Message(n), k + 1, n)) IN
    /\ Final(ctx) = Reference(n)
    /\ Sha1Final(ctx) = Reference(n)
=============================================================================
