----------------------------- MODULE ApkSigning -----------------------------
(***************************************************************************)
(* What hash_calculator.c, signing_block_parser.c, hash_storage.c and      *)
(* sig_verify.c read out of an APK.                                        *)
(*                                                                         *)
(* A file is a sequence of cells; a cell stands for the eight bytes, the   *)
(* header or the directory record that the code reads as one:              *)
(*   <<"data", d>>, <<"deflated", d>>     content of an entry              *)
(*   <<"local", name, head, method, comp>>         local header            *)
(*   <<"size", n>>, <<"magic", half>>     head and foot of a signing block *)
(*   <<"cd", name, comp, uncomp, local, crc>>      directory record        *)
(*   <<"eocd", entries>>, <<"cdoff", n>>  end record, directory offset     *)
(* Offsets count cells from 0.  Digests are kept as the tuples that are    *)
(* digested, so that equal digests are equal inputs.                       *)
(***************************************************************************)
EXTENDS Integers, Sequences, FiniteSets, SequencesExt

CONSTANTS
  MaxComment,      \* cells of the longest archive comment (65535 bytes)
  ChunkCells,      \* cells of a chunk (1 MB)
  MaxChunks,       \* chunks of a segment (65535)
  MaxRanges,       \* MAX_EXCLUDE_RANGES (8)
  Segments,        \* the segments of the embedded hash (8)
  DefenderNames,   \* names under lib/ with libxcj_defender.s in them (17 characters)
  SoNames,         \* names under lib/ that end in .so, the defender's as well
  PayloadName      \* assets/xcj_payload.bin

ASSUME SizesAssumption ==
  /\ MaxComment \in Nat /\ ChunkCells \in Nat \ {0} /\ MaxChunks \in Nat /\ MaxRanges \in Nat

None == <<<<"none">>>>
Placeholder == <<"placeholder">>
NoBlock == [start |-> -1, total |-> 0]
EocdLen == 2         \* signature and directory offset: 22 bytes
Footer == 3          \* size and magic: 24 bytes
Junk == 2            \* the header length read out of a cell that is no local header

Greatest(S) == CHOOSE x \in S : \A y \in S : x >= y
Least2(a, b) == IF a < b THEN a ELSE b

At(f, i) == f[i + 1]
Is(f, i, tag) == i \in 0 .. Len(f) - 1 /\ At(f, i)[1] = tag
\* A number read out of the cell; any other cell is a number beyond the file.
NumberAt(f, i) ==
  IF Is(f, i, "size") \/ Is(f, i, "cdoff") THEN At(f, i)[2] ELSE Len(f) + 1
Slice(f, from, to) == SubSeq(f, from + 1, Least2(to, Len(f)))    \* [from, to)

-----------------------------------------------------------------------------
(***************************************************************************)
(* locate_signing_block.  The end record is searched from the end of the   *)
(* file, as far back as a comment may reach.                               *)
(***************************************************************************)
FindEocd(f) ==
  LET from == Greatest({0, Len(f) - EocdLen - MaxComment})
      hits == {i \in from .. Len(f) - EocdLen : Is(f, i, "eocd")} IN
  IF hits = {} THEN -1 ELSE Greatest(hits)

\* The size field of a block counts the footer and not itself; the code takes
\* the block to begin a footer and a size before the directory.
Located(f) ==
  LET eocd == FindEocd(f)
      cd == NumberAt(f, eocd + 1)
      size == NumberAt(f, cd - Footer)
      start == cd - Footer - size IN
  IF /\ eocd >= 0
     /\ cd \in Footer .. Len(f)
     /\ Is(f, cd - 2, "magic") /\ Is(f, cd - 1, "magic")
     /\ start \in 0 .. Len(f) - 1
  THEN [start |-> start, total |-> size + Footer] ELSE NoBlock

-----------------------------------------------------------------------------
(***************************************************************************)
(* hash_storage.c: the embedded hash and the placeholder of a library the  *)
(* build has not patched.                                                  *)
(***************************************************************************)
Embedded(storage) == IF storage = Placeholder THEN None ELSE storage

CompareWithEmbedded(computed, storage) ==
  IF Embedded(storage) = None THEN 1 ELSE IF Embedded(storage) = computed THEN 0 ELSE 1

-----------------------------------------------------------------------------
(***************************************************************************)
(* find_so_exclude_ranges: the entry that carries the library itself is    *)
(* read as zeros, its directory record and its local entry, since the hash *)
(* is written into it after it has been computed.                          *)
(***************************************************************************)
\* hc_match_embedded_hash: every segment occurs, in its encoding.
MatchEmbedded(data, storage) ==
  Embedded(storage) # None /\ \A s \in Segments : \E i \in 1 .. Len(data) : data[i] = <<"enc", s>>

HeadLen(f, i) == IF Is(f, i, "local") THEN At(f, i)[3] ELSE Junk
Below(f, rec, cd) == rec[5] + 1 <= Len(f) /\ rec[5] < cd

MutIsOwn(f, rec, cd, storage) == rec[2] \in DefenderNames \cup {PayloadName}

IsOwn(f, rec, cd, storage) ==
  \/ rec[2] \in DefenderNames \cup {PayloadName}
  \/ /\ rec[2] \in SoNames
     /\ rec[3] > 0 /\ rec[3] = rec[4]
     /\ Below(f, rec, cd)
     /\ LET from == rec[5] + HeadLen(f, rec[5]) IN
        from + rec[3] <= Len(f) /\ MatchEmbedded(Slice(f, from, from + rec[3]), storage)

RangesOf(f, pos, cd) ==
  LET rec == At(f, pos) IN
  <<pos .. pos>> \o
    (IF Below(f, rec, cd) THEN <<rec[5] .. rec[5] + HeadLen(f, rec[5]) + rec[3] - 1>> ELSE <<>>)

\* The records up to the first cell that is none.
Records(f, cd, end) ==
  SelectSeq([k \in 1 .. end - cd |-> cd + k - 1],
            LAMBDA pos : \A i \in cd .. pos : Is(f, i, "cd"))

ExcludeRanges(f, cd, end, storage) ==
  FoldLeft(LAMBDA ranges, pos :
             IF Len(ranges) + 2 <= MaxRanges /\ IsOwn(f, At(f, pos), cd, storage)
             THEN ranges \o RangesOf(f, pos, cd) ELSE ranges,
           <<>>, Records(f, cd, end))

Excluded(ranges) == UNION {ranges[k] : k \in DOMAIN ranges}

\* apply_exclusions on the cells [from, to) of the file.
MutZeroed(f, from, to, ranges) ==
  [k \in 1 .. to - from |->
    IF {from + k - 2, from + k - 1} \cap Excluded(ranges) # {} THEN <<"zero", 0>> ELSE At(f, from + k - 1)]

Zeroed(f, from, to, ranges) ==
  [k \in 1 .. to - from |->
    IF from + k - 1 \in Excluded(ranges) THEN <<"zero", 0>> ELSE At(f, from + k - 1)]

-----------------------------------------------------------------------------
(***************************************************************************)
(* compute_segment_digest and compute_apk_protected_hash.                  *)
(***************************************************************************)
\* The digest over the digests of the chunks, the last of which may be short.
SegmentDigest(cells) ==
  [k \in 1 .. (Len(cells) + ChunkCells - 1) \div ChunkCells |->
     <<"chunk", Slice(cells, ChunkCells * (k - 1), ChunkCells * k)>>]

\* Segment 4: the directory offset is read as the start of the block.
Patched(f, eocd, start) ==
  [k \in 1 .. Len(f) - eocd |->
    IF k = 2 THEN <<"cdoff", start>> ELSE At(f, eocd + k - 1)]

ProtectedHash(f, block, storage) ==
  LET hits == {i \in 1 .. Len(f) - EocdLen : Is(f, i, "eocd")}
      eocd == Greatest(hits)
      cd == block.start + block.total
      ranges == ExcludeRanges(f, cd, eocd, storage)
      digests == <<SegmentDigest(Zeroed(f, 0, block.start, ranges)),
                   SegmentDigest(Zeroed(f, cd, eocd, ranges)),
                   SegmentDigest(Patched(f, eocd, block.start))>> IN
  IF hits = {} \/ \E s \in DOMAIN digests : Len(digests[s]) > MaxChunks THEN None ELSE digests

\* signature_verify_mmap once the file is mapped: 0 the hash is the embedded
\* one, 1 it is not, -1 there is no block or no hash.
VerifySignature(f, storage) ==
  LET block == Located(f) IN
  IF block = NoBlock THEN -1
  ELSE LET hash == ProtectedHash(f, block, storage) IN
       IF hash = None THEN -1 ELSE CompareWithEmbedded(hash, storage)

\* signature_verify_mmap_get_hash: the same hash as text, for the server.
ServerHash(f, storage) ==
  LET block == Located(f) IN
  IF block = NoBlock \/ ProtectedHash(f, block, storage) = None THEN None
  ELSE <<"hex", ProtectedHash(f, block, storage)>>

-----------------------------------------------------------------------------
(***************************************************************************)
(* sig_verify.c: the digests of the layers D and B.                        *)
(***************************************************************************)
WholeHash(f) == <<"sha256", f>>

\* compute_signing_block_hash reads through the descriptor: what it cannot read
\* of the block is left out of the digest.
BlockHash(f) ==
  LET eocd == FindEocd(f)
      cd == NumberAt(f, eocd + 1)
      start == cd - Footer - NumberAt(f, cd - Footer) IN
  IF /\ eocd >= 0
     /\ cd \in Footer .. Len(f)
     /\ Is(f, cd - 2, "magic") /\ Is(f, cd - 1, "magic")
     /\ start >= 0
  THEN <<"sha256", Slice(f, start, cd)>> ELSE None

\* sig_verify_check_d: the file is the one of the first line of maps with ".apk!"
\* in it, or the one of the path it was given if there is no such line (None).
\* Any failure to find a block, and not only a file without one, makes the whole
\* file the thing compared.
LayerD(mapped, f, expected) ==
  LET file == IF mapped = None THEN f ELSE mapped
      actual == IF BlockHash(file) = None THEN WholeHash(file) ELSE BlockHash(file) IN
  IF actual = expected THEN 0 ELSE 1

LayerB(f, expected) == IF WholeHash(f) = expected THEN 0 ELSE 1

\* sig_verify_check_all: D, B and, with the hash the server gave, D once more;
\* None leaves a layer out, and the first that does not pass is the answer.
Layers(mapped, f, signature, content, server) ==
  LET d == IF signature = None THEN 0 ELSE LayerD(mapped, f, signature)
      b == IF content = None THEN 0 ELSE LayerB(f, content)
      again == IF server = None THEN 0 ELSE LayerD(mapped, f, server) IN
  CASE d # 0 -> d
    [] d = 0 /\ b # 0 -> b
    [] OTHER -> again
=============================================================================
