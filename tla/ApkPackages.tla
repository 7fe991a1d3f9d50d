----------------------------- MODULE ApkPackages -----------------------------
(***************************************************************************)
(* Packages as the build makes them, and what the checks of ApkSigning and *)
(* ApkIntegrity answer for them.  patch_apk_hash.py computes the protected *)
(* hash of a signed package with the entries of the defender left out, and *)
(* writes it in eight encoded segments into them; patch_x0.py does it for  *)
(* a package that carries the defender as an encrypted payload.            *)
(***************************************************************************)
EXTENDS ApkIntegrity

CONSTANTS
  Layouts,         \* [entries, pairs, comment]: packages before the patch
  Texts,           \* lists of items that are rendered as a JSON array
  Octets           \* byte strings that are encoded in base64

\* A layout's entries are [name, head, method, data, sized]; a writer that
\* streams an entry leaves the sizes of its local header 0.
Plain(entry) ==
  [k \in DOMAIN entry.data |->
    IF entry.data[k][1] = "deflated" THEN <<"data", entry.data[k][2]>> ELSE entry.data[k]]

EntryCells(entry) ==
  <<<<"local", entry.name, entry.head, entry.method, IF entry.sized THEN Len(entry.data) ELSE 0>>>>
    \o [k \in 1 .. entry.head - 1 |-> <<"extra", k>>] \o entry.data

LocalOf(entries, k) ==
  FoldLeft(LAMBDA n, e : n + e.head + Len(e.data), 0, SubSeq(entries, 1, k - 1))

Built(layout) ==
  LET entries == layout.entries
      block == LocalOf(entries, Len(entries) + 1)
      size == layout.pairs + Footer
      cd == block + 1 + size IN
  FlattenSeq([k \in DOMAIN entries |-> EntryCells(entries[k])])
    \o <<<<"size", size>>>> \o [k \in 1 .. layout.pairs |-> <<"pair", k>>]
    \o <<<<"size", size>>, <<"magic", 1>>, <<"magic", 2>>>>
    \o [k \in DOMAIN entries |->
         <<"cd", entries[k].name, Len(entries[k].data), Len(Plain(entries[k])),
           LocalOf(entries, k), Crc(Plain(entries[k]))>>]
    \o <<<<"eocd", Len(entries)>>, <<"cdoff", cd>>>>
    \o [k \in 1 .. layout.comment |-> <<"data", "comment">>]

-----------------------------------------------------------------------------
(***************************************************************************)
(* The build scripts, which know no limit on the ranges.  Their passes     *)
(* (checksums into the configuration, hash, signature, hash again) are one *)
(* here: the signature is made anew after each, and both compare at the    *)
(* end what the library would compute, so that a package whose signing     *)
(* block changed its size is given up.                                     *)
(***************************************************************************)
HasPlaceholders(data) == \A s \in Segments : \E k \in 1 .. Len(data) : data[k] = <<"placeholder", s>>

\* patch_apk_hash.py knows the library by its name or by the placeholders in it.
PackerOwn(f, rec) ==
  /\ rec[2] \in SoNames
  /\ \/ rec[2] \in DefenderNames
     \/ /\ rec[3] > 0
        /\ LET from == rec[5] + HeadLen(f, rec[5]) IN
           from + rec[3] <= Len(f) /\ HasPlaceholders(Slice(f, from, from + rec[3]))

\* patch_x0.py leaves out the payload and no library.
PayloadOwn(rec) == rec[2] = PayloadName

RecordsOf(f) == {i \in 0 .. Len(f) - 1 : Is(f, i, "cd")}
HasPayload(f) == \E i \in RecordsOf(f) : PayloadOwn(At(f, i))

PackerOwnRanges(f, cd, end) ==
  LET own(rec) == IF HasPayload(f) THEN PayloadOwn(rec) ELSE PackerOwn(f, rec) IN
  FoldLeft(LAMBDA ranges, pos :
             IF own(At(f, pos)) THEN ranges \o RangesOf(f, pos, cd) ELSE ranges,
           <<>>, Records(f, cd, end))

PackerHash(f) ==
  LET block == Located(f)
      eocd == FindEocd(f)
      cd == block.start + block.total
      ranges == PackerOwnRanges(f, cd, eocd) IN
  <<SegmentDigest(Zeroed(f, 0, block.start, ranges)),
    SegmentDigest(Zeroed(f, cd, eocd, ranges)),
    SegmentDigest(Patched(f, eocd, block.start))>>

\* The placeholders become the segments, and the checksums of their entries are
\* adjusted.
Encode(cell) == IF cell[1] = "placeholder" THEN <<"enc", cell[2]>> ELSE cell
PackerPatch(f) ==
  [k \in DOMAIN f |->
    IF f[k][1] = "cd"
    THEN [f[k] EXCEPT ![6] = <<"crc", [j \in DOMAIN @[2] |-> Encode(@[2][j])]>>]
    ELSE Encode(f[k])]

\* The content of the payload becomes the framed library of the same size, with
\* the hash inside its cipher text, and its checksum is adjusted.
X0Patch(f) ==
  LET pos == CHOOSE i \in RecordsOf(f) : PayloadOwn(At(f, i))
      from == At(f, pos)[5] + HeadLen(f, At(f, pos)[5])
      framed == [k \in 1 .. At(f, pos)[3] |-> <<"framed", k>>] IN
  [k \in DOMAIN f |->
    CASE k = pos + 1 -> [f[k] EXCEPT ![6] = Crc(framed)]
      [] k \in from + 1 .. from + Len(framed) -> framed[k - from]
      [] OTHER -> f[k]]

Package(layout) ==
  LET f == Built(layout) IN IF HasPayload(f) THEN X0Patch(f) ELSE PackerPatch(f)
StorageOf(layout) == PackerHash(Built(layout))

-----------------------------------------------------------------------------
(***************************************************************************)
(* The tables that go into the configuration.                              *)
(***************************************************************************)
DexOf(layout) == SelectSeq(layout.entries, LAMBDA e : e.name \in Dex)
TableOf(layout) == [k \in DOMAIN DexOf(layout) |-> <<DexOf(layout)[k].name, Crc(Plain(DexOf(layout)[k]))>>]
ListOf(layout) == [k \in DOMAIN layout.entries |-> layout.entries[k].name]

\* Changes: a cell of the file, the content of an entry with or without its
\* checksum, and an entry that is added.
Changed == <<"data", "changed">>
WithCell(f, i) == [f EXCEPT ![i + 1] = Changed]
WithEntry(layout, k) ==
  [layout EXCEPT !.entries[k].data[1] =
     IF @[1] = "deflated" THEN <<"deflated", "changed">> ELSE Changed]
Added(layout, name) ==
  [layout EXCEPT !.entries =
     Append(@, [name |-> name, head |-> 1, method |-> "stored", data |-> <<Changed>>, sized |-> TRUE])]

\* A package whose records keep the checksums of another of the same entries.
WithOldCrc(new, old) ==
  [k \in DOMAIN new |-> IF new[k][1] = "cd" THEN [new[k] EXCEPT ![6] = old[k][6]] ELSE new[k]]

-----------------------------------------------------------------------------
(* Properties *)

\* A package that the build patched is accepted by the library inside it, and the
\* hash that goes to the server is the one the script printed: the entries with
\* the hash in them are left out by the script that computes it and by the code
\* that compares it, under their own name, under any other or as a payload,
\* wherever they lie and up to the four copies the library has room for
\* (hash_calculator.c:69).  Assumed: no name under lib/ holds the defender's
\* without ending in .so, which the script does not leave out and the library does.
ScriptKnows(layout) ==
  \A k \in DOMAIN layout.entries : layout.entries[k].name \in DefenderNames => layout.entries[k].name \in SoNames

GenuinePasses ==
  \A layout \in Layouts : ScriptKnows(layout) =>
    /\ VerifySignature(Package(layout), StorageOf(layout)) = 0
    /\ ServerHash(Package(layout), StorageOf(layout)) = <<"hex", StorageOf(layout)>>

\* No other cell of a package may be changed unnoticed: every entry, directory
\* record, the end record and the comment count, except the signing block from
\* where the code takes it to begin.
EveryCellCounts ==
  \A layout \in Layouts :
    LET f == Package(layout)
        block == Located(f)
        own == Excluded(PackerOwnRanges(Built(layout), block.start + block.total, FindEocd(f))) IN
    \A i \in 0 .. Len(f) - 1 :
      i \notin own /\ i \notin block.start .. block.start + block.total - 1
      => VerifySignature(WithCell(f, i), StorageOf(layout)) # 0

\* The layers D and B answer for the block and for the whole file: a change
\* inside the block is seen by both, a change of an entry by B alone, and the
\* call that combines them sees what one of its layers sees.  They may look at two
\* files: D answers for the one that maps name, whatever path the call passes, and
\* B for the one of the path.
LayersSplit ==
  \A layout \in Layouts :
    LET f == Package(layout)
        block == Located(f)
        inside == block.start .. block.start + block.total - Footer - 1 IN
    /\ Layers(None, f, BlockHash(f), WholeHash(f), BlockHash(f)) = 0
    /\ \A i \in 0 .. Len(f) - 1 :
         LET g == WithCell(f, i) IN
         /\ Layers(None, g, None, WholeHash(f), BlockHash(f)) = 1
         /\ Layers(f, g, BlockHash(f), WholeHash(f), None) = 1
         /\ Layers(f, g, BlockHash(f), None, BlockHash(f)) = 0
         /\ i \in inside => Layers(g, f, BlockHash(f), WholeHash(f), None) = 1
         /\ i < block.start => Layers(None, g, BlockHash(f), None, BlockHash(f)) = 0

\* A package fits the tables made from it, but for the warning of an entry whose
\* name is cut; entries that cannot be read back (streamed ones, a manifest that
\* is missing) are no violation.
TablesFit ==
  \A layout \in Layouts :
    LET f == Package(layout) IN
    /\ IntegrityCheck(f, TableOf(layout), ListOf(layout)) =
         IF \A k \in DOMAIN layout.entries : layout.entries[k].name \notin LongNames THEN 0 ELSE 2
    /\ DexCheck(f, TableOf(layout)) # 1

\* A dex file with another content is found, by the checksum in the directory if
\* that was adjusted, by its own if it was not and every entry states its size;
\* an added dex file fails the list, and a resource that is added is warned of.
ChangesAreSeen ==
  \A layout \in Layouts :
    LET f == Package(layout)
        readable == \A k \in DOMAIN layout.entries : layout.entries[k].sized
        short == \A k \in DOMAIN layout.entries : layout.entries[k].name \notin LongNames IN
    /\ \A k \in DOMAIN layout.entries : layout.entries[k].name \in Dex =>
         LET g == Package(WithEntry(layout, k)) IN
         /\ short => IntegrityCheck(g, TableOf(layout), ListOf(layout)) = 1
         /\ readable => DexCheck(WithOldCrc(g, f), TableOf(layout)) = 1
    /\ short =>
         /\ \A name \in CodeNames \ (LongNames \cup Range(ListOf(layout))) :
              IntegrityCheck(Package(Added(layout, name)), TableOf(layout), ListOf(layout)) = 1
         /\ IntegrityCheck(Package(Added(layout, "assets/new.txt")), TableOf(layout), ListOf(layout)) = 2

\* The items of a JSON array are read as they were written, quotes and
\* backslashes in their escaped form.  A text that is cut after a backslash is no
\* array: the code reads on behind it.
Escaped(item) ==
  FlattenSeq([k \in DOMAIN item |->
    IF item[k] \in {"quote", "backslash"} THEN <<"backslash", item[k]>> ELSE <<item[k]>>])
Rendered(items) ==
  <<"[">> \o FlattenSeq([k \in DOMAIN items |->
     (IF k = 1 THEN <<>> ELSE <<",">>) \o <<"quote">> \o Escaped(items[k]) \o <<"quote">>]) \o <<"]">>

ItemsComeBack ==
  \A items \in Texts : JsonItems(Rendered(items)) = [k \in DOMAIN items |-> Escaped(items[k])]

\* server_gate_encrypt_hash and the end of signature_verify_mmap_get_hash, on the
\* values of the letters.
Encoded(bytes) ==
  LET b(k) == IF k <= Len(bytes) THEN bytes[k] ELSE 0
      group(g) ==
        LET i == 3 * g - 2 IN
        <<b(i) \div 4, 16 * (b(i) % 4) + b(i + 1) \div 16,
          IF i + 1 <= Len(bytes) THEN 4 * (b(i + 1) % 16) + b(i + 2) \div 64 ELSE -1,
          IF i + 2 <= Len(bytes) THEN b(i + 2) % 64 ELSE -1>> IN
  FlattenSeq([g \in 1 .. (Len(bytes) + 2) \div 3 |-> group(g)])

\* base64_decode gives back what the two encoders of the library make, with
\* padding or, where one sign of it would do, without.
Base64ComesBack ==
  \A bytes \in Octets :
    /\ Base64Decode(Encoded(bytes)) = bytes
    /\ Len(bytes) % 3 = 2 => Base64Decode(SubSeq(Encoded(bytes), 1, Len(Encoded(bytes)) - 1)) = bytes

-----------------------------------------------------------------------------
(***************************************************************************)
(* What the comments say and the code does not keep: no run lists them.    *)
(***************************************************************************)
\* A library that still holds the placeholders is told apart from a wrong hash:
\* hash_storage.c:98 promises -1 for it, compare_with_embedded returns 1.
PlaceholderIsTold ==
  \A layout \in Layouts : VerifySignature(Built(layout), Placeholder) = -1

\* A library that was added ends the process like a dex file that was
\* (integrity.c:755-757, 823-825): classify_extra_file compares four characters
\* with the three of ".so", so that the answer is the warning 2.
AddedLibraryFails ==
  \A layout \in Layouts :
    IntegrityCheck(Package(Added(layout, "lib/x/new.so")), TableOf(layout), ListOf(layout)) = 1
=============================================================================
