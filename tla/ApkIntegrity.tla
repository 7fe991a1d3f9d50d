---------------------------- MODULE ApkIntegrity ----------------------------
(***************************************************************************)
(* integrity.c and dex_integrity.c over the cells of an APK (ApkSigning):  *)
(* the walk over the central directory, the reading of one entry, the      *)
(* layers 2 (CRC of the dex files), 3 (manifest digest of classes.dex) and *)
(* 4 (list of files), and the CRC of every dex file.                       *)
(*                                                                         *)
(* Digests and checksums are the data they are taken of.  The expected     *)
(* tables are sequences: <<name, crc>> for the checksums, names for the    *)
(* files; JsonItems below is what reads them out of their text.            *)
(***************************************************************************)
EXTENDS ApkSigning

CONSTANTS
  DexNames,        \* classes.dex, classes2.dex, ... (16 of them)
  ManifestName,    \* META-INF/MANIFEST.MF
  MetaNames,       \* the other names under META-INF/
  CodeNames,       \* names that end in .dex
  LongNames        \* names of 256 to 511 bytes; longer ones are left out

ASSUME NamesAssumption ==
  /\ Len(DexNames) > 0 /\ Range(DexNames) \subseteq CodeNames /\ ManifestName \notin CodeNames

Crc(data) == <<"crc", data>>

-----------------------------------------------------------------------------
(***************************************************************************)
(* read_apk_entry scans the local headers from the start of the file.  It  *)
(* goes on by the size in the header, which is 0 when the writer appends   *)
(* the sizes to the data: the scan then ends on the first cell of data.    *)
(***************************************************************************)
\* The positions of the local headers the scan comes past.
Scan(f) ==
  LET Step[pos \in 0 .. Len(f)] ==
        IF ~Is(f, pos, "local") THEN {}
        ELSE LET next == pos + At(f, pos)[3] + At(f, pos)[5] IN
             {pos} \cup IF next > Len(f) THEN {} ELSE Step[next]
  IN Step[0]

\* zlib on the compressed data; data that is no deflate stream fails.
Inflate(cells) ==
  IF \A k \in DOMAIN cells : cells[k][1] = "deflated"
  THEN [k \in DOMAIN cells |-> <<"data", cells[k][2]>>] ELSE None

\* The content of the first entry of that name, or None.  A deflated entry
\* without sizes inflates into a buffer of no bytes, which is an error.
ReadEntry(f, name) ==
  LET hits == {pos \in Scan(f) : At(f, pos)[2] = name}
      pos == CHOOSE p \in hits : \A q \in hits : p <= q
      comp == At(f, pos)[5]
      from == pos + At(f, pos)[3] IN
  IF hits = {} \/ from + comp > Len(f) THEN None
  ELSE CASE At(f, pos)[4] = "stored" -> Slice(f, from, from + comp)
         [] At(f, pos)[4] = "deflated" /\ comp > 0 -> Inflate(Slice(f, from, from + comp))
         [] OTHER -> None

-----------------------------------------------------------------------------
(***************************************************************************)
(* zip_foreach_entry: the records of the central directory, as many as the *)
(* end record counts.  A name of 256 bytes or more is cut and the rest of  *)
(* it taken for the next record, which ends the walk without an error.     *)
(***************************************************************************)

Entries(f) ==
  LET eocd == FindEocd(f)
      cd == NumberAt(f, eocd + 1)
      Good(k) == \A i \in 1 .. k : /\ Is(f, cd + i - 1, "cd")
                                   /\ i < k => At(f, cd + i - 1)[2] \notin LongNames IN
  IF eocd < 0 THEN None
  ELSE [k \in 1 .. Greatest({0} \cup {n \in 1 .. At(f, eocd)[2] : Good(n)}) |-> At(f, cd + k - 1)]

-----------------------------------------------------------------------------
(***************************************************************************)
(* The layers.  0 passes, 1 fails, 2 warns, -1 could not be checked.       *)
(***************************************************************************)
Dex == {DexNames[k] : k \in DOMAIN DexNames}

\* lookup_expected_crc: the first item of that name decides.
Expected(table, name) ==
  LET hits == {k \in DOMAIN table : table[k][1] = name} IN
  IF hits = {} THEN None ELSE table[CHOOSE k \in hits : \A j \in hits : k <= j][2]

\* Layer 2 compares the checksum that the directory states, for every name that
\* ends in .dex; a cut name does not.
CheckCrc(f, table) ==
  CASE table = <<>> -> 0
    [] table # <<>> /\ Entries(f) = None -> -1
    [] OTHER ->
       IF \E k \in DOMAIN Entries(f) :
            LET rec == Entries(f)[k] IN
            rec[2] \in CodeNames \ LongNames /\ Expected(table, rec[2]) \notin {None, rec[6]}
       THEN 1 ELSE 0

\* The digest of classes.dex in the manifest, whose cells are its lines: the
\* first SHA-256 line in the file if it lies in the section of classes.dex,
\* else the first SHA-1 line likewise.
ManifestDigest(lines) ==
  LET section == {k \in DOMAIN lines : lines[k] = <<"Name:", DexNames[1]>>}
      from == CHOOSE k \in section : \A j \in section : k <= j
      after == {k \in DOMAIN lines : k > from /\ lines[k][1] = "Name:"}
      FirstOf(tag) == {k \in DOMAIN lines : /\ k > from /\ lines[k][1] = tag
                                            /\ \A j \in from + 1 .. k - 1 : lines[j][1] # tag}
      In(tag) == {k \in FirstOf(tag) : \A j \in after : k < j} IN
  CASE section = {} -> None
    [] section # {} /\ In("SHA-256-Digest:") # {} ->
         lines[CHOOSE k \in In("SHA-256-Digest:") : TRUE]
    [] section # {} /\ In("SHA-256-Digest:") = {} /\ In("SHA1-Digest:") # {} ->
         lines[CHOOSE k \in In("SHA1-Digest:") : TRUE]
    [] OTHER -> None

CheckManifest(f) ==
  LET lines == ReadEntry(f, ManifestName) IN
  IF lines = None \/ ManifestDigest(lines) = None \/ ReadEntry(f, DexNames[1]) = None THEN -1
  ELSE IF ManifestDigest(lines)[2] = ReadEntry(f, DexNames[1]) THEN 0 ELSE 1

\* classify_extra_file, which compares the last four characters with ".so" and
\* so takes a library for any other file, and the callback of layer 4: only
\* entries that the list does not name are looked at, never names that no entry has.
Classify(name) ==
  CASE name \in MetaNames \cup {ManifestName} -> "ignore"
    [] name \in CodeNames /\ name \notin LongNames -> "kill"
    [] OTHER -> "warn"

CheckFileList(f, list) ==
  LET extra == {Entries(f)[k][2] : k \in DOMAIN Entries(f)} \ (Range(list) \ LongNames)
      answers == {Classify(name) : name \in extra} IN
  CASE list = <<>> -> 0
    [] list # <<>> /\ Entries(f) = None -> -1
    [] OTHER -> IF "kill" \in answers THEN 1 ELSE IF "warn" \in answers THEN 2 ELSE 0

\* integrity_check: a layer that could not be checked does not fail it.
IntegrityCheck(f, table, list) ==
  IF CheckCrc(f, table) = 1 \/ CheckManifest(f) = 1 \/ CheckFileList(f, list) = 1 THEN 1
  ELSE IF CheckFileList(f, list) = 2 THEN 2 ELSE 0

-----------------------------------------------------------------------------
(***************************************************************************)
(* dex_integrity.c reads the entries themselves, up to the first name that *)
(* is missing, and compares those the table names.                         *)
(***************************************************************************)
DexCrcs(f) ==
  LET missing == {k \in DOMAIN DexNames : ReadEntry(f, DexNames[k]) = None}
      count == IF missing = {} THEN Len(DexNames)
               ELSE (CHOOSE k \in missing : \A j \in missing : k <= j) - 1 IN
  [k \in 1 .. count |-> Crc(ReadEntry(f, DexNames[k]))]

DexCheck(f, table) ==
  IF table = <<>> \/ DexCrcs(f) = <<>> THEN -1
  ELSE IF \E k \in DOMAIN DexCrcs(f) :
            Expected(table, DexNames[k]) \notin {None, DexCrcs(f)[k]} THEN 1 ELSE 0

-----------------------------------------------------------------------------
(***************************************************************************)
(* parse_json_array: the strings between quotes.  A backslash takes the    *)
(* next character along and both stay in the item.                         *)
(***************************************************************************)
MutJsonStep(s, c) ==
  CASE ~s.inside /\ c = "quote" -> [s EXCEPT !.inside = TRUE, !.item = <<>>]
    [] ~s.inside /\ c # "quote" -> s
    [] s.inside /\ c = "quote" -> [s EXCEPT !.inside = FALSE, !.items = Append(@, s.item)]
    [] OTHER -> [s EXCEPT !.item = Append(@, c)]

JsonStep(s, c) ==
  CASE ~s.inside /\ c = "quote" -> [s EXCEPT !.inside = TRUE, !.item = <<>>]
    [] ~s.inside /\ c # "quote" -> s
    [] s.inside /\ s.escape -> [s EXCEPT !.escape = FALSE, !.item = Append(@, c)]
    [] s.inside /\ ~s.escape /\ c = "quote" ->
         [s EXCEPT !.inside = FALSE, !.items = Append(@, s.item)]
    [] OTHER -> [s EXCEPT !.escape = c = "backslash", !.item = Append(@, c)]

\* The end of the text ends an item, too, unless a backslash comes right before:
\* the code steps over the end with it and reads on behind the text (None).
JsonItems(chars) ==
  LET s == FoldLeft(JsonStep, [inside |-> FALSE, escape |-> FALSE, item |-> <<>>, items |-> <<>>],
                    chars) IN
  CASE s.escape -> None
    [] s.inside /\ ~s.escape -> Append(s.items, s.item)
    [] OTHER -> s.items

(***************************************************************************)
(* base64_decode of the manifest's digests, on the values of the letters.  *)
(* "=" shortens its group or, at the head of one, ends the text; the last  *)
(* group may lack its padding.  The digest is one line, so that the line   *)
(* breaks the code skips do not occur.                                     *)
(***************************************************************************)
Pad == -1           \* the value kept for "="

Group(g) ==
  <<4 * g[1] + g[2] \div 16>>
    \o (IF g[3] = Pad THEN <<>> ELSE <<16 * (g[2] % 16) + g[3] \div 4>>)
    \o (IF g[4] = Pad THEN <<>> ELSE <<64 * ((IF g[3] = Pad THEN 0 ELSE g[3]) % 4) + g[4]>>)

Base64Decode(in) ==
  LET letters == IF Len(in) % 4 = 3 THEN Append(in, Pad) ELSE in
      stops == {k \in 1 .. Len(letters) \div 4 : letters[4 * k - 3] = Pad}
      groups == IF stops = {} THEN Len(letters) \div 4
                ELSE (CHOOSE k \in stops : \A j \in stops : k <= j) - 1 IN
  FlattenSeq([k \in 1 .. groups |-> Group(SubSeq(letters, 4 * k - 3, 4 * k))])
=============================================================================
