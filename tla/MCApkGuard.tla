----------------------------- MODULE MCApkGuard -----------------------------
EXTENDS ApkGuard, StreamHash

MCLengths == {0, 1, 55, 56, 57, 63, 64, 65, 119, 120, 128}
MCSegments == {1, 2}
MCCopies == {"lib/arm64/libxcj_defender.so", "lib/arm/libxcj_defender.so", "lib/x86/libxcj_defender.so",
             "lib/x86_64/libxcj_defender.so"}
MCBackup == "lib/arm64/libxcj_defender.so.bak"
MCDefender == MCCopies \cup {MCBackup}
MCSoNames == MCCopies \cup {"lib/arm64/libab12.so", "lib/arm64/libother.so", "lib/x/new.so"}
MCDex == <<"classes.dex", "classes2.dex">>
MCMeta == {"META-INF/CERT.RSA"}
MCCode == {"classes.dex", "classes2.dex", "assets/new.dex"}
MCLong == {"assets/long"}

D(d) == <<"data", d>>
Z(d) == <<"deflated", d>>
E(name, head, method, data) ==
  [name |-> name, head |-> head, method |-> method, data |-> data, sized |-> TRUE]

Dex1 == E("classes.dex", 1, "deflated", <<Z("c1"), Z("c2")>>)
Dex2 == E("classes2.dex", 2, "stored", <<D("c3")>>)
Streamed(e) == [e EXCEPT !.sized = FALSE]
So(name) == E(name, 2, "stored", <<D("elf"), <<"placeholder", 1>>, <<"placeholder", 2>>, D("text")>>)
Other == E("lib/arm64/libother.so", 1, "stored", <<D("elf"), D("other")>>)
Payload == E("assets/xcj_payload.bin", 1, "stored", <<D("x"), D("y")>>)
Asset == E("assets/a.txt", 1, "deflated", <<Z("a")>>)
Long == E("assets/long", 1, "stored", <<D("l")>>)
Manifest(tag, e) ==
  E("META-INF/MANIFEST.MF", 1, "stored",
    <<<<"Version:", "1">>, <<"Name:", "assets/a.txt">>, <<"Name:", "classes.dex">>, <<tag, Plain(e)>>,
      <<"Name:", "classes2.dex">>>>)

MCLayouts ==
  {[entries |-> <<Dex1, Dex2, So("lib/arm64/libxcj_defender.so"), Other>>, pairs |-> 2, comment |-> 0],
   [entries |-> <<Asset, So("lib/arm64/libab12.so"), Other, Dex1>>, pairs |-> 1, comment |-> 2],
   [entries |-> <<So("lib/arm/libxcj_defender.so"), So("lib/arm64/libxcj_defender.so"), Dex1>>,
    pairs |-> 2, comment |-> 1],
   [entries |-> <<So("lib/arm/libxcj_defender.so"), So("lib/arm64/libxcj_defender.so"),
                  So("lib/x86/libxcj_defender.so"), So("lib/x86_64/libxcj_defender.so"), Asset>>,
    pairs |-> 1, comment |-> 0],
   [entries |-> <<So("lib/arm64/libxcj_defender.so"), [Other EXCEPT !.name = MCBackup]>>,
    pairs |-> 1, comment |-> 0],
   [entries |-> <<Payload, Other, Manifest("SHA-256-Digest:", Dex1), Dex1, Dex2>>, pairs |-> 1, comment |-> 0],
   [entries |-> <<Manifest("SHA1-Digest:", Dex1), Asset, Streamed(Dex1), Dex2, Payload>>,
    pairs |-> 2, comment |-> 0],
   [entries |-> <<Dex1, Long, Dex2, Payload>>, pairs |-> 1, comment |-> 0],
   [entries |-> <<So("lib/arm64/libab12.so"), Asset>>, pairs |-> 1, comment |-> 1]}

Marks == {"a", "quote", "backslash", ","}
\* Complete arrays.
MCTexts == {<<>>, <<<<>>>>} \cup {<<<<x, y>>>> : x \in Marks, y \in Marks}
             \cup {<<<<x>>, <<y, "a">>, <<>>>> : x \in Marks, y \in Marks}
MCOctets == {<<>>} \cup {<<a, 200, 7>> : a \in {0, 255}} \cup {<<a>> : a \in {0, 3, 77, 255}}
              \cup {<<a, b>> : a \in {0, 255}, b \in {0, 15, 16, 255}}
              \cup {<<a, 1, 2, 3, b>> : a \in {9, 128}, b \in {0, 63, 64, 255}}

-----------------------------------------------------------------------------
(* The files of the state machine, all of the length of the first package. *)
Layout == [entries |-> <<Dex1, So("lib/arm64/libxcj_defender.so")>>, pairs |-> 1, comment |-> 1]
App == Package(Layout)

MCNodes == {"app", "repacked", "cut", "copy", "modified"}
MCStrays == {"copy", "modified"}
MCContent ==
  [n \in MCNodes |->
     CASE n \in {"app", "copy"} -> App
       [] n = "repacked" -> Package(WithEntry(Layout, 1))
       [] n = "cut" -> [k \in DOMAIN App |-> IF App[k][1] = "eocd" THEN <<"zero", 0>> ELSE App[k]]
       [] OTHER -> WithCell(App, 1)]
MCStorage == StorageOf(Layout)
MCCrcTable == TableOf(Layout)
MCFileList == ListOf(Layout)
MCSignatureHash == BlockHash(App)

Image(base, where, segment, patched, tool) ==
  [base |-> base, where |-> where, segment |-> segment, patched |-> patched, tool |-> tool,
   sealed |-> FALSE, intact |-> TRUE, marked |-> "none"]
MCImages ==
  {Image("dladdr", "data_app", TRUE, TRUE, FALSE), Image("dladdr", "memfd", FALSE, TRUE, FALSE),
   Image("loader", "anonymous", TRUE, TRUE, FALSE), Image("loader", "anonymous", TRUE, FALSE, FALSE),
   [Image("none", "anonymous", FALSE, TRUE, FALSE) EXCEPT !.marked = "own"],
   [Image("dladdr", "data_app", TRUE, TRUE, FALSE) EXCEPT !.marked = "other"],
   Image("dladdr", "elsewhere", TRUE, TRUE, FALSE), Image("dladdr", "data_app", TRUE, TRUE, TRUE),
   [Image("loader", "anonymous", TRUE, TRUE, FALSE) EXCEPT !.sealed = TRUE]}

-----------------------------------------------------------------------------
MCKeys == {<<"a">>, <<"b">>, <<"c">>, <<"a", "a">>}
MCInner == {"absent", "agrees", "environment", "self_test"}

-----------------------------------------------------------------------------
(***************************************************************************)
(* The properties of the pure checks, for all packages, texts and calls of *)
(* the instance.  They are evaluated in one state, where nothing runs yet. *)
(***************************************************************************)
\* A package of either build script passes the embedded hash, with the ranges that
\* script and library leave out of it, and fits the tables made from it; so does
\* the file the state machine starts from.
PackagesPass == AtStart => GenuinePasses /\ TablesFit /\ LoadedPasses

\* Every cell of a package that a check answers for changes its verdict, each of
\* the layers answers for its own part, and changed dex files and added files are
\* found by the tables.  Entries that are taken away are looked for by no layer.
ChangesAreFound == AtStart => EveryCellCounts /\ LayersSplit /\ ChangesAreSeen

\* The padding, the JSON reader and the base64 decoder, written out by hand in
\* integrity.c, sig_verify.c and self_verify.c, agree with what they stand for.
CodecsAgree == AtStart => PaddingIsStandard /\ ItemsComeBack /\ Base64ComesBack
=============================================================================
