----------------------------- MODULE MCSoLoader -----------------------------
EXTENDS SoLoader, StrCipher

MCLibs == {"payload", "inner"}
MCDefault == {"log"}
MCSysLibs == <<{"inflate"}, {}, {"inflate", "dl"}, {}>>

Seg(v, off, file, mem, flags) ==
  [type |-> "load", vaddr |-> v, offset |-> off, filesz |-> file, memsz |-> mem, flags |-> flags]
Dyn == [type |-> "dynamic", vaddr |-> 0, offset |-> 0, filesz |-> 0, memsz |-> 0, flags |-> {}]

Sym(n, d, v) == [st_name |-> n, defined |-> d, value |-> v]
Rel(t, at, sym, addend) == [type |-> t, at |-> at, sym |-> sym, addend |-> addend]

\* A library as the NDK links it: a read-only head, code, and data with zeros
\* behind it; a page lies between code and data.  The last symbol is what
\* stands behind the table.
Lib64 ==
  [elf |-> TRUE, wide |-> TRUE, len |-> 8, phend |-> 1, onLoad |-> TRUE,
   ph |-> <<Seg(0, 0, 2, 2, {"r"}), Dyn, Seg(2, 2, 3, 3, {"r", "x"}), Seg(9, 5, 3, 5, {"r", "w"}), Dyn>>,
   words |-> 5 :> <<"num", 3>> @@ 6 :> <<"num", -1>>,
   strtab |-> <<"JNI_OnLoad", "log", "inflate", "own", "self_integrity_set_cl_info",
                "self_verify_set_cl_info">>,
   syms |-> <<Sym(0, FALSE, 0), Sym(2, FALSE, 0), Sym(3, FALSE, 0), Sym(4, TRUE, 4), Sym(5, TRUE, 5),
              Sym(6, TRUE, 2), Sym(1, TRUE, 4), Sym(9, TRUE, 9)>>,
   rela |-> <<Rel("relative", 9, 1, 3), Rel("glob_dat", 11, 2, 0), Rel("abs", 12, 3, 1), Rel("none", 13, 1, 0)>>,
   plt |-> <<Rel("jump_slot", 13, 4, 0)>>,
   dynamic |-> [symtab |-> 0, strtab |-> 0, strsz |-> 7, rela |-> 0, relasz |-> 4, jmprel |-> 0,
                pltrelsz |-> 1, init |-> 2, init_array |-> 9, init_arraysz |-> 2]]

\* The 32-bit library keeps what is to be added in the word itself.
Lib32 ==
  [Lib64 EXCEPT !.wide = FALSE,
     !.rela = <<Rel("relative", 9, 1, 0), Rel("glob_dat", 11, 2, 0), Rel("abs", 12, 2, 0)>>,
     !.plt = <<Rel("jump_slot", 13, 2, 0)>>,
     !.dynamic.relasz = 3]

\* JNI_OnLoad lies behind the entries the linker looks at (and a last segment is
\* zeros only), or nowhere (and the code has a relocation), a symbol resolves
\* nowhere, there is no dynamic section, the headers are cut off.
Late == [Lib64 EXCEPT !.ph = Append(@, Seg(14, 8, 0, 1, {"r", "w"})),
                      !.syms = SubSeq(@, 1, 6) \o <<Sym(0, FALSE, 0), Sym(0, FALSE, 0), Sym(1, TRUE, 4)>>]
Nameless == [Lib64 EXCEPT !.syms = SubSeq(@, 1, 6) \o <<Sym(9, FALSE, 0), Sym(1, TRUE, 4)>>, !.onLoad = FALSE,
                          !.rela = Append(@, Rel("relative", 3, 1, 4)), !.dynamic.relasz = 5]
Unbound == [Lib64 EXCEPT !.strtab[3] = "nowhere"]
Static == [Lib64 EXCEPT !.ph = SelectSeq(@, LAMBDA s : s.type = "load"),
                          !.rela = <<>>, !.plt = <<>>, !.onLoad = FALSE]
Headless == [Lib64 EXCEPT !.phend = 9]
NoElf == [Lib64 EXCEPT !.elf = FALSE]

MCObjects == <<Lib64, Lib32, Late, Nameless, Unbound, Static, Headless, NoElf>>

Inner64 ==
  [Lib64 EXCEPT
     !.strtab = <<"inner_get_version", "inner_verify_hash", "inner_env_check", "inner_self_check">>,
     !.syms = <<Sym(0, FALSE, 0), Sym(1, TRUE, 2), Sym(2, TRUE, 3), Sym(3, TRUE, 4), Sym(4, TRUE, 5)>>,
     !.rela = <<Rel("relative", 9, 1, 2)>>, !.plt = <<>>,
     !.dynamic = [symtab |-> 0, strtab |-> 0, strsz |-> 5, rela |-> 0, relasz |-> 1, init_array |-> 9,
                  init_arraysz |-> 1]]
Inner32 == [Inner64 EXCEPT !.wide = FALSE, !.rela = <<Rel("relative", 9, 1, 0)>>, !.words = 5 :> <<"num", 2>>]
\* Without one of the functions that are needed, with a relocation in its code and
\* a segment of zeros.
Partial == [Inner64 EXCEPT !.syms[3].defined = FALSE, !.ph = Append(@, Seg(14, 8, 0, 1, {"r", "w"})),
                           !.rela = Append(@, Rel("relative", 3, 1, 4)), !.dynamic.relasz = 2]
MCInners == {Inner64, Inner32, Partial, [Inner64 EXCEPT !.syms[4].defined = FALSE],
             [Inner64 EXCEPT !.elf = FALSE], [Inner64 EXCEPT !.len = 6]}

Data == [obj |-> 0, at |-> 0, magic |-> 0]
Trailer(n) == <<[obj |-> 0, at |-> 0, magic |-> n]>>
Packed(o, n) == [k \in 1 .. n |-> [obj |-> o, at |-> k, magic |-> 0]]
Whole(o) == Packed(o, 8) \o Trailer(8)

\* Trailers of the wrong length in front of the library, inside its cipher text
\* and behind it, and a library that was cut.
MCApks ==
  {<<(Data)>> \o Whole(o) \o <<(Data)>> : o \in 1 .. 8} \cup
  {Trailer(99) \o <<(Data)>> \o Trailer(1) \o Whole(1),
   [Whole(2) EXCEPT ![4].magic = 2] \o Trailer(3),
   Whole(8) \o Trailer(9) \o Whole(1),
   Packed(1, 5) \o Trailer(5),
   Whole(1) \o Whole(3),
   <<(Data)>> \o Trailer(1)}

MCMasked == <<<<19, 200>>, <<7, 0>>>>
MCPad == <<<<85, 17>>, <<7, 129>>>>
\* The key the build used.
BuildKey == <<70, 217, 0, 129>>
Texts == UNION {[1 .. n -> {65, 122, 239}] : n \in 0 .. 3} \cup {[i \in 1 .. 5 |-> 90 + i], [i \in 1 .. 8 |-> 90 + i]}
AllComeBack == \A t \in Texts : RoundTrip(BuildKey, t)

\* What the build encrypts comes back from native_str_decrypt, with the key put
\* together from its fragments, up to the size of the buffers.
StringsComeBack == step = "idle" => AllComeBack
=============================================================================
