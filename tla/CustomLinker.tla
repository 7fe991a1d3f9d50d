---------------------------- MODULE CustomLinker ----------------------------
(***************************************************************************)
(* custom_linker.c: the linker that maps a shared object out of memory.    *)
(* One linker is kept per library in Libs; a library has at most one image *)
(* at a time.  Addresses are virtual addresses of the image in words, the  *)
(* load bias being a word's first component: <<"image", v>> is the address *)
(* load_bias + v and <<"num", n>> a plain number.                          *)
(*                                                                         *)
(* The kernel may refuse each mmap and mprotect.  The 64-bit build makes   *)
(* the system calls itself and gets -errno, which is not MAP_FAILED: it    *)
(* does not see a refused mmap, and goes on with what it takes for an      *)
(* address.  The 32-bit build calls libc and sees it.  Neither build looks *)
(* at what mprotect answers.                                               *)
(***************************************************************************)
EXTENDS Integers, Sequences, FiniteSets, SequencesExt, Functions

CONSTANTS
  Libs,         \* the libraries the linker is asked to load
  PageSize,     \* words of a page
  MaxSymbols,   \* the entries cl_find_symbol looks at (4096 in the code)
  Default,      \* the names dlsym(RTLD_DEFAULT) resolves
  SysLibs       \* the names each of the four system libraries resolves, in order

ASSUME LinkerAssumption == PageSize \in Nat \ {0} /\ MaxSymbols \in Nat /\ Len(SysLibs) = 4

VARIABLES
  image,    \* the bytes handed to cl_dlopen_mem, as the object they hold
  phase,    \* how far cl_dlopen_mem got; "open" is a valid handle
  pos,      \* the program header or relocation that is next
  area,     \* the protection of each page of the mapping
  memory,   \* the words of the mapping
  info,     \* what cl_parse_dynamic found
  refused,  \* whether the kernel refused a call for the image unnoticed
  faulted   \* a page was used that is not mapped for it: the process is gone

imageVars == <<image, phase, pos, area, memory, info, refused>>
linkerVars == <<imageVars, faulted>>

Phases == {"none", "load", "parse", "relocate", "protect", "open", "failed", "closed"}
NoArea == <<>>
NoInfo == [tags |-> {}, rela |-> <<>>, plt |-> <<>>, strsz |-> 0, init |-> 0, array |-> 0, count |-> 0]
NoImage == [elf |-> FALSE, len |-> 0, phend |-> 0, ph |-> <<>>]

PageOf(a) == a \div PageSize
\* The pages of a segment, CL_PAGE_START(p_vaddr) to CL_PAGE_END(p_vaddr + p_memsz).
PagesOf(s) == PageOf(s.vaddr) .. PageOf(s.vaddr + s.memsz + PageSize - 1) - 1
WordsOf(pages) == UNION {PageSize * p .. PageSize * (p + 1) - 1 : p \in pages}
LoadsOf(img) == {i \in DOMAIN img.ph : img.ph[i].type = "load"}
ImagePages(img) == UNION {PagesOf(img.ph[i]) : i \in LoadsOf(img)}

\* The word of the file at an offset, when the image names none.
Content(img, off) == IF off \in DOMAIN img.words THEN img.words[off] ELSE <<"file", off>>
Zero == <<"num", 0>>

LinkerInit ==
  /\ image = [l \in Libs |-> NoImage]
  /\ phase = [l \in Libs |-> "none"]
  /\ pos = [l \in Libs |-> 0]
  /\ area = [l \in Libs |-> NoArea]
  /\ memory = [l \in Libs |-> NoArea]
  /\ info = [l \in Libs |-> NoInfo]
  /\ refused = [l \in Libs |-> FALSE] /\ faulted = FALSE

-----------------------------------------------------------------------------
(* cl_dlopen_mem *)

\* The three checks in front of the mapping; calloc may fail as well.
ElfOk(img) == img.len > 0 /\ img.elf /\ img.phend <= img.len

\* cl_reserve_space: one PROT_NONE mapping from the lowest to the highest page.
Reserved(img) ==
  LET pages == ImagePages(img)
  IN  IF pages = {} THEN {}
      ELSE LET lo == CHOOSE p \in pages : \A q \in pages : p <= q
               hi == CHOOSE p \in pages : \A q \in pages : p >= q
           IN  lo .. hi

\* What was just mapped, and what was mapped before where it leaves it.
Over(new, old) == [x \in DOMAIN new \cup DOMAIN old |-> IF x \in DOMAIN new THEN new[x] ELSE old[x]]

\* A reservation whose refusal is not seen gives an invalid base.
DlOpen(lib, img) ==
  /\ image' = [image EXCEPT ![lib] = img]
  /\ pos' = [pos EXCEPT ![lib] = 1]
  /\ info' = [info EXCEPT ![lib] = NoInfo]
  /\ memory' = [memory EXCEPT ![lib] = NoArea]
  /\ UNCHANGED faulted
  /\ \/ /\ phase' = [phase EXCEPT ![lib] = "failed"]
        /\ area' = [area EXCEPT ![lib] = NoArea]
        /\ refused' = [refused EXCEPT ![lib] = FALSE]
     \/ /\ ElfOk(img)
        /\ Reserved(img) # {}
        /\ phase' = [phase EXCEPT ![lib] = "load"]
        /\ \/ /\ area' = [area EXCEPT ![lib] = [p \in Reserved(img) |-> {}]]
              /\ refused' = [refused EXCEPT ![lib] = FALSE]
           \/ /\ img.wide
              /\ area' = [area EXCEPT ![lib] = NoArea]
              /\ refused' = [refused EXCEPT ![lib] = TRUE]

MutGiveUp(lib) ==
  /\ phase' = [phase EXCEPT ![lib] = "failed"]
  /\ UNCHANGED <<image, pos, area, memory, info, refused, faulted>>

\* Every failure behind cl_reserve_space unmaps the area and frees the handle.
GiveUp(lib) ==
  /\ phase' = [phase EXCEPT ![lib] = "failed"]
  /\ area' = [area EXCEPT ![lib] = NoArea]
  /\ memory' = [memory EXCEPT ![lib] = NoArea]
  /\ UNCHANGED <<image, pos, info, refused, faulted>>

\* A write to a page that may not be written, or a call of one that may not be
\* executed.
Fault == faulted' = TRUE /\ UNCHANGED <<image, phase, pos, area, memory, info>>

\* What a call that may be refused leaves of the protections.
Unless(no, lib) == refused' = [refused EXCEPT ![lib] = @ \/ no]

InBounds(img, s) == s.filesz > 0 => s.offset + s.filesz <= img.len

\* What a segment's pages hold once it was mapped with MAP_FIXED and copied.
Segment(img, s) ==
  [w \in WordsOf(PagesOf(s)) |->
     IF w >= s.vaddr /\ w < s.vaddr + s.filesz THEN Content(img, s.offset + (w - s.vaddr)) ELSE Zero]

\* A segment that is mapped: readable and writable for the copy, then with its
\* own protection, unless mprotect is refused.
MapSegment(lib, s) ==
  /\ area[lib] # NoArea
  /\ InBounds(image[lib], s)
  /\ memory' = [memory EXCEPT ![lib] = Over(Segment(image[lib], s), @)]
  /\ \E kept \in BOOLEAN :
       /\ area' = [area EXCEPT ![lib] = Over([p \in PagesOf(s) |-> IF kept THEN {"r", "w"} ELSE s.flags], @)]
       /\ Unless(kept, lib)
  /\ pos' = [pos EXCEPT ![lib] = @ + 1]
  /\ UNCHANGED <<image, phase, info, faulted>>

\* A segment the 64-bit build takes for mapped: the copy goes to pages without
\* any right; where there is nothing to copy the reserved pages serve as well.
\* The head comes first and has content, so behind an invalid base the first
\* copy faults.
MissSegment(lib, s) ==
  /\ image[lib].wide
  /\ InBounds(image[lib], s)
  /\ Unless(TRUE, lib)
  /\ \/ s.filesz > 0 /\ Fault
     \/ /\ s.filesz = 0 /\ area[lib] # NoArea
        /\ pos' = [pos EXCEPT ![lib] = @ + 1]
        /\ memory' = [memory EXCEPT ![lib] = Over(Segment(image[lib], s), @)]
        /\ \E flags \in {{}, s.flags} :
             area' = [area EXCEPT ![lib] = Over([p \in PagesOf(s) |-> flags], @)]
        /\ UNCHANGED <<image, phase, info, faulted>>

\* cl_load_segments, one header a step; it gives up when the copy would run out
\* of the file, or when it sees that mmap failed.
LoadSegment(lib) ==
  /\ phase[lib] = "load"
  /\ pos[lib] \in DOMAIN image[lib].ph
  /\ LET s == image[lib].ph[pos[lib]] IN
     \/ /\ s.type # "load"
        /\ pos' = [pos EXCEPT ![lib] = @ + 1]
        /\ UNCHANGED <<image, phase, area, memory, info, refused, faulted>>
     \/ /\ s.type = "load"
        /\ ~InBounds(image[lib], s) \/ ~image[lib].wide
        /\ GiveUp(lib)
     \/ s.type = "load" /\ MapSegment(lib, s)
     \/ s.type = "load" /\ MissSegment(lib, s)

\* The first PT_DYNAMIC only; without one nothing is parsed.
Dynamic(img) ==
  IF \E i \in DOMAIN img.ph : img.ph[i].type = "dynamic" THEN img.dynamic ELSE [t \in {} |-> 0]

\* cl_parse_dynamic; a tag that is missing leaves its field 0, a size without a
\* pointer counts entries of nothing.
Parsed(img) ==
  LET d == Dynamic(img)
      Size(tag) == IF tag \in DOMAIN d THEN d[tag] ELSE 0
      Table(tag, size, entries) == IF tag \in DOMAIN d THEN SubSeq(entries, 1, Size(size)) ELSE <<>>
  IN  [tags |-> DOMAIN d, strsz |-> Size("strsz"), init |-> Size("init"),
       array |-> Size("init_array"), count |-> Size("init_arraysz"),
       rela |-> Table("rela", "relasz", img.rela),
       plt |-> Table("jmprel", "pltrelsz", img.plt)]

ParseDynamic(lib) ==
  /\ phase[lib] = "load"
  /\ pos[lib] > Len(image[lib].ph)
  /\ info' = [info EXCEPT ![lib] = Parsed(image[lib])]
  /\ phase' = [phase EXCEPT ![lib] = "parse"]
  /\ UNCHANGED <<image, pos, area, memory, refused, faulted>>

-----------------------------------------------------------------------------
(* Symbols and relocations *)

\* cl_strtab_get
NameOf(lib, s) == IF "strtab" \in info[lib].tags /\ s.st_name < info[lib].strsz
                  THEN image[lib].strtab[s.st_name] ELSE ""

NotFound == <<"none", 0>>

\* cl_init_sys_libs
SysNames == <<"libz", "liblog", "libdl", "libm">>

\* The first of the system libraries that has the name, opened in their order.
Homes(name) == {i \in 1 .. 4 : name \in SysLibs[i]}
HomeOf(name) == SysNames[CHOOSE i \in Homes(name) : \A j \in Homes(name) : i <= j]

\* cl_resolve_sym; the 32-bit build asks RTLD_DEFAULT only.
Resolve(lib, sym) ==
  LET s == image[lib].syms[sym]
      name == NameOf(lib, s)
  IN  CASE name \in Default -> <<"default", name>>
        [] name \notin Default /\ ~image[lib].wide -> NotFound
        [] name \notin Default /\ image[lib].wide /\ s.value # 0 -> <<"image", s.value>>
        [] name \notin Default /\ image[lib].wide /\ s.value = 0 ->
             IF Homes(name) = {} THEN NotFound ELSE <<HomeOf(name), name>>

Symbolic == {"glob_dat", "jump_slot", "abs"}
Known == Symbolic \cup {"relative"}

Plus(v, n) == IF n = 0 THEN v ELSE <<v[1], v[2], n>>

\* cl_relocate_one: the word it stores, from the word that is there.  The
\* 32-bit table has no addends: its callers pass 0, and only RELATIVE adds to
\* the word in place.  Types that are not known change nothing.
Relocated(lib, r, old) ==
  LET wide == image[lib].wide
      addend == IF wide THEN r.addend ELSE 0
  IN  CASE r.type = "relative" -> <<"image", IF wide THEN addend ELSE old[2]>>
        [] r.type \in {"glob_dat", "jump_slot"} -> Resolve(lib, r.sym)
        [] r.type = "abs" -> Plus(Resolve(lib, r.sym), addend)
        [] OTHER -> old

Entries(lib) == info[lib].rela \o info[lib].plt

\* cl_relocate first makes the whole area writable; a refusal leaves the pages
\* from some page on as they were.
OpenArea(lib) ==
  /\ phase[lib] = "parse"
  /\ phase' = [phase EXCEPT ![lib] = "relocate"]
  /\ pos' = [pos EXCEPT ![lib] = 1]
  /\ \E kept \in {{}} \cup {{p \in DOMAIN area[lib] : p >= first} : first \in DOMAIN area[lib]} :
       /\ area' = [area EXCEPT ![lib] = [p \in DOMAIN @ |-> IF p \in kept THEN @[p] ELSE {"r", "w"}]]
       /\ Unless(kept # {}, lib)
  /\ UNCHANGED <<image, memory, info, faulted>>

Writable(lib, w) == PageOf(w) \in DOMAIN area[lib] /\ "w" \in area[lib][PageOf(w)]

RelocateOne(lib) ==
  /\ phase[lib] = "relocate"
  /\ pos[lib] \in DOMAIN Entries(lib)
  /\ LET r == Entries(lib)[pos[lib]] IN
     \/ /\ r.type \in Symbolic
        /\ Resolve(lib, r.sym) = NotFound
        /\ GiveUp(lib)
     \/ /\ r.type \in Symbolic => Resolve(lib, r.sym) # NotFound
        /\ r.type \in Known => Writable(lib, r.at)
        /\ memory' = [memory EXCEPT ![lib] = [@ EXCEPT ![r.at] = Relocated(lib, r, memory[lib][r.at])]]
        /\ pos' = [pos EXCEPT ![lib] = @ + 1]
        /\ UNCHANGED <<image, phase, area, info, refused, faulted>>
     \/ /\ r.type \in Symbolic => Resolve(lib, r.sym) # NotFound
        /\ r.type \in Known /\ ~Writable(lib, r.at)
        /\ Fault /\ UNCHANGED refused

\* cl_protect_segments in the order of the headers: the later of two segments
\* of a page wins.  Segments in kept are refused.
Protected(lib, kept) ==
  LET ph == image[lib].ph
      Holders(p) == {i \in LoadsOf(image[lib]) \ kept : p \in PagesOf(ph[i])}
  IN  [p \in DOMAIN area[lib] |->
         IF Holders(p) = {} THEN area[lib][p]
         ELSE ph[CHOOSE i \in Holders(p) : \A j \in Holders(p) : i >= j].flags]

\* Then the handle is returned.
ProtectSegments(lib) ==
  /\ phase[lib] = "relocate"
  /\ pos[lib] > Len(Entries(lib))
  /\ \E kept \in SUBSET LoadsOf(image[lib]) :
       /\ area' = [area EXCEPT ![lib] = Protected(lib, kept)]
       /\ Unless(kept # {}, lib)
  /\ phase' = [phase EXCEPT ![lib] = "open"]
  /\ UNCHANGED <<image, pos, memory, info, faulted>>

LinkerStep(lib) ==
  \/ LoadSegment(lib)
  \/ ParseDynamic(lib)
  \/ OpenArea(lib)
  \/ RelocateOne(lib)
  \/ ProtectSegments(lib)

-----------------------------------------------------------------------------
(* The calls on a handle *)

\* cl_dlsym by cl_find_symbol: up to MaxSymbols entries, nameless ones skipped,
\* to the first name behind the string table.
DlSym(lib, name) ==
  LET syms == image[lib].syms
      Seen == {i \in DOMAIN syms : i <= MaxSymbols
                 /\ \A j \in 1 .. i - 1 : syms[j].st_name < info[lib].strsz}
      Hits == {i \in Seen : syms[i].st_name # 0 /\ syms[i].defined /\ NameOf(lib, syms[i]) = name}
  IN  IF {"symtab", "strtab"} \subseteq info[lib].tags /\ Hits # {}
      THEN <<"image", syms[CHOOSE i \in Hits : \A j \in Hits : i <= j].value>>
      ELSE NotFound

\* cl_call_constructors: DT_INIT, then the array as it is in memory.
Constructors(lib) ==
  LET i == info[lib]
      array == [k \in 1 .. i.count |-> memory[lib][i.array + k - 1]]
  IN  (IF i.init # 0 THEN <<(<<"image", i.init>>)>> ELSE <<>>) \o array

\* The entries of the array that are passed over.
NoFunction == {Zero, <<"num", -1>>}

DlClose(lib) ==
  /\ phase' = [phase EXCEPT ![lib] = "closed"]
  /\ area' = [area EXCEPT ![lib] = NoArea]
  /\ memory' = [memory EXCEPT ![lib] = NoArea]
  /\ UNCHANGED <<image, pos, info, refused>>

-----------------------------------------------------------------------------
(* What is required of the linker *)

Tables(img) == Range(img.rela) \cup Range(img.plt)
ImageWords(img) == WordsOf(ImagePages(img))

\* A word before relocation: the file's content of its segment, or zero behind it.
PlainAt(img, w) ==
  LET Own == {i \in LoadsOf(img) : w >= img.ph[i].vaddr /\ w < img.ph[i].vaddr + img.ph[i].filesz}
  IN  IF Own = {} THEN Zero
      ELSE LET s == img.ph[CHOOSE i \in Own : TRUE]
           IN  Content(img, s.offset + (w - s.vaddr))

\* The address a symbolic relocation asks for.
BoundTo(img, r) ==
  LET s == img.syms[r.sym]
      name == img.strtab[s.st_name]
      home == CASE name \in Default -> <<"default", name>>
                [] name \notin Default /\ s.value # 0 -> <<"image", s.value>>
                [] OTHER -> <<SysNames[CHOOSE i \in 1 .. 4 : name \in SysLibs[i]
                                /\ \A j \in 1 .. i - 1 : name \notin SysLibs[j]], name>>
  IN  IF r.type = "abs" THEN Plus(home, r.addend) ELSE home

\* What an object asks a word to be: at the places its tables name the address
\* they ask for, the plain word everywhere else.
WantedAt(img, w) ==
  LET At == {r \in Tables(img) : r.at = w /\ r.type \in Known}
      r == CHOOSE x \in At : TRUE
  IN  CASE At = {} -> PlainAt(img, w)
        [] At # {} /\ r.type \in Symbolic -> BoundTo(img, r)
        [] At # {} /\ r.type \notin Symbolic -> <<"image", IF img.wide THEN r.addend ELSE PlainAt(img, w)[2]>>

\* A function of the image at an address that may be executed.
Lands(img, f) ==
  /\ f[1] = "image"
  /\ \E i \in LoadsOf(img) : PageOf(f[2]) \in PagesOf(img.ph[i]) /\ "x" \in img.ph[i].flags

Segments == [type : STRING, vaddr : Nat, offset : Nat, filesz : Nat, memsz : Nat, flags : SUBSET {"r", "w", "x"}]
Relocations == [type : STRING, at : Nat, sym : Nat, addend : Int]
Symbols == [st_name : Nat, defined : BOOLEAN, value : Nat]

\* The parts of an object.
IsImage(img) ==
  /\ img.elf \in BOOLEAN /\ img.wide \in BOOLEAN /\ img.len \in Nat /\ img.phend \in Nat
  /\ img.ph \in Seq(Segments)
  /\ img.rela \in Seq(Relocations) /\ img.plt \in Seq(Relocations) /\ img.syms \in Seq(Symbols)
  /\ \A t \in DOMAIN Dynamic(img) : Dynamic(img)[t] \in Nat

\* What the NDK's linker sees to when it writes an object that exports names:
\* segments share no page and the head is in the first, that is only read; the dynamic
\* section gives the lengths of the tables; one relocation to a word, of the
\* image, by a symbol with a name; constructors and exported functions lie in
\* code.
WellLinked(img, names) ==
  LET d == Parsed(img) IN
  /\ \A i, j \in LoadsOf(img) : i # j => PagesOf(img.ph[i]) \cap PagesOf(img.ph[j]) = {}
  /\ \A i \in LoadsOf(img) : /\ img.ph[i].filesz <= img.ph[i].memsz
                             /\ 0 \in PagesOf(img.ph[i]) => img.ph[i].flags = {"r"}
  /\ \E i \in LoadsOf(img) : /\ 0 \in PagesOf(img.ph[i]) /\ img.ph[i].filesz > 0
                             /\ \A j \in LoadsOf(img) : i <= j
  /\ d.rela = img.rela /\ d.plt = img.plt
  /\ DOMAIN img.strtab = 1 .. d.strsz - 1 \/ d.tags = {}
  /\ \A r, q \in Tables(img) : {r.type, q.type} \subseteq Known /\ r.at = q.at => r = q
  /\ \A r \in Tables(img) : r.type \in Known => r.at \in ImageWords(img)
  /\ \A r \in Tables(img) : ~img.wide => r.addend = 0
  /\ \A r \in Tables(img) : r.type \in Symbolic =>
       "strtab" \in d.tags /\ r.sym \in DOMAIN img.syms /\ img.syms[r.sym].st_name < d.strsz
  /\ d.init # 0 => Lands(img, <<"image", d.init>>)
  /\ \A w \in d.array .. d.array + d.count - 1 :
       w \in ImageWords(img) \ {0} /\ (WantedAt(img, w) \in NoFunction \/ Lands(img, WantedAt(img, w)))
  /\ \A s \in Range(img.syms) :
       s.defined /\ s.st_name \in DOMAIN img.strtab /\ img.strtab[s.st_name] \in names
         => Lands(img, <<"image", s.value>>)

\* A page is never writable and executable at once, unless its segment is,
\* whatever mprotect is refused on the way.
WriteXorExec ==
  \A lib \in Libs : \A p \in DOMAIN area[lib] : {"w", "x"} \subseteq area[lib][p] =>
    \E i \in LoadsOf(image[lib]) : p \in PagesOf(image[lib].ph[i]) /\ image[lib].ph[i].flags = area[lib][p]

\* An image without a handle leaves no mapping behind: each way out of
\* cl_dlopen_mem after cl_reserve_space unmaps what it reserved.
FailureUnmaps ==
  \A lib \in Libs : phase[lib] \in {"none", "failed", "closed"} => area[lib] = NoArea

\* A page is used against its protection only where the kernel refused a call
\* that was not looked at: the steps themselves always ask for what they need.
FaultIsRefused == faulted => \E lib \in Libs : refused[lib]
=============================================================================
