------------------------------ MODULE SoLoader ------------------------------
(***************************************************************************)
(* How the native part comes into the process: bootstrap of xcj_loader.c   *)
(* finds the encrypted library in the APK and loads it with the linker of  *)
(* CustomLinker, or through a memory file when that fails; one of its      *)
(* constructors, inner_loader.c, loads a second library the same way.      *)
(*                                                                         *)
(* The APK is a sequence of cells: [obj, at, magic] is the at-th word of   *)
(* the encrypted object obj (0: anything else), and magic > 0 where the    *)
(* bytes read as the trailer "XCJSO1" with that length.                    *)
(***************************************************************************)
EXTENDS CustomLinker

CONSTANTS
  Apks,         \* the contents of the APK
  Objects,      \* the shared objects an APK may carry, a sequence
  Inners,       \* what INNER_ENC_DATA may decrypt to
  InnerInit     \* the value of inner_loader_init in the objects


VARIABLES
  apk,        \* the mapped file
  enc,        \* the object in INNER_ENC_DATA
  step,       \* where bootstrap is
  scan,       \* the position of locate_and_decrypt
  found,      \* the object it returned, 0 before
  plain,      \* the buffers that hold decrypted bytes
  queue,      \* for each library the constructors still to call
  inner,      \* where inner_loader_load is
  handle,     \* g_inner_handle # NULL
  ptr,        \* the four g_inner_ function pointers
  via,        \* "cl" or "memfd": how on_load was found
  calls       \* the calls into the images, in order

loaderVars == <<apk, enc, step, scan, found, plain, queue, inner, handle, ptr, via, calls>>
nativeVars == <<linkerVars, loaderVars>>

InnerNames == {"inner_get_version", "inner_verify_hash", "inner_env_check", "inner_self_check"}
\* The names the loader asks the images for.
Called == InnerNames \cup {"JNI_OnLoad", "self_integrity_set_cl_info", "self_verify_set_cl_info"}
Steps == {"idle", "scan", "link", "ctors", "memfd", "system", "run", "erase", "done"}

\* The object as long as the frame said.
Cut(o, len) == [Objects[o] EXCEPT !.len = IF @ < len THEN @ ELSE len]

\* What cl_dlopen_mem may be handed.
Images == (UNION {{Cut(o, n) : n \in 0 .. Objects[o].len} : o \in DOMAIN Objects}) \cup Inners

\* Cells of the APK and objects have their shape, and the objects are as the
\* build that makes the payload links them.
ASSUME LoaderAssumption ==
  /\ Libs = {"payload", "inner"}
  /\ \A o \in DOMAIN Objects : /\ "len" \in DOMAIN Objects[o] /\ Objects[o].len \in Nat \ {0}
                             /\ Objects[o].elf \in BOOLEAN
  /\ Objects \in Seq(Range(Objects))
  /\ \A a \in Apks : a \in Seq([obj : 0 .. Len(Objects), at : Nat, magic : Nat])
  /\ \A img \in Images : IsImage(img)
ASSUME LinkedAssumption == \A img \in Images : WellLinked(img, Called)

\* One process has one ABI: the libraries packed for it are of one width.
LoaderInit ==
  /\ LinkerInit
  /\ apk \in Apks /\ enc \in Inners
  /\ \A c \in Range(apk) : c.obj # 0 => Objects[c.obj].wide = enc.wide
  /\ step = "idle" /\ scan = 1 /\ found = 0
  /\ plain = {}
  /\ queue = [l \in Libs |-> <<>>] /\ inner = "none" /\ handle = FALSE
  /\ ptr = [n \in InnerNames |-> NotFound]
  /\ via = "none" /\ calls = <<>>

-----------------------------------------------------------------------------
(* locate_and_decrypt *)

\* bootstrap opens and maps the file; a missing path, open, fstat and mmap fail.
Bootstrap ==
  /\ step = "idle"
  /\ step' \in {"scan", "done"}
  /\ UNCHANGED <<linkerVars, apk, enc, scan, found, plain, queue, inner, handle, ptr, via, calls>>

\* so_cipher_extract on the frame in front of position i: the key stream starts
\* at the first cell, so what is decrypted from elsewhere is noise.
Extract(i) ==
  LET first == apk[i - apk[i].magic]
  IN  IF first.at = 1 THEN first.obj ELSE 0

Plausible(i) == apk[i].magic > 0 /\ apk[i].magic <= Len(apk) /\ i > apk[i].magic

MutIsElf(i) == Extract(i) # 0

\* Whether plain starts with the ELF magic.
IsElf(i) == Extract(i) # 0 /\ Objects[Extract(i)].elf

MutStay == IF apk[scan].magic > Len(apk) THEN scan ELSE scan + 1
\* The loop of locate_and_decrypt goes on at the next byte.
NextPos == scan + 1

\* One position: no trailer, an implausible one, or a frame that is no ELF are
\* passed over, the key and the buffer cleared.
ScanOn ==
  /\ step = "scan"
  /\ scan \in DOMAIN apk
  /\ Plausible(scan) => ~IsElf(scan)
  /\ scan' = NextPos
  /\ UNCHANGED <<linkerVars, apk, enc, step, found, plain, queue, inner, handle, ptr, via, calls>>

\* The first frame that decrypts to an ELF goes to cl_dlopen_mem.
ScanHit ==
  /\ step = "scan"
  /\ scan \in DOMAIN apk
  /\ Plausible(scan) /\ IsElf(scan)
  /\ found' = Extract(scan)
  /\ plain' = plain \cup {"so"}
  /\ DlOpen("payload", Cut(Extract(scan), apk[scan].magic))
  /\ step' = "link"
  /\ UNCHANGED <<apk, enc, scan, queue, inner, handle, ptr, via, calls>>

\* malloc failed at a plausible trailer, or the file ended: bootstrap returns -1.
ScanEnd ==
  /\ step = "scan"
  /\ scan \in DOMAIN apk => Plausible(scan)
  /\ step' = "done"
  /\ UNCHANGED <<linkerVars, apk, enc, scan, found, plain, queue, inner, handle, ptr, via, calls>>

-----------------------------------------------------------------------------
(* Loading the payload *)

LinkPayload ==
  /\ step = "link"
  /\ LinkerStep("payload")
  /\ UNCHANGED loaderVars

LinkFailed ==
  /\ step = "link"
  /\ phase["payload"] = "failed"
  /\ step' = "memfd"
  /\ UNCHANGED <<linkerVars, apk, enc, scan, found, plain, queue, inner, handle, ptr, via, calls>>

StartConstructors ==
  /\ step = "link"
  /\ phase["payload"] = "open"
  /\ queue' = [queue EXCEPT !["payload"] = Constructors("payload")]
  /\ step' = "ctors"
  /\ UNCHANGED <<linkerVars, apk, enc, scan, found, plain, inner, handle, ptr, via, calls>>

InnerBusy == inner \in {"decrypt", "link", "ctors"}

Executes(lib, f) ==
  f[1] = "image" /\ PageOf(f[2]) \in DOMAIN area[lib] /\ "x" \in area[lib][PageOf(f[2])]

\* Calls into the images; one whose page may not be executed ends the process.
MakeCalls(cs) ==
  /\ calls' = calls \o cs
  /\ faulted' = \E c \in Range(cs) : ~Executes(c[1], c[2])

\* The call, unless the entry is no function.
CallOf(lib, f, none) == IF f \in none THEN <<>> ELSE <<(<<lib, f>>)>>

RunConstructor ==
  LET f == Head(queue["payload"]) IN
  /\ step = "ctors"
  /\ queue["payload"] # <<>> /\ ~InnerBusy
  /\ MakeCalls(CallOf("payload", f, NoFunction))
  /\ inner' = IF f = <<"image", InnerInit>> THEN "decrypt" ELSE inner
  /\ queue' = [queue EXCEPT !["payload"] = Tail(@)]
  /\ UNCHANGED <<imageVars, apk, enc, step, scan, found, plain, handle, ptr, via>>

\* The base and size go to self_integrity and self_verify, then JNI_OnLoad is
\* looked up; without it the image is closed again.
AfterConstructors ==
  /\ step = "ctors"
  /\ queue["payload"] = <<>> /\ ~InnerBusy
  /\ MakeCalls(CallOf("payload", DlSym("payload", "self_integrity_set_cl_info"), {NotFound})
                 \o CallOf("payload", DlSym("payload", "self_verify_set_cl_info"), {NotFound}))
  /\ \/ /\ DlSym("payload", "JNI_OnLoad") # NotFound
        /\ step' = "run" /\ via' = "cl"
        /\ UNCHANGED imageVars
     \/ /\ DlSym("payload", "JNI_OnLoad") = NotFound
        /\ step' = "memfd" /\ UNCHANGED via
        /\ DlClose("payload")
  /\ UNCHANGED <<apk, enc, scan, found, plain, queue, inner, handle, ptr>>

\* load_so_from_mem: the system's linker maps a second copy, with statics and
\* constructors of its own.  What an inner library of the first copy maps stays
\* mapped and has no owner any more.
LoadSoFromMem ==
  /\ step = "memfd"
  /\ \/ /\ step' = "done"
        /\ plain' = plain \ {"so"}
        /\ UNCHANGED <<linkerVars, inner, handle, ptr>>
     \/ /\ step' = "system"
        /\ inner' = "decrypt" /\ handle' = FALSE
        /\ ptr' = [n \in InnerNames |-> NotFound]
        /\ phase' = [phase EXCEPT !["inner"] = "none"]
        /\ area' = [area EXCEPT !["inner"] = NoArea]
        /\ memory' = [memory EXCEPT !["inner"] = NoArea]
        /\ UNCHANGED <<plain, image, pos, info, refused, faulted>>
  /\ UNCHANGED <<apk, enc, scan, found, queue, via, calls>>

AfterSystem ==
  /\ step = "system"
  /\ ~InnerBusy
  /\ \/ /\ Objects[found].onLoad
        /\ step' = "run" /\ via' = "memfd"
        /\ UNCHANGED plain
     \/ /\ ~Objects[found].onLoad
        /\ step' = "done" /\ UNCHANGED via
        /\ plain' = plain \ {"so"}
  /\ UNCHANGED <<linkerVars, apk, enc, scan, found, queue, inner, handle, ptr, calls>>

\* The buffer is cleared, then JNI_OnLoad runs; its answer is only logged.
RunOnLoad ==
  /\ step = "run"
  /\ plain' = plain \ {"so"}
  /\ MakeCalls(CallOf("payload", IF via = "cl" THEN DlSym("payload", "JNI_OnLoad") ELSE NotFound, {NotFound}))
  /\ step' = "erase"
  /\ UNCHANGED <<imageVars, apk, enc, scan, found, queue, inner, handle, ptr, via>>

Erased == <<"erased", 0>>

\* The head of the image is made writable, overwritten, and its first page made
\* readable only; neither answer of mprotect is looked at.
EraseHeader ==
  /\ step = "erase"
  /\ step' = "done"
  /\ \/ /\ via = "cl"
        /\ \E kept \in SUBSET {"open", "close"} :
             LET opened == IF "open" \in kept THEN area["payload"][0] ELSE {"r", "w"}
             IN  /\ Unless(kept # {}, "payload")
                 /\ IF "w" \in opened
                    THEN
                      /\ memory' = [memory EXCEPT !["payload"] = [@ EXCEPT ![0] = Erased]]
                      /\ area' = [area EXCEPT !["payload"] =
                                    [@ EXCEPT ![0] = IF "close" \in kept THEN opened ELSE {"r"}]]
                      /\ UNCHANGED <<image, phase, pos, info, faulted>>
                    ELSE Fault
     \/ via # "cl" /\ UNCHANGED linkerVars
  /\ UNCHANGED <<apk, enc, scan, found, plain, queue, inner, handle, ptr, via, calls>>

-----------------------------------------------------------------------------
(* inner_loader_load, a constructor of the payload *)

InnerDecrypt ==
  /\ inner = "decrypt"
  /\ \/ /\ inner' = "failed"
        /\ UNCHANGED <<linkerVars, plain>>
     \/ /\ enc.elf
        /\ plain' = plain \cup {"inner"}
        /\ inner' = "link"
        /\ DlOpen("inner", enc)
  /\ UNCHANGED <<apk, enc, step, scan, found, queue, handle, ptr, via, calls>>

LinkInner ==
  /\ inner = "link"
  /\ LinkerStep("inner")
  /\ UNCHANGED loaderVars

MutInnerFailed ==
  /\ inner = "link"
  /\ phase["inner"] = "failed"
  /\ inner' = "failed" /\ handle' = FALSE
  /\ UNCHANGED <<linkerVars, apk, enc, step, scan, found, plain, queue, ptr, via, calls>>

InnerFailed ==
  /\ inner = "link"
  /\ phase["inner"] = "failed"
  /\ inner' = "failed" /\ handle' = FALSE
  /\ plain' = plain \ {"inner"}
  /\ UNCHANGED <<linkerVars, apk, enc, step, scan, found, queue, ptr, via, calls>>

InnerConstructors ==
  /\ inner = "link"
  /\ phase["inner"] = "open"
  /\ queue' = [queue EXCEPT !["inner"] = Constructors("inner")]
  /\ inner' = "ctors" /\ handle' = TRUE
  /\ UNCHANGED <<linkerVars, apk, enc, step, scan, found, plain, ptr, via, calls>>

RunInnerConstructor ==
  /\ inner = "ctors"
  /\ queue["inner"] # <<>>
  /\ MakeCalls(CallOf("inner", Head(queue["inner"]), NoFunction))
  /\ queue' = [queue EXCEPT !["inner"] = Tail(@)]
  /\ UNCHANGED <<imageVars, apk, enc, step, scan, found, plain, inner, handle, ptr, via>>

\* The buffer is cleared, the four pointers are looked up; when one of the two
\* that are needed is missing the image is closed, the pointers keep their values.
InnerBind ==
  LET got == [n \in InnerNames |-> DlSym("inner", n)]
      whole == got["inner_get_version"] # NotFound /\ got["inner_verify_hash"] # NotFound
  IN
  /\ inner = "ctors"
  /\ queue["inner"] = <<>>
  /\ plain' = plain \ {"inner"}
  /\ ptr' = got
  /\ handle' = whole
  /\ MakeCalls(CallOf("inner", IF whole THEN got["inner_get_version"] ELSE NotFound, {NotFound}))
  /\ IF whole THEN UNCHANGED imageVars ELSE DlClose("inner")
  /\ inner' = IF whole THEN "bound" ELSE "failed"
  /\ UNCHANGED <<apk, enc, step, scan, found, queue, via>>

MutCallable(n) == ptr[n] # NotFound

\* validator_core.c asks inner_loader_is_loaded before it calls through the
\* pointers; inner_loader_env_check and inner_loader_verify_hash look for NULL.
Callable(n) == handle /\ ptr[n] # NotFound

\* A round of the checks, once JNI_OnLoad ran.
UseInner ==
  /\ step = "erase"
  /\ \E n \in {"inner_verify_hash", "inner_env_check"} :
       /\ Callable(n)
       /\ <<"inner", ptr[n]>> \notin {calls[i] : i \in DOMAIN calls}
       /\ MakeCalls(<<(<<"inner", ptr[n]>>)>>)
  /\ UNCHANGED <<imageVars, apk, enc, step, scan, found, plain, queue, inner, handle, ptr, via>>

\* bootstrap returned, or the process is gone.
Done == (step = "done" \/ faulted) /\ UNCHANGED nativeVars

LoaderStep ==
  \/ Bootstrap \/ ScanOn \/ ScanHit \/ ScanEnd
  \/ LinkPayload \/ LinkFailed \/ StartConstructors \/ RunConstructor \/ AfterConstructors
  \/ LoadSoFromMem \/ AfterSystem \/ RunOnLoad \/ EraseHeader
  \/ InnerDecrypt \/ LinkInner \/ InnerFailed \/ InnerConstructors \/ RunInnerConstructor \/ InnerBind
  \/ UseInner

LoaderNext == (~faulted /\ LoaderStep) \/ Done

\* One thread runs all of it and waits for nothing.
LoaderSpec == LoaderInit /\ [][LoaderNext]_nativeVars /\ WF_nativeVars(LoaderNext)

-----------------------------------------------------------------------------
(* Properties *)

LoaderTypeOK ==
  /\ refused \in [Libs -> BOOLEAN] /\ faulted \in BOOLEAN
  /\ phase \in [Libs -> Phases] /\ pos \in [Libs -> Nat]
  /\ \A l \in Libs : /\ area[l] \in [DOMAIN area[l] -> SUBSET {"r", "w", "x"}]
                     /\ DOMAIN memory[l] \subseteq WordsOf(DOMAIN area[l])
  /\ step \in Steps /\ scan \in 1 .. Len(apk) + 1 /\ found \in 0 .. Len(Objects)
  /\ plain \subseteq {"so", "inner"} /\ handle \in BOOLEAN
  /\ inner \in {"none", "decrypt", "link", "ctors", "bound", "failed"}
  /\ via \in {"none", "cl", "memfd"} /\ DOMAIN ptr = InnerNames /\ DOMAIN queue = Libs

\* Whenever cl_dlopen_mem gave a handle, every word of every segment holds what
\* the object asks for (its content, zeros, or the address its relocation names;
\* only the erased head differs), whatever the kernel refused; and where it
\* refused nothing every page has its segment's protection.
LinkedAsWanted ==
  \A lib \in Libs : phase[lib] = "open" =>
    /\ \A w \in ImageWords(image[lib]) :
         memory[lib][w] = WantedAt(image[lib], w) \/ (w = 0 /\ memory[lib][w] = Erased)
    /\ refused[lib] \/ \A i \in LoadsOf(image[lib]) : \A p \in PagesOf(image[lib].ph[i]) :
                         area[lib][p] = image[lib].ph[i].flags

\* The images that are mapped are linked in full, protected as their segments ask
\* where mprotect is granted, and unmapped when a step is seen to fail; the
\* process faults only where a refusal was not seen.
ImagesAreSound == LoaderTypeOK /\ WriteXorExec /\ FailureUnmaps /\ LinkedAsWanted /\ FaultIsRefused

\* Every constructor, JNI_OnLoad and inner function is called at an address of
\* an image that is mapped at that moment, in a page that may be executed; the
\* latter unless the kernel refused that image a protection.
CallsLand ==
  [][\A i \in Len(calls) + 1 .. Len(calls') :
       LET lib == calls'[i][1]
           f == calls'[i][2]
       IN  /\ f[1] = "image" /\ PageOf(f[2]) \in DOMAIN area[lib]
           /\ refused[lib] \/ "x" \in area[lib][PageOf(f[2])]]_nativeVars

\* The decrypted library is cleared on every way bootstrap and inner_loader_load
\* return by, and has been when the header is erased or an inner pointer is used.
PlainIsWiped ==
  /\ step \in {"erase", "done"} => plain = {}
  /\ inner \in {"bound", "failed"} => "inner" \notin plain

\* A frame as the packer writes it: all the cells of one object, then a trailer
\* with their number.
Frame(i, o) ==
  /\ apk[i].magic = Objects[o].len /\ i > apk[i].magic
  /\ \A k \in 1 .. apk[i].magic :
       apk[i - apk[i].magic + k - 1].obj = o /\ apk[i - apk[i].magic + k - 1].at = k

\* The word the trailer at i points back to is the first one of a library.
LeadsToElf(i) ==
  /\ i > apk[i].magic /\ apk[i].magic > 0
  /\ apk[i - apk[i].magic].at = 1
  /\ \E o \in DOMAIN Objects : apk[i - apk[i].magic].obj = o /\ Objects[o].elf

\* An APK that carries one packed library and memory enough: that library is
\* found in its full length, whatever else in the file reads as a trailer.
PackedIsFound ==
  \A i \in DOMAIN apk, o \in DOMAIN Objects :
    Frame(i, o) /\ Objects[o].elf /\ (\A j \in DOMAIN apk : LeadsToElf(j) => j = i)
    => (step \notin {"idle", "scan", "done"} => found = o /\ image["payload"].len = Objects[o].len)
       /\ (step = "scan" => scan <= i)

\* bootstrap returns, whatever is seen to fail on the way: it goes round no loop
\* for ever and waits for nothing.  What is not seen to fail may end the process.
Ends == <>(step = "done" \/ faulted)
=============================================================================
