------------------------------ MODULE X4Signals ------------------------------
(***************************************************************************)
(* What a round of the X4 engine can see of the process: the seven strong  *)
(* evidences of strong_evidence.c and the weak signals of weak_detector.c, *)
(* as functions of a state of /proc, and the search through a file read in *)
(* chunks on which several of them rest.                                   *)
(*                                                                         *)
(* A state of /proc is a record: hash is how the signature hash compares,  *)
(* tcp and tcp6 the lines <<port, state>> of the socket tables, maps the   *)
(* lines [name, perms, kb] of the memory map, stat the text of             *)
(* /proc/self/stat, tracer the TracerPid, redirect and vm the evidence     *)
(* bits of mmap_reader.c and vm_engine.c, gap the milliseconds one fstat   *)
(* takes, memfds the number of memfd descriptors.                          *)
(***************************************************************************)
EXTENDS Integers, Sequences

CONSTANTS
  OneRead,      \* the lines of the memory map that a single read returns
  Overlap       \* the bytes that the search keeps of one chunk for the next

ASSUME OneReadAssumption == OneRead \in Nat
ASSUME OverlapAssumption == Overlap \in Nat

Agent == {"frida-agent", "frida-gadget", "linjector"}
Fuzzy == {"frida-agent", "frida-gadget", "frida", "gum-", "gmain"}
JitNames == {"dalvik-jit-code-cache", "dalvik-code-cache", "anon:dalvik"}

-----------------------------------------------------------------------------
(***************************************************************************)
(* The search.  text is what the file holds, cuts the lengths that its     *)
(* reads return.                                                           *)
(***************************************************************************)
Occurs(pattern, text) ==
  \E i \in 1 .. Len(text) - Len(pattern) + 1 :
    SubSeq(text, i, i + Len(pattern) - 1) = pattern

MutCarry(buf) == <<>>
Carry(buf) ==
  IF Len(buf) > Overlap THEN SubSeq(buf, Len(buf) - Overlap + 1, Len(buf)) ELSE buf

\* x4_search_maps: what is kept of the chunks before, and whether one of them held
\* the pattern, after n reads that returned the first ends[n] characters.
SearchIn(pattern, text, ends) ==
  LET end(n) == IF n = 0 THEN 0 ELSE ends[n]
      buf[n \in 1 .. Len(ends)] ==
        (IF n = 1 THEN <<>> ELSE Carry(buf[n - 1])) \o SubSeq(text, end(n - 1) + 1, end(n))
  IN  \E n \in 1 .. Len(ends) : Occurs(pattern, buf[n])

-----------------------------------------------------------------------------
(***************************************************************************)
(* Strong evidence.                                                        *)
(***************************************************************************)
\* A path or a hash that x4_init was not given is no evidence, nor is equality.
SignatureHash(p) == p.hash = "differs"

\* The class loader bridge is a stub.
CreatorClassloader(p) == FALSE

\* A line with the port and, after it, the state of a listening socket; the
\* second table is read when the first has none.
ListensOn(table) == \E line \in table : line = <<"5D8A", "0A">>
Port23946(p) == ListensOn(p.tcp) \/ ListensOn(p.tcp6)

Named(p, names) == \E i \in 1 .. Len(p.maps) : p.maps[i].name \in names
FridaAgentMaps(p) == Named(p, Agent)

\* stat reads "pid (comm) state ...": the character after the parenthesis is taken
\* for the state, and it is the space before it.
AfterName(p) == <<" ", p.stat>>[1]
StateAndTracer(p) == AfterName(p) \in {"T", "t"} /\ p.tracer # 0

FdRedirect(p) == p.redirect
VmSelfRef(p) == p.vm

\* check_all_strong_evidence: the first switched-on check that hits.
Switches == {"sig_hash", "creator", "port", "frida", "tracer", "fd", "vm"}
StrongEvidence(p, on) ==
  \/ "sig_hash" \in on /\ SignatureHash(p)
  \/ "creator" \in on /\ CreatorClassloader(p)
  \/ "port" \in on /\ Port23946(p)
  \/ "frida" \in on /\ FridaAgentMaps(p)
  \/ "tracer" \in on /\ StateAndTracer(p)
  \/ "fd" \in on /\ FdRedirect(p)
  \/ "vm" \in on /\ VmSelfRef(p)

-----------------------------------------------------------------------------
(***************************************************************************)
(* Weak signals.  base holds the baselines of x4_weak_baseline_init and of *)
(* x4_anti_dump_init, -1 while the latter was not called.                  *)
(***************************************************************************)
\* check_rwx and check_anon_dalvik read the memory map once.
Seen(p) == 1 .. (IF Len(p.maps) < OneRead THEN Len(p.maps) ELSE OneRead)

Rwx(p) == \E i \in Seen(p) : p.maps[i].perms = "rwx" /\ p.maps[i].name \notin JitNames
TimeDelta(p) == p.gap > 200
CreatorSysCl(p) == FALSE

DalvikKb(p) ==
  LET kb[n \in 0 .. Len(p.maps)] ==
        IF n = 0 THEN 0
        ELSE kb[n - 1] + (IF n \in Seen(p) /\ p.maps[n].name = "anon:dalvik"
                          THEN p.maps[n].kb ELSE 0)
  IN  kb[Len(p.maps)]

\* x4_check_memfd_count: how many more than when x4_anti_dump_init counted them.
MoreMemfds(p, dump) == IF dump < 0 \/ p.memfds < dump THEN 0 ELSE p.memfds - dump

Memfd(p, base) == MoreMemfds(p, base.dump) > base.memfd + 2
AnonDalvik(p, base) == base.dalvik > 0 /\ DalvikKb(p) > (base.dalvik * 3) \div 2
FridaSubstr(p) == Named(p, Fuzzy)
Zygisk(p) == Named(p, {"zygisk"})

Effective == {"inotify", "rwx", "slow", "creator_sys"}
Noise == {"memfd", "dalvik", "substr", "zygisk"}

\* The flag of the inotify thread is read and stays set.
Hits(p, base, inotify) ==
  {s \in Effective \cup Noise :
     \/ s = "inotify" /\ inotify = "triggered"
     \/ s = "rwx" /\ Rwx(p)
     \/ s = "slow" /\ TimeDelta(p)
     \/ s = "creator_sys" /\ CreatorSysCl(p)
     \/ s = "memfd" /\ Memfd(p, base)
     \/ s = "dalvik" /\ AnonDalvik(p, base)
     \/ s = "substr" /\ FridaSubstr(p)
     \/ s = "zygisk" /\ Zygisk(p)}

=============================================================================
