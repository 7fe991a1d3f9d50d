------------------------- MODULE ChunkUpload_proofs -------------------------
(***************************************************************************)
(* Proofs about ChunkUpload: what the document lists is stored, and what   *)
(* gets a fileId has every byte of its size, for any number of uploads,    *)
(* parts, handlers, lost answers, expiries and restarts.                   *)
(***************************************************************************)
EXTENDS ChunkUpload, FiniteSetTheorems, SequenceTheorems, WellFoundedInduction, TLAPS

-----------------------------------------------------------------------------
(***************************************************************************)
(* The browser's half of the invariant: what a call of chunkedUpload knows *)
(* of its parts, by where it is.                                           *)
(***************************************************************************)
\* While parts of the window are in flight none of them is done, the queue is
\* behind them all, and they are not more than the window holds.
WindowSound(k) ==
  /\ k.round = 0
  /\ \A c \in InFlight(k) : c <= k.next /\ c \notin k.completed
  /\ \A c \in k.completed : c <= k.next
  /\ Cardinality(InFlight(k)) <= MaxConcurrent

ClientSound(k) ==
  /\ k.phase = "new" => k = NewClient
  /\ k.phase \in {"complete", "done"} => InFlight(k) = {}
  /\ k.phase = "window" \/ (k.phase = "failed" /\ InFlight(k) # {}) => WindowSound(k)
  /\ k.phase = "repair" => \E c \in k.missing : InFlight(k) = {c}
  /\ k.phase = "complete" => k.round < MaxComplete

ClientsAreSound == \A u \in Uploads : ClientSound(client[u])

\* A request the browser waits for is one it has reason to wait for, and the only
\* one of its kind.
Waits(w) == handler[w] # Idle /\ handler[w].awaited
SameRequest(v, w) ==
  /\ handler[v].op = handler[w].op /\ handler[v].upload = handler[w].upload
  /\ handler[v].chunk = handler[w].chunk

AwaitedIsWanted ==
  /\ \A w \in Workers : handler[w] # Idle => client[handler[w].upload].phase # "new"
  /\ \A w \in Workers : Waits(w) =>
       IF handler[w].op = "chunk" THEN client[handler[w].upload].attempt[handler[w].chunk] > 0
                                  ELSE client[handler[w].upload].phase = "complete"
  /\ \A v, w \in Workers : Waits(v) /\ Waits(w) /\ SameRequest(v, w) => v = w

-----------------------------------------------------------------------------
(***************************************************************************)
(* The server's half.                                                      *)
(***************************************************************************)
OfChunk == {"open", "write1", "write2", "set", "received"}
OfComplete == {"read", "register", "remove", "delete", "joined", "missing"}

\* What a handler has in hand, by where it is.
HandlerSound(h) ==
  /\ h.pc \in OfChunk => h.op = "chunk"
  /\ h.pc \in OfComplete => h.op = "complete"
  /\ h.op = "complete" => h.chunk = 1
  /\ h.op = "complete" /\ h.pc = "get" => h.copied = <<>>
  /\ h.pc = "missing" => h.seen # Chunks
  /\ h.pc = "read" => Len(h.copied) < TotalChunks
  /\ h.pc = "register" => Len(h.copied) = TotalChunks

HandlersAreSound == \A w \in Workers : handler[w] # Idle => HandlerSound(handler[w])

At(w, pc, u, c) ==
  handler[w] # Idle /\ handler[w].pc = pc /\ handler[w].upload = u /\ handler[w].chunk = c

\* Part c of u is whole, or will be when those who write it have done.
Stored(u, c) ==
  \/ parts[u] = None
  \/ parts[u][c] = Whole
  \/ \E w \in Workers : At(w, "write1", u, c) \/ At(w, "write2", u, c)

\* Its file is there; its first piece is, or will be.
Made(u, c) == parts[u] = None \/ parts[u][c] # None
Begun(u, c) ==
  \/ parts[u] = None
  \/ 1 \in parts[u][c].good
  \/ \E v \in Workers : At(v, "write1", u, c)

\* A handler that notes a part has stored it, and so has everybody who is noted in
\* the document it read; whoever writes the second piece finds the first one, or
\* somebody about to write it.
Noted(w) ==
  LET u == handler[w].upload
      c == handler[w].chunk
  IN  /\ handler[w].pc \in {"open", "write1", "write2", "set"} =>
           \A d \in handler[w].seen : Stored(u, d)
      /\ handler[w].pc = "set" => Stored(u, c)
      /\ handler[w].pc \in {"write1", "write2"} => Made(u, c)
      /\ handler[w].pc = "write2" => Begun(u, c)

NotedIsStored == restarts = 0 => \A w \in Workers : handler[w] # Idle => Noted(w)

ListedIsStored ==
  restarts = 0 => \A u \in Uploads : meta[u] # None => \A c \in meta[u] : Stored(u, c)

BrowserInv == ClientsAreSound /\ AwaitedIsWanted
ServerInv == HandlersAreSound /\ NotedIsStored /\ ListedIsStored /\ RegisteredInFull
UploadInv == TypeOK /\ BrowserInv /\ ServerInv

-----------------------------------------------------------------------------
(***************************************************************************)
(* What the browser makes of a part that was received or lost: a call of   *)
(* chunkedUpload stays sound, and keeps its other parts in flight.         *)
(***************************************************************************)
LEMMA LeastExists ==
  ASSUME NEW S \in SUBSET Nat, S # {}
  PROVE  \E m \in S : \A n \in S : m <= n
<1> DEFINE R == {ss \in Nat \X Nat : ss[1] < ss[2]}
<1>1. IsWellFoundedOn(R, Nat)
  BY NatLessThanWellFounded DEF OpToRel
<1> HIDE DEF R
<1>2. PICK m \in S : \A n \in S : <<n, m>> \notin R
  BY <1>1, WFMin
<1>3. \A n \in S : ~(n < m)
  BY <1>2 DEF R
<1> QED BY <1>3

LEMMA ChunksAre == Chunks \subseteq Nat \ {0} /\ TotalChunks \in Nat \ {0} /\ 1 \in Chunks
                   /\ IsFiniteSet(Chunks)
<1>1. IsFiniteSet(1 .. TotalChunks)
  BY CountsAssumption, FS_Interval
<1> QED BY <1>1, CountsAssumption DEF Chunks

\* The next part to repair is one of those that are missing.
LEMMA FirstOfMissing ==
  ASSUME NEW S \in SUBSET Chunks, S # {}
  PROVE  (CHOOSE d \in S : \A e \in S : d <= e) \in S
<1>1. \E d \in S : \A e \in S : d <= e
  BY ChunksAre, LeastExists
<1> QED BY <1>1

LEMMA InFlightIs ==
  ASSUME NEW k \in Client
  PROVE  /\ InFlight(k) \in SUBSET Chunks /\ IsFiniteSet(InFlight(k))
         /\ Cardinality(InFlight(k)) \in Nat
         /\ k.attempt \in [Chunks -> 0 .. MaxRetries]
         /\ k.next \in 0 .. TotalChunks /\ k.completed \in SUBSET Chunks /\ k.missing \in SUBSET Chunks
         /\ k.round \in 0 .. MaxComplete /\ k.phase \in Phases
<1>1. InFlight(k) \in SUBSET Chunks
  BY DEF InFlight
<1> QED BY <1>1, ChunksAre, FS_Subset, FS_CardinalityType DEF Client

\* tryNext keeps to the window.
LEMMA FilledSound ==
  ASSUME NEW k \in Client, WindowSound(k)
  PROVE  /\ Filled(k) \in Client /\ WindowSound(Filled(k))
         /\ Filled(k).phase = k.phase
         /\ InFlight(k) \subseteq InFlight(Filled(k))
<1> DEFINE room == MaxConcurrent - Cardinality(InFlight(k))
           last == IF k.next + room < TotalChunks THEN k.next + room ELSE TotalChunks
           new == (k.next + 1) .. last
           attempt == [c \in Chunks |-> IF c \in new THEN 1 ELSE k.attempt[c]]
           l == [k EXCEPT !.next = last, !.attempt = attempt]
<1>1. Filled(k) = l
  BY DEF Filled, Client
<1>2. /\ InFlight(k) \in SUBSET Chunks /\ IsFiniteSet(InFlight(k))
      /\ Cardinality(InFlight(k)) \in Nat /\ Cardinality(InFlight(k)) <= MaxConcurrent
      /\ k.attempt \in [Chunks -> 0 .. MaxRetries] /\ k.next \in 0 .. TotalChunks
      /\ k.completed \in SUBSET Chunks
  BY InFlightIs DEF WindowSound
<1>3. room \in Nat /\ last \in k.next .. TotalChunks /\ last <= k.next + room
  <2> HIDE DEF room
  <2>1. room \in Nat
    BY <1>2, CountsAssumption DEF room
  <2> QED BY <1>2, <2>1, CountsAssumption
<1> HIDE DEF room, last
<1>n. PICK n \in Nat, m \in Nat : n = k.next /\ m = last /\ n <= m /\ m <= TotalChunks
  BY <1>2, <1>3, CountsAssumption
<1>w. /\ \A c \in InFlight(k) : c \in Nat /\ c <= n /\ c \notin k.completed
      /\ \A c \in k.completed : c \in Nat /\ c <= n
  BY <1>2, <1>n, ChunksAre DEF WindowSound
<1>4. new \in SUBSET Chunks /\ IsFiniteSet(new) /\ Cardinality(new) = last - k.next
  <2>1. new \in SUBSET Chunks
    <3>1. (n + 1) .. m \subseteq 1 .. TotalChunks
      BY <1>n, CountsAssumption
    <3> QED BY <1>n, <3>1 DEF Chunks
  <2>2. k.next + 1 \in Int /\ last \in Int
    BY <1>2, <1>3, CountsAssumption
  <2>3. IsFiniteSet(new) /\ Cardinality(new) = IF k.next + 1 > last THEN 0 ELSE last - (k.next + 1) + 1
    BY <2>2, FS_Interval
  <2>4. Cardinality(new) = last - k.next
    BY <1>2, <1>3, <2>3, CountsAssumption
  <2> QED BY <2>1, <2>3, <2>4
<1>5. attempt \in [Chunks -> 0 .. MaxRetries]
  BY <1>2, CountsAssumption
<1>6. \A c \in Chunks : attempt[c] = IF c \in new THEN 1 ELSE k.attempt[c]
  OBVIOUS
<1>7. \A c \in new : c > k.next
  BY <1>2, <1>3
<1> HIDE DEF new, attempt
<1>8. /\ l \in Client /\ l.next = last /\ l.attempt = attempt /\ l.phase = k.phase
      /\ l.round = k.round /\ l.completed = k.completed
  <2>1. last \in 0 .. TotalChunks
    BY <1>2, <1>3, CountsAssumption
  <2> QED BY <1>5, <2>1 DEF Client
<1> HIDE DEF l
<1>9. InFlight(l) = InFlight(k) \cup new
  BY <1>2, <1>4, <1>6, <1>8 DEF InFlight
<1>10. Cardinality(InFlight(l)) <= MaxConcurrent
  <2>1. InFlight(k) \cap new = {}
    BY <1>w, <1>n, <1>7
  <2>2. /\ Cardinality(InFlight(k) \cup new)
             = Cardinality(InFlight(k)) + Cardinality(new) - Cardinality(InFlight(k) \cap new)
    BY <1>2, <1>4, FS_Union
  <2>3. Cardinality(InFlight(k) \cap new) = 0
    BY <2>1, FS_EmptySet
  <2> QED BY <1>2, <1>3, <1>4, <1>9, <2>2, <2>3, CountsAssumption DEF room
<1>11. WindowSound(l)
  <2>1. \A c \in InFlight(l) : c <= last /\ c \notin k.completed
    <3>1. \A c \in new : c <= last /\ c \notin k.completed
      <4>1. \A c \in k.completed : c <= k.next
        BY DEF WindowSound
      <4>2. \A c \in new : c <= last
        BY <1>2, <1>3 DEF new
      <4> QED BY <1>2, <1>4, <1>7, <4>1, <4>2, ChunksAre
    <3>2. \A c \in InFlight(k) : c <= last /\ c \notin k.completed
      BY <1>w, <1>n
    <3> QED BY <1>9, <3>1, <3>2
  <2>2. \A c \in k.completed : c <= last
    BY <1>w, <1>n
  <2> QED BY <1>8, <1>10, <2>1, <2>2 DEF WindowSound
<1> QED BY <1>1, <1>8, <1>9, <1>11

\* A window that is opened is sound.
LEMMA OpenedSound ==
  /\ NewClient \in Client /\ NewClient.phase = "new"
  /\ LET k == Filled([NewClient EXCEPT !.phase = "window"])
     IN  k \in Client /\ ClientSound(k) /\ k.phase = "window"
<1> DEFINE k == [NewClient EXCEPT !.phase = "window"]
<1>1. NewClient \in Client /\ NewClient.phase = "new"
  BY CountsAssumption DEF NewClient, Client, Phases
<1>2. /\ k \in Client /\ k.phase = "window" /\ k.round = 0 /\ k.completed = {}
      /\ \A c \in Chunks : k.attempt[c] = 0
  BY CountsAssumption DEF NewClient, Client, Phases
<1> HIDE DEF k
<1>3. InFlight(k) = {}
  BY <1>2 DEF InFlight
<1>4. WindowSound(k)
  BY <1>2, <1>3, FS_EmptySet, CountsAssumption DEF WindowSound
<1>5. Filled(k) \in Client /\ WindowSound(Filled(k)) /\ Filled(k).phase = "window"
  BY <1>2, <1>4, FilledSound
<1>6. ClientSound(Filled(k))
  BY <1>5 DEF ClientSound
<1> QED BY <1>1, <1>5, <1>6 DEF k

\* One part less in flight, and perhaps one more done.
LEMMA WindowShrinks ==
  ASSUME NEW k \in Client, WindowSound(k), NEW l \in Client, NEW c \in InFlight(k),
         l.attempt = [k.attempt EXCEPT ![c] = 0],
         l.round = k.round, l.next = k.next,
         l.completed = k.completed \/ l.completed = k.completed \cup {c}
  PROVE  InFlight(l) = InFlight(k) \ {c} /\ WindowSound(l)
<1>1. /\ InFlight(k) \in SUBSET Chunks /\ IsFiniteSet(InFlight(k))
      /\ Cardinality(InFlight(k)) \in Nat /\ k.attempt \in [Chunks -> 0 .. MaxRetries]
  BY InFlightIs
<1>2. InFlight(l) = InFlight(k) \ {c}
  BY <1>1 DEF InFlight
<1>3. Cardinality(InFlight(l)) <= Cardinality(InFlight(k)) /\ Cardinality(InFlight(l)) \in Nat
  BY <1>1, <1>2, FS_Subset, InFlightIs
<1>4. Cardinality(InFlight(l)) <= MaxConcurrent
  BY <1>1, <1>3, CountsAssumption DEF WindowSound
<1> QED BY <1>2, <1>4 DEF WindowSound

\* Where a call is that has a part in flight.
LEMMA PhaseInFlight ==
  ASSUME NEW k \in Client, ClientSound(k), NEW c \in InFlight(k)
  PROVE  \/ k.phase \in {"window", "failed"} /\ WindowSound(k)
         \/ k.phase = "repair" /\ InFlight(k) = {c} /\ c \in k.missing
<1>1. k.phase # "new"
  <2>1. InFlight(NewClient) = {}
    BY CountsAssumption DEF InFlight, NewClient
  <2> QED BY <2>1 DEF ClientSound
<1> QED BY <1>1, InFlightIs DEF ClientSound, Phases

LEMMA FailedSound ==
  ASSUME NEW k \in Client, ClientSound(k), NEW c \in InFlight(k)
  PROVE  /\ AttemptFailed(k, c) \in Client /\ ClientSound(AttemptFailed(k, c))
         /\ AttemptFailed(k, c).phase # "new"
         /\ InFlight(k) \ {c} \subseteq InFlight(AttemptFailed(k, c))
<1> DEFINE l == AttemptFailed(k, c)
<1>0. c \in Chunks /\ k.attempt \in [Chunks -> 0 .. MaxRetries] /\ k.attempt[c] \in 0 .. MaxRetries
      /\ InFlight(k) \in SUBSET Chunks
  BY InFlightIs
<1>1. CASE k.attempt[c] < MaxRetries
  <2> DEFINE attempt == [k.attempt EXCEPT ![c] = k.attempt[c] + 1]
  <2>1. l = [k EXCEPT !.attempt = attempt]
    BY <1>1 DEF AttemptFailed, Client
  <2>2. attempt \in [Chunks -> 0 .. MaxRetries]
    BY <1>0, <1>1, CountsAssumption
  <2>3. \A d \in Chunks : attempt[d] > 0 <=> k.attempt[d] > 0
    BY <1>0, CountsAssumption DEF InFlight
  <2> HIDE DEF attempt, l
  <2>4. /\ l \in Client /\ l.attempt = attempt /\ l.phase = k.phase /\ l.round = k.round
        /\ l.next = k.next /\ l.completed = k.completed /\ l.missing = k.missing
    BY <2>1, <2>2 DEF Client
  <2>5. InFlight(l) = InFlight(k)
    BY <2>3, <2>4 DEF InFlight
  <2>6. k.phase # "new"
    BY PhaseInFlight
  <2>7. ClientSound(l)
    BY <2>4, <2>5, <2>6 DEF ClientSound, WindowSound
  <2> QED BY <2>4, <2>5, <2>6, <2>7 DEF l
<1>2. CASE ~(k.attempt[c] < MaxRetries)
  <2> DEFINE attempt == [k.attempt EXCEPT ![c] = 0]
  <2>1. l = [k EXCEPT !.attempt = attempt, !.phase = "failed"]
    BY <1>2 DEF AttemptFailed, Client
  <2>2. attempt \in [Chunks -> 0 .. MaxRetries]
    BY <1>0, CountsAssumption
  <2> HIDE DEF attempt, l
  <2>3. /\ l \in Client /\ l.attempt = attempt /\ l.phase = "failed" /\ l.round = k.round
        /\ l.next = k.next /\ l.completed = k.completed /\ l.missing = k.missing
    BY <2>1, <2>2 DEF Client, Phases
  <2>4. InFlight(l) = InFlight(k) \ {c}
    BY <1>0, <2>3 DEF InFlight, attempt
  <2>5. InFlight(l) = {} \/ WindowSound(l)
    BY <2>3, <2>4, PhaseInFlight, WindowShrinks DEF attempt
  <2>6. ClientSound(l)
    BY <2>3, <2>5 DEF ClientSound
  <2> QED BY <2>3, <2>4, <2>6 DEF l
<1> QED BY <1>1, <1>2

LEMMA DoneSound ==
  ASSUME NEW k \in Client, ClientSound(k), NEW c \in InFlight(k)
  PROVE  /\ PartDone(k, c) \in Client /\ ClientSound(PartDone(k, c))
         /\ PartDone(k, c).phase # "new"
         /\ InFlight(k) \ {c} \subseteq InFlight(PartDone(k, c))
<1> DEFINE attempt == [k.attempt EXCEPT ![c] = 0]
<1>0. /\ c \in Chunks /\ k.attempt \in [Chunks -> 0 .. MaxRetries]
      /\ InFlight(k) \in SUBSET Chunks /\ attempt \in [Chunks -> 0 .. MaxRetries]
      /\ k.missing \in SUBSET Chunks /\ k.completed \in SUBSET Chunks /\ k.round \in 0 .. MaxComplete
  BY InFlightIs, CountsAssumption
<1>1. CASE k.phase = "repair"
  <2> DEFINE rest == k.missing \ {c}
             l == [k EXCEPT !.attempt = attempt, !.missing = rest]
  <2>0. InFlight(k) = {c}
    BY <1>1, PhaseInFlight
  <2>1. /\ l \in Client /\ l.attempt = attempt /\ l.missing = rest /\ l.phase = "repair"
        /\ l.round = k.round
    BY <1>0, <1>1 DEF Client
  <2>2. [k EXCEPT !.attempt[c] = 0, !.missing = rest] = l
    BY DEF Client
  <2>3. InFlight(l) = {}
    BY <1>0, <2>0, <2>1 DEF InFlight
  <2>4. CASE rest # {}
    <3> DEFINE d == CHOOSE d \in rest : \A e \in rest : d <= e
    <3>0. rest \in SUBSET Chunks
      BY <1>0
    <3>1. d \in rest /\ d \in Chunks
      <4> HIDE DEF rest
      <4> QED BY <2>4, <3>0, FirstOfMissing
    <3> DEFINE first == [attempt EXCEPT ![d] = 1]
               m == [l EXCEPT !.attempt = first]
    <3>2. PartDone(k, c) = m
      BY <1>1, <2>1, <2>2, <2>4 DEF PartDone, Client
    <3> HIDE DEF d, l, rest, attempt
    <3>3. first \in [Chunks -> 0 .. MaxRetries] /\ \A e \in Chunks : first[e] > 0 <=> attempt[e] > 0 \/ e = d
      BY <1>0, <3>1, CountsAssumption
    <3> HIDE DEF first
    <3>4. m \in Client /\ m.attempt = first /\ m.phase = "repair" /\ m.missing = rest
      BY <2>1, <3>3 DEF Client
    <3> HIDE DEF m
    <3>5. InFlight(m) = {d}
      BY <2>1, <2>3, <3>1, <3>3, <3>4 DEF InFlight
    <3>6. ClientSound(m)
      BY <3>1, <3>4, <3>5 DEF ClientSound
    <3> QED BY <2>0, <3>2, <3>4, <3>6
  <2>5. CASE rest = {}
    <3> DEFINE m == IF k.round < MaxComplete THEN [l EXCEPT !.phase = "complete"]
                                             ELSE [l EXCEPT !.phase = "failed"]
    <3>1. PartDone(k, c) = m
      BY <1>1, <2>1, <2>2, <2>5 DEF PartDone
    <3> HIDE DEF l, rest, attempt
    <3>2. /\ m \in Client /\ m.attempt = attempt /\ m.round = k.round
          /\ m.phase = IF k.round < MaxComplete THEN "complete" ELSE "failed"
      BY <2>1 DEF Client, Phases
    <3> HIDE DEF m
    <3>3. InFlight(m) = {}
      BY <2>1, <2>3, <3>2 DEF InFlight
    <3>4. ClientSound(m)
      BY <3>2, <3>3 DEF ClientSound
    <3> QED BY <2>0, <3>1, <3>2, <3>4
  <2> QED BY <2>4, <2>5
<1>2. CASE k.phase # "repair"
  <2> DEFINE l == [k EXCEPT !.attempt = attempt, !.completed = k.completed \cup {c}]
  <2>0. k.phase \in {"window", "failed"} /\ WindowSound(k)
    BY <1>2, PhaseInFlight
  <2>1. /\ l \in Client /\ l.attempt = attempt /\ l.completed = k.completed \cup {c}
        /\ l.phase = k.phase /\ l.round = k.round /\ l.next = k.next
    BY <1>0 DEF Client
  <2>2. [k EXCEPT !.attempt[c] = 0, !.completed = @ \cup {c}] = l
    BY DEF Client
  <2>3. PartDone(k, c) = IF l.completed = Chunks THEN [l EXCEPT !.phase = "complete"] ELSE Filled(l)
    BY <1>2, <2>1, <2>2 DEF PartDone
  <2>4. InFlight(l) = InFlight(k) \ {c} /\ WindowSound(l)
    <3> HIDE DEF l
    <3> QED BY <2>0, <2>1, WindowShrinks DEF attempt
  <2> HIDE DEF l, attempt
  <2>5. CASE l.completed = Chunks
    <3> DEFINE m == [l EXCEPT !.phase = "complete"]
    <3>1. m \in Client /\ m.attempt = l.attempt /\ m.phase = "complete" /\ m.round = l.round
      BY <2>1 DEF Client, Phases
    <3>2. PartDone(k, c) = m
      BY <2>3, <2>5
    <3> HIDE DEF m
    <3>3. InFlight(m) = InFlight(l) /\ InFlight(l) = {}
      <4>1. \A e \in InFlight(l) : e \notin l.completed /\ e \in Chunks
        BY <2>4 DEF WindowSound, InFlight
      <4> QED BY <2>5, <3>1, <4>1 DEF InFlight
    <3>4. m.round < MaxComplete
      BY <2>0, <2>1, <3>1, CountsAssumption DEF WindowSound
    <3>5. ClientSound(m)
      BY <3>1, <3>3, <3>4 DEF ClientSound
    <3> QED BY <2>4, <3>1, <3>2, <3>3, <3>5
  <2>6. CASE l.completed # Chunks
    <3>1. /\ Filled(l) \in Client /\ WindowSound(Filled(l)) /\ Filled(l).phase = k.phase
          /\ InFlight(l) \subseteq InFlight(Filled(l))
      BY <2>1, <2>4, FilledSound
    <3>2. ClientSound(Filled(l))
      BY <2>0, <3>1 DEF ClientSound
    <3> QED BY <2>0, <2>3, <2>4, <2>6, <3>1, <3>2
  <2> QED BY <2>5, <2>6
<1> QED BY <1>1, <1>2

LEMMA RepairSound ==
  ASSUME NEW k \in Client, ClientSound(k), k.phase = "complete",
         NEW missing \in SUBSET Chunks, missing # {}
  PROVE  /\ Repair(k, missing) \in Client /\ ClientSound(Repair(k, missing))
         /\ Repair(k, missing).phase = "repair"
<1> DEFINE d == CHOOSE d \in missing : \A e \in missing : d <= e
           first == [k.attempt EXCEPT ![d] = 1]
           m == [k EXCEPT !.phase = "repair", !.missing = missing, !.round = k.round + 1, !.attempt = first]
<1>1. d \in missing /\ d \in Chunks
  BY FirstOfMissing
<1>2. Repair(k, missing) = m
  BY DEF Repair, Client
<1> HIDE DEF d
<1>3. InFlight(k) = {} /\ k.round < MaxComplete /\ k.round \in 0 .. MaxComplete
      /\ k.attempt \in [Chunks -> 0 .. MaxRetries]
  BY InFlightIs DEF ClientSound
<1>4. k.round + 1 \in 0 .. MaxComplete
  BY <1>3, CountsAssumption
<1>5. first \in [Chunks -> 0 .. MaxRetries] /\ \A e \in Chunks : first[e] > 0 <=> k.attempt[e] > 0 \/ e = d
  BY <1>1, <1>3, CountsAssumption
<1> HIDE DEF first
<1>6. m \in Client /\ m.phase = "repair" /\ m.missing = missing /\ m.attempt = first
  BY <1>4, <1>5 DEF Client, Phases
<1> HIDE DEF m
<1>7. InFlight(m) = {d}
  BY <1>1, <1>3, <1>5, <1>6 DEF InFlight
<1>8. ClientSound(m)
  BY <1>1, <1>6, <1>7 DEF ClientSound
<1> QED BY <1>2, <1>6, <1>8

\* A call that is given up or ends: nothing is in flight any more.
LEMMA EndedSound ==
  ASSUME NEW k \in Client, ClientSound(k), k.phase = "complete",
         NEW phase \in {"failed", "done"}
  PROVE  /\ [k EXCEPT !.phase = phase] \in Client /\ ClientSound([k EXCEPT !.phase = phase])
         /\ [k EXCEPT !.phase = phase].phase = phase
<1> DEFINE m == [k EXCEPT !.phase = phase]
<1>1. m \in Client /\ m.phase = phase /\ m.attempt = k.attempt
  BY DEF Client, Phases
<1> HIDE DEF m
<1>2. InFlight(m) = {}
  BY <1>1 DEF InFlight, ClientSound
<1>3. ClientSound(m)
  BY <1>1, <1>2 DEF ClientSound
<1> QED BY <1>1, <1>3 DEF m

-----------------------------------------------------------------------------
(***************************************************************************)
(* How a handler moves.                                                    *)
(***************************************************************************)
Pcs == {"get", "open", "write1", "write2", "set", "read", "register", "remove",
        "delete", "received", "joined", "missing", "error"}

\* Worker w is at pc with these in hand; its request is the one it was.
Becomes(w, pc, seen, copied, awaited) ==
  /\ handler' \in [Workers -> Busy \cup {Idle}]
  /\ \A v \in Workers \ {w} : handler'[v] = handler[v]
  /\ handler'[w] \in Busy /\ handler'[w] # Idle
  /\ handler'[w].op = handler[w].op /\ handler'[w].upload = handler[w].upload
  /\ handler'[w].chunk = handler[w].chunk /\ handler'[w].awaited = awaited
  /\ handler'[w].pc = pc /\ handler'[w].seen = seen /\ handler'[w].copied = copied

LEMMA BusyIs ==
  ASSUME NEW h \in Busy
  PROVE  /\ h # Idle /\ h.op \in {"chunk", "complete"} /\ h.upload \in Uploads /\ h.chunk \in Chunks
         /\ h.awaited \in BOOLEAN /\ h.pc \in Pcs /\ h.seen \in SUBSET Chunks /\ h.copied \in Seq(Part)
<1>1. h.pc # Idle.pc
  BY DEF Busy, Idle
<1> QED BY <1>1 DEF Busy, Pcs

LEMMA HandlerIs ==
  ASSUME TypeOK, NEW w \in Workers, handler[w] # Idle
  PROVE  /\ handler[w] \in Busy
         /\ handler[w].op \in {"chunk", "complete"} /\ handler[w].upload \in Uploads
         /\ handler[w].chunk \in Chunks
         /\ handler[w].awaited \in BOOLEAN /\ handler[w].pc \in Pcs
         /\ handler[w].seen \in SUBSET Chunks /\ handler[w].copied \in Seq(Part)
<1>1. handler[w] \in Busy
  BY DEF TypeOK
<1> QED BY <1>1, BusyIs

\* An idle worker is nowhere.
LEMMA IdleIsNowhere ==
  ASSUME TypeOK, NEW w \in Workers, handler[w].pc \in Pcs
  PROVE  handler[w] # Idle
BY DEF Idle, Pcs

LEMMA MovesTo ==
  ASSUME TypeOK, NEW w \in Workers, handler[w] # Idle, NEW h \in Busy,
         h.op = handler[w].op, h.upload = handler[w].upload, h.chunk = handler[w].chunk,
         handler' = [handler EXCEPT ![w] = h]
  PROVE  Becomes(w, h.pc, h.seen, h.copied, h.awaited)
<1>1. h # Idle
  BY BusyIs
<1>2. handler \in [Workers -> Busy \cup {Idle}]
  BY DEF TypeOK
<1>3. handler' \in [Workers -> Busy \cup {Idle}] /\ handler'[w] = h
      /\ \A v \in Workers \ {w} : handler'[v] = handler[v]
  BY <1>2
<1> QED BY <1>1, <1>3 DEF Becomes

LEMMA GotoIs ==
  ASSUME TypeOK, NEW w \in Workers, handler[w] # Idle, NEW pc \in Pcs, Goto(w, pc)
  PROVE  Becomes(w, pc, handler[w].seen, handler[w].copied, handler[w].awaited)
<1> PICK old \in Busy : old = handler[w]
  BY HandlerIs
<1> DEFINE h == [old EXCEPT !.pc = pc]
<1>1. /\ h \in Busy /\ h.op = old.op /\ h.upload = old.upload /\ h.chunk = old.chunk
      /\ h.awaited = old.awaited /\ h.pc = pc /\ h.seen = old.seen /\ h.copied = old.copied
  BY DEF Busy, Pcs
<1>2. handler' = [handler EXCEPT ![w] = h]
  BY DEF Goto
<1> HIDE DEF h
<1> QED BY <1>1, <1>2, MovesTo

LEMMA SeesIs ==
  ASSUME TypeOK, NEW w \in Workers, handler[w] # Idle, NEW pc \in Pcs, NEW seen \in SUBSET Chunks,
         handler' = [handler EXCEPT ![w].pc = pc, ![w].seen = seen]
  PROVE  Becomes(w, pc, seen, handler[w].copied, handler[w].awaited)
<1> PICK old \in Busy : old = handler[w]
  BY HandlerIs
<1> DEFINE h == [old EXCEPT !.pc = pc, !.seen = seen]
<1>1. /\ h \in Busy /\ h.op = old.op /\ h.upload = old.upload /\ h.chunk = old.chunk
      /\ h.awaited = old.awaited /\ h.pc = pc /\ h.seen = seen /\ h.copied = old.copied
  <2>1. h \in Busy
    BY DEF Busy, Pcs
  <2>2. h.op = old.op /\ h.upload = old.upload /\ h.chunk = old.chunk /\ h.awaited = old.awaited
    BY DEF Busy
  <2>3. h.pc = pc /\ h.seen = seen /\ h.copied = old.copied
    BY DEF Busy
  <2> QED BY <2>1, <2>2, <2>3
<1>2. handler' = [handler EXCEPT ![w] = h]
  <2>1. handler \in [Workers -> Busy \cup {Idle}]
    BY DEF TypeOK
  <2>2. handler' = [handler EXCEPT ![w] = [handler[w] EXCEPT !.pc = pc, !.seen = seen]]
    BY <2>1
  <2> QED BY <2>2
<1> HIDE DEF h
<1> QED BY <1>1, <1>2, MovesTo

LEMMA CopiesIs ==
  ASSUME TypeOK, NEW w \in Workers, handler[w] # Idle, NEW pc \in Pcs, NEW copied \in Seq(Part),
         handler' = [handler EXCEPT ![w].copied = copied, ![w].pc = pc]
  PROVE  Becomes(w, pc, handler[w].seen, copied, handler[w].awaited)
<1> PICK old \in Busy : old = handler[w]
  BY HandlerIs
<1> DEFINE h == [old EXCEPT !.copied = copied, !.pc = pc]
<1>1. /\ h \in Busy /\ h.op = old.op /\ h.upload = old.upload /\ h.chunk = old.chunk
      /\ h.awaited = old.awaited /\ h.pc = pc /\ h.seen = old.seen /\ h.copied = copied
  <2>1. h \in Busy
    BY DEF Busy, Pcs
  <2>2. h.op = old.op /\ h.upload = old.upload /\ h.chunk = old.chunk /\ h.awaited = old.awaited
    BY DEF Busy
  <2>3. h.pc = pc /\ h.seen = old.seen /\ h.copied = copied
    BY DEF Busy
  <2> QED BY <2>1, <2>2, <2>3
<1>2. handler' = [handler EXCEPT ![w] = h]
  <2>1. handler \in [Workers -> Busy \cup {Idle}]
    BY DEF TypeOK
  <2>2. handler' = [handler EXCEPT ![w] = [handler[w] EXCEPT !.copied = copied, !.pc = pc]]
    BY <2>1
  <2> QED BY <2>2
<1> HIDE DEF h
<1> QED BY <1>1, <1>2, MovesTo

LEMMA GivesUpIs ==
  ASSUME TypeOK, NEW w \in Workers, handler[w] # Idle, handler' = [handler EXCEPT ![w].awaited = FALSE]
  PROVE  Becomes(w, handler[w].pc, handler[w].seen, handler[w].copied, FALSE)
<1> PICK old \in Busy : old = handler[w]
  BY HandlerIs
<1> DEFINE h == [old EXCEPT !.awaited = FALSE]
<1>1. /\ h \in Busy /\ h.op = old.op /\ h.upload = old.upload /\ h.chunk = old.chunk
      /\ h.awaited = FALSE /\ h.pc = old.pc /\ h.seen = old.seen /\ h.copied = old.copied
  BY DEF Busy, Pcs
<1>2. handler' = [handler EXCEPT ![w] = h]
  OBVIOUS
<1> HIDE DEF h
<1> QED BY <1>1, <1>2, MovesTo

-----------------------------------------------------------------------------
(***************************************************************************)
(* What a step that moves few handlers leaves true.                        *)
(***************************************************************************)
\* The browser's half, when it gets no answer and sends no request.
KeepsRequest(v) ==
  /\ handler[v] # Idle
  /\ handler'[v].op = handler[v].op /\ handler'[v].upload = handler[v].upload
  /\ handler'[v].chunk = handler[v].chunk
  /\ handler'[v].awaited => handler[v].awaited

LEMMA FewerRequests ==
  ASSUME BrowserInv, client' = client,
         \A v \in Workers : handler'[v] # Idle => KeepsRequest(v)
  PROVE  BrowserInv'
<1>1. ClientsAreSound'
  BY DEF BrowserInv, ClientsAreSound
<1>2. \A v \in Workers : Waits(v)' => Waits(v) /\ KeepsRequest(v)
  BY DEF Waits, KeepsRequest
<1>3. AwaitedIsWanted'
  <2>1. ASSUME NEW w \in Workers, handler'[w] # Idle
        PROVE  client'[handler'[w].upload].phase # "new"
    BY <2>1 DEF KeepsRequest, BrowserInv, AwaitedIsWanted
  <2>2. ASSUME NEW w \in Workers, Waits(w)'
        PROVE  IF handler'[w].op = "chunk"
               THEN client'[handler'[w].upload].attempt[handler'[w].chunk] > 0
               ELSE client'[handler'[w].upload].phase = "complete"
    BY <1>2, <2>2 DEF KeepsRequest, BrowserInv, AwaitedIsWanted
  <2>3. ASSUME NEW v \in Workers, NEW w \in Workers, Waits(v)', Waits(w)', SameRequest(v, w)'
        PROVE  v = w
    <3>1. SameRequest(v, w)
      BY <1>2, <2>3 DEF KeepsRequest, SameRequest
    <3> QED BY <1>2, <2>3, <3>1 DEF BrowserInv, AwaitedIsWanted
  <2> QED BY <2>1, <2>2, <2>3 DEF AwaitedIsWanted
<1> QED BY <1>1, <1>3 DEF BrowserInv

LEMMA MoverKeepsRequest ==
  ASSUME NEW w \in Workers, handler[w] # Idle, NEW pc, NEW seen, NEW copied,
         Becomes(w, pc, seen, copied, handler[w].awaited), BrowserInv, client' = client
  PROVE  BrowserInv'
<1>1. \A v \in Workers : handler'[v] # Idle => KeepsRequest(v)
  BY DEF KeepsRequest, Becomes
<1> QED BY <1>1, FewerRequests

\* What is stored stays so.
Keeps(u) ==
  \A c \in Chunks : /\ Stored(u, c) => Stored(u, c)'
                    /\ Made(u, c) => Made(u, c)'
                    /\ Begun(u, c) => Begun(u, c)'

\* The directory is as it was, and those who are writing in it still are.
LEMMA KeptByRest ==
  ASSUME NEW u \in Uploads, parts'[u] = parts[u],
         \A v \in Workers, c \in Chunks :
           /\ At(v, "write1", u, c) => At(v, "write1", u, c)'
           /\ At(v, "write2", u, c) => At(v, "write2", u, c)'
  PROVE  Keeps(u)
<1> SUFFICES ASSUME NEW c \in Chunks
             PROVE  /\ Stored(u, c) => Stored(u, c)'
                    /\ Made(u, c) => Made(u, c)'
                    /\ Begun(u, c) => Begun(u, c)'
  BY DEF Keeps
<1>1. \A v \in Workers : /\ At(v, "write1", u, c) => At(v, "write1", u, c)'
                         /\ At(v, "write2", u, c) => At(v, "write2", u, c)'
  OBVIOUS
<1>2. Stored(u, c) => Stored(u, c)'
  BY <1>1 DEF Stored
<1>3. Begun(u, c) => Begun(u, c)'
  BY <1>1 DEF Begun
<1> QED BY <1>2, <1>3 DEF Made

\* A handler that is not writing moves, and no file is touched.
LEMMA KeptByMove ==
  ASSUME NEW w \in Workers, NEW pc, NEW seen, NEW copied, NEW awaited,
         Becomes(w, pc, seen, copied, awaited),
         handler[w] = Idle \/ handler[w].pc \notin {"write1", "write2"} \/ pc = handler[w].pc,
         NEW u \in Uploads, parts'[u] = parts[u]
  PROVE  Keeps(u)
<1>1. ASSUME NEW v \in Workers, NEW c \in Chunks, NEW p \in {"write1", "write2"}, At(v, p, u, c)
      PROVE  At(v, p, u, c)'
  BY <1>1 DEF At, Becomes
<1> QED BY <1>1, KeptByRest

LEMMA HandlersStaySound ==
  ASSUME NEW w \in Workers, HandlersAreSound, \A v \in Workers \ {w} : handler'[v] = handler[v],
         handler'[w] # Idle => HandlerSound(handler'[w])
  PROVE  HandlersAreSound'
BY DEF HandlersAreSound

\* What the others have in hand stays right.
LEMMA NotedStays ==
  ASSUME TypeOK, NotedIsStored, restarts' = restarts, NEW w \in Workers,
         \A v \in Workers \ {w} : handler'[v] = handler[v],
         \A v \in Workers \ {w}, u \in Uploads :
            handler[v] # Idle /\ handler[v].upload = u => Keeps(u),
         restarts = 0 /\ handler'[w] # Idle => Noted(w)'
  PROVE  NotedIsStored'
<1> SUFFICES ASSUME restarts = 0, NEW v \in Workers, handler'[v] # Idle
             PROVE  Noted(v)'
  BY DEF NotedIsStored
<1>1. CASE v = w
  BY <1>1
<1>2. CASE v # w
  <2>1. handler'[v] = handler[v] /\ handler[v] # Idle
    BY <1>2
  <2>2. handler[v].seen \in SUBSET Chunks /\ handler[v].chunk \in Chunks /\ handler[v].upload \in Uploads
    BY <2>1, HandlerIs
  <2>3. Noted(v)
    BY <2>1 DEF NotedIsStored
  <2> PICK u, d, pc, seen : /\ u = handler[v].upload /\ d = handler[v].chunk
                            /\ pc = handler[v].pc /\ seen = handler[v].seen
    OBVIOUS
  <2>4. \A c \in Chunks : /\ Stored(u, c) => Stored(u, c)'
                          /\ Made(u, c) => Made(u, c)'
                          /\ Begun(u, c) => Begun(u, c)'
    BY <1>2, <2>1, <2>2 DEF Keeps
  <2>5. /\ pc \in {"open", "write1", "write2", "set"} => \A c \in seen : Stored(u, c)
        /\ pc = "set" => Stored(u, d)
        /\ pc \in {"write1", "write2"} => Made(u, d)
        /\ pc = "write2" => Begun(u, d)
    BY <2>3 DEF Noted
  <2>6. /\ pc \in {"open", "write1", "write2", "set"} => \A c \in seen : Stored(u, c)'
        /\ pc = "set" => Stored(u, d)'
        /\ pc \in {"write1", "write2"} => Made(u, d)'
        /\ pc = "write2" => Begun(u, d)'
    BY <2>2, <2>4, <2>5
  <2>7. u = handler'[v].upload /\ d = handler'[v].chunk /\ pc = handler'[v].pc /\ seen = handler'[v].seen
    BY <2>1
  <2> QED BY <2>6, <2>7 DEF Noted
<1> QED BY <1>1, <1>2

\* So does what the document lists.
LEMMA ListedStays ==
  ASSUME TypeOK, ListedIsStored, restarts' = restarts,
         \A u \in Uploads : meta'[u] = meta[u] \/ meta'[u] = None
                          \/ (restarts = 0 => \A c \in meta'[u] : Stored(u, c)'),
         \A u \in Uploads : meta'[u] # None /\ meta'[u] = meta[u] => Keeps(u)
  PROVE  ListedIsStored'
<1> SUFFICES ASSUME restarts = 0, NEW u \in Uploads, meta'[u] # None, NEW c \in meta'[u]
             PROVE  Stored(u, c)'
  BY DEF ListedIsStored
<1>1. CASE meta'[u] = meta[u]
  <2>1. c \in Chunks /\ Stored(u, c)
    BY <1>1 DEF TypeOK, ListedIsStored
  <2> QED BY <1>1, <2>1 DEF Keeps
<1> QED BY <1>1

-----------------------------------------------------------------------------
(***************************************************************************)
(* The server's steps.                                                     *)
(***************************************************************************)
\* A handler reads, or fails.
LEMMA Looks ==
  ASSUME UploadInv, NEW w \in Workers, handler[w] # Idle, NEW pc, NEW seen, NEW copied,
         Becomes(w, pc, seen, copied, handler[w].awaited), UNCHANGED <<client, server, failures>>,
         handler[w].pc \notin {"write1", "write2"},
         HandlerSound(handler'[w]), restarts = 0 => Noted(w)'
  PROVE  UploadInv'
<1>1. TypeOK /\ BrowserInv /\ ServerInv
  BY DEF UploadInv
<1>2. UNCHANGED <<client, meta, parts, registered, faults, restarts>>
  BY DEF server, failures
<1>3. TypeOK'
  BY <1>1, <1>2 DEF TypeOK, Becomes
<1>4. BrowserInv'
  BY <1>1, <1>2, MoverKeepsRequest
<1>5. \A v \in Workers \ {w} : handler'[v] = handler[v]
  BY DEF Becomes
<1>6. HandlersAreSound'
  BY <1>1, <1>5, HandlersStaySound DEF ServerInv
<1>7. \A u \in Uploads : Keeps(u)
  BY <1>2, KeptByMove
<1>8. NotedIsStored'
  <2>1. \A v \in Workers \ {w}, u \in Uploads :
            handler[v] # Idle /\ handler[v].upload = u => Keeps(u)
    BY <1>1, <1>7, HandlerIs
  <2> QED BY <1>1, <1>2, <1>5, <2>1, NotedStays DEF ServerInv
<1>9. ListedIsStored'
  BY <1>1, <1>2, <1>7, ListedStays DEF ServerInv
<1>10. RegisteredInFull'
  BY <1>1, <1>2 DEF ServerInv, RegisteredInFull
<1> QED BY <1>3, <1>4, <1>6, <1>8, <1>9, <1>10 DEF UploadInv, ServerInv

\* It fails.
LEMMA Errs ==
  ASSUME UploadInv, NEW w \in Workers, handler[w] # Idle, handler[w].pc \notin {"write1", "write2"},
         Goto(w, "error"), UNCHANGED <<client, server, failures>>
  PROVE  UploadInv'
<1>1. Becomes(w, "error", handler[w].seen, handler[w].copied, handler[w].awaited)
  BY GotoIs DEF UploadInv, Pcs
<1>2. HandlerSound(handler[w])
  BY DEF UploadInv, ServerInv, HandlersAreSound
<1>3. HandlerSound(handler'[w])
  BY <1>1, <1>2 DEF HandlerSound, Becomes, OfChunk, OfComplete
<1>4. Noted(w)'
  BY <1>1 DEF Noted, Becomes
<1> QED BY <1>1, <1>3, <1>4, Looks

LEMMA GetStep ==
  ASSUME UploadInv, NEW w \in Workers, ChunkGet(w)
  PROVE  UploadInv'
<1>1. /\ handler[w] # Idle /\ handler[w].op = "chunk" /\ handler[w].pc = "get"
      /\ UNCHANGED <<client, server, failures>>
  BY DEF ChunkGet, Doing
<1>2. TypeOK
  BY DEF UploadInv
<1> PICK u \in Uploads : u = handler[w].upload
  BY <1>1, <1>2, HandlerIs
<1>3. CASE Goto(w, "error")
  BY <1>1, <1>3, Errs
<1>4. CASE Goto(w, "received")
  <2>1. Becomes(w, "received", handler[w].seen, handler[w].copied, handler[w].awaited)
    BY <1>1, <1>2, <1>4, GotoIs DEF Pcs
  <2>2. HandlerSound(handler'[w])
    BY <1>1, <2>1 DEF HandlerSound, Becomes, OfChunk, OfComplete
  <2>3. Noted(w)'
    BY <2>1 DEF Noted, Becomes
  <2> QED BY <1>1, <2>1, <2>2, <2>3, Looks
<1>5. CASE meta[u] # None /\ handler' = [handler EXCEPT ![w].pc = "open", ![w].seen = meta[u]]
  <2>1. meta[u] \in SUBSET Chunks
    BY <1>2, <1>5 DEF TypeOK
  <2>2. Becomes(w, "open", meta[u], handler[w].copied, handler[w].awaited)
    BY <1>1, <1>2, <1>5, <2>1, SeesIs DEF Pcs
  <2>3. HandlerSound(handler'[w])
    BY <1>1, <2>2 DEF HandlerSound, Becomes, OfChunk, OfComplete
  <2>4. ASSUME restarts = 0
        PROVE  Noted(w)'
    <3>1. \A c \in meta[u] : Stored(u, c)
      BY <1>2, <1>5, <2>4 DEF UploadInv, ServerInv, ListedIsStored
    <3>2. Keeps(u)
      BY <1>1, <1>2, <2>2, KeptByMove DEF server
    <3>3. \A c \in meta[u] : Stored(u, c)'
      BY <2>1, <3>1, <3>2 DEF Keeps
    <3>4. handler'[w].pc = "open" /\ handler'[w].upload = u /\ handler'[w].seen = meta[u]
      BY <2>2 DEF Becomes
    <3> QED BY <3>3, <3>4 DEF Noted
  <2> QED BY <1>1, <2>2, <2>3, <2>4, Looks
<1> QED BY <1>3, <1>4, <1>5 DEF ChunkGet

LEMMA MergeGetStep ==
  ASSUME UploadInv, NEW w \in Workers, MergeGet(w)
  PROVE  UploadInv'
<1> DEFINE u == handler[w].upload
<1>1. /\ handler[w] # Idle /\ handler[w].op = "complete" /\ handler[w].pc = "get"
      /\ UNCHANGED <<client, server, failures>>
  BY DEF MergeGet, Doing
<1>2. TypeOK /\ u \in Uploads
  BY <1>1, HandlerIs DEF UploadInv
<1>3. CASE Goto(w, "error")
  BY <1>1, <1>3, Errs
<1>4. CASE ~Goto(w, "error")
  <2> DEFINE pc == IF meta[u] = Chunks THEN "read" ELSE "missing"
  <2>1. /\ meta[u] \in SUBSET Chunks
        /\ handler' = [handler EXCEPT ![w].pc = pc, ![w].seen = meta[u]]
    BY <1>2, <1>4 DEF TypeOK, MergeGet
  <2>2. Becomes(w, pc, meta[u], handler[w].copied, handler[w].awaited)
    <3>1. pc \in Pcs
      BY DEF Pcs
    <3> HIDE DEF pc
    <3> QED BY <1>1, <1>2, <2>1, <3>1, SeesIs
  <2>3. HandlerSound(handler[w])
    BY <1>1 DEF UploadInv, ServerInv, HandlersAreSound
  <2>4. Len(<<>>) < TotalChunks
    BY CountsAssumption
  <2>5. HandlerSound(handler'[w])
    BY <1>1, <2>2, <2>3, <2>4 DEF HandlerSound, Becomes, OfChunk, OfComplete
  <2>6. Noted(w)'
    BY <2>2 DEF Noted, Becomes
  <2> QED BY <1>1, <2>2, <2>5, <2>6, Looks
<1> QED BY <1>3, <1>4

LEMMA ReadStep ==
  ASSUME UploadInv, NEW w \in Workers, MergeRead(w)
  PROVE  UploadInv'
<1> DEFINE u == handler[w].upload
           c == Len(handler[w].copied) + 1
<1>1. /\ handler[w] # Idle /\ handler[w].op = "complete" /\ handler[w].pc = "read"
      /\ UNCHANGED <<client, server, failures>>
  BY DEF MergeRead, Doing
<1>2. TypeOK /\ u \in Uploads /\ handler[w].copied \in Seq(Part)
  BY <1>1, HandlerIs DEF UploadInv
<1>3. CASE Goto(w, "error")
  BY <1>1, <1>3, Errs
<1>4. CASE ~Goto(w, "error")
  <2> DEFINE pc == IF c = TotalChunks THEN "register" ELSE "read"
             copied == Append(handler[w].copied, parts[u][c])
  <2>1. /\ parts[u] # None /\ parts[u][c] # None
        /\ handler' = [handler EXCEPT ![w].copied = copied, ![w].pc = pc]
    BY <1>4 DEF MergeRead
  <2>2. HandlerSound(handler[w])
    BY <1>1 DEF UploadInv, ServerInv, HandlersAreSound
  <2>3. Len(handler[w].copied) \in Nat /\ Len(handler[w].copied) < TotalChunks
    BY <1>1, <1>2, <2>2, LenProperties DEF HandlerSound
  <2>4. c \in Chunks /\ c \in Nat /\ c <= TotalChunks
    BY <2>3, CountsAssumption DEF Chunks
  <2>5. parts[u][c] \in Part
    BY <1>2, <2>1, <2>4 DEF TypeOK
  <2>6. copied \in Seq(Part) /\ Len(copied) = c
    BY <1>2, <2>5, AppendProperties
  <2>7. Becomes(w, pc, handler[w].seen, copied, handler[w].awaited)
    <3>1. pc \in Pcs
      BY DEF Pcs
    <3> HIDE DEF pc, copied
    <3> QED BY <1>1, <1>2, <2>1, <2>6, <3>1, CopiesIs
  <2>8. HandlerSound(handler'[w])
    <3>1. pc = "register" => Len(copied) = TotalChunks
      BY <2>6
    <3>2. pc = "read" => Len(copied) < TotalChunks
      BY <2>4, <2>6, CountsAssumption
    <3>3. pc \in {"register", "read"}
      OBVIOUS
    <3> HIDE DEF pc, copied
    <3> QED BY <1>1, <2>2, <2>7, <3>1, <3>2, <3>3 DEF HandlerSound, Becomes, OfChunk, OfComplete
  <2>9. Noted(w)'
    <3>1. pc \in {"register", "read"}
      OBVIOUS
    <3> HIDE DEF pc, copied
    <3> QED BY <2>7, <3>1 DEF Noted, Becomes
  <2> HIDE DEF pc, copied
  <2> QED BY <1>1, <2>7, <2>8, <2>9, Looks
<1> QED BY <1>3, <1>4

\* What a piece makes of a part.
LEMMA PieceWritten ==
  ASSUME NEW p \in Part
  PROVE  /\ Written(p, 1) \in Part /\ 1 \in Written(p, 1).good
         /\ Written(p, 2) \in Part /\ (1 \in p.good => Written(p, 2) = Whole)
         /\ Written(Whole, 1) = Whole /\ Written(Whole, 2) = Whole
         /\ Truncated \in Part /\ Whole \in Part
<1>1. p.length \in 0 .. 2 /\ p.good \in SUBSET {1, 2} /\ p = [length |-> p.length, good |-> p.good]
  BY DEF Part
<1>2. Written(p, 1) \in Part /\ 1 \in Written(p, 1).good
  BY <1>1 DEF Written, Part
<1>3. Written(p, 2) \in Part
  BY <1>1 DEF Written, Part
<1>4. ASSUME 1 \in p.good
      PROVE  Written(p, 2) = Whole
  <2>1. p.good \cup {2} = {1, 2}
    BY <1>1, <1>4
  <2>2. (IF p.length < 2 THEN 2 ELSE p.length) = 2
    BY <1>1
  <2> QED BY <2>1, <2>2 DEF Written, Whole
<1>5. {1, 2} \cup {1} = {1, 2} /\ {1, 2} \cup {2} = {1, 2}
  OBVIOUS
<1>6. Written(Whole, 1) = Whole /\ Written(Whole, 2) = Whole
  BY <1>5 DEF Written, Whole
<1> QED BY <1>2, <1>3, <1>4, <1>6 DEF Part, Truncated, Whole

\* A handler that writes part c of u moves on, and makes q of the part.
LEMMA Writes ==
  ASSUME UploadInv, NEW w \in Workers, handler[w] # Idle, NEW pc \in {"write1", "write2", "set"},
         handler[w].op = "chunk", handler[w].pc \in {"open", "write1", "write2"},
         Becomes(w, pc, handler[w].seen, handler[w].copied, handler[w].awaited),
         NEW u \in Uploads, u = handler[w].upload, NEW c \in Chunks, c = handler[w].chunk,
         NEW q \in Part \cup {None},
         parts' = parts \/ (parts[u] # None /\ parts' = [parts EXCEPT ![u] = [parts[u] EXCEPT ![c] = q]]),
         UNCHANGED <<client, meta, registered, failures>>,
         restarts = 0 => Keeps(u),
         restarts = 0 => /\ pc = "set" => Stored(u, c)'
                         /\ pc \in {"write1", "write2"} => Made(u, c)'
                         /\ pc = "write2" => Begun(u, c)'
  PROVE  UploadInv'
<1>1. TypeOK /\ BrowserInv /\ ServerInv
  BY DEF UploadInv
<1>2. UNCHANGED <<client, meta, registered, faults, restarts>>
  BY DEF failures
<1>3. \A v \in Workers \ {w} : handler'[v] = handler[v]
  BY DEF Becomes
<1>4. /\ parts' \in [Uploads -> [Chunks -> Part \cup {None}] \cup {None}]
      /\ \A v \in Uploads \ {u} : parts'[v] = parts[v]
  <2>1. CASE parts' = parts
    BY <1>1, <2>1 DEF TypeOK
  <2>2. CASE parts[u] # None /\ parts' = [parts EXCEPT ![u] = [parts[u] EXCEPT ![c] = q]]
    <3>1. /\ parts[u] \in [Chunks -> Part \cup {None}]
          /\ parts \in [Uploads -> [Chunks -> Part \cup {None}] \cup {None}]
      BY <1>1, <2>2 DEF TypeOK
    <3> DEFINE d == [parts[u] EXCEPT ![c] = q]
    <3>2. d \in [Chunks -> Part \cup {None}] /\ parts' = [parts EXCEPT ![u] = d]
      BY <2>2, <3>1
    <3> HIDE DEF d
    <3> QED BY <3>1, <3>2
  <2> QED BY <2>1, <2>2
<1>5. TypeOK'
  BY <1>1, <1>2, <1>4 DEF TypeOK, Becomes
<1>6. BrowserInv'
  BY <1>1, <1>2, MoverKeepsRequest
<1>7. HandlersAreSound'
  <2>1. HandlerSound(handler'[w])
    BY DEF HandlerSound, Becomes, OfChunk, OfComplete
  <2> QED BY <1>1, <1>3, <2>1, HandlersStaySound DEF ServerInv
<1>8. ASSUME restarts = 0
      PROVE  \A v \in Uploads : Keeps(v)
  <2>1. ASSUME NEW v \in Uploads \ {u}
        PROVE  Keeps(v)
    <3>1. \A x \in Workers, d \in Chunks :
            /\ At(x, "write1", v, d) => At(x, "write1", v, d)'
            /\ At(x, "write2", v, d) => At(x, "write2", v, d)'
      BY <1>3, <2>1 DEF At
    <3> QED BY <1>4, <3>1, KeptByRest
  <2> QED BY <1>8, <2>1
<1>9. NotedIsStored'
  <2>1. ASSUME restarts = 0
        PROVE  Noted(w)'
    <3> PICK seen : seen = handler[w].seen
      OBVIOUS
    <3>1. seen \in SUBSET Chunks /\ \A d \in seen : Stored(u, d)
      BY <1>1, <2>1, HandlerIs DEF ServerInv, NotedIsStored, Noted
    <3>2. \A d \in seen : Stored(u, d)'
      BY <1>8, <2>1, <3>1 DEF Keeps
    <3>3. /\ handler'[w].seen = seen /\ handler'[w].upload = u /\ handler'[w].chunk = c
          /\ handler'[w].pc = pc
      BY DEF Becomes
    <3> QED BY <2>1, <3>2, <3>3 DEF Noted
  <2>2. ASSUME restarts = 0
        PROVE  \A v \in Workers \ {w}, t \in Uploads :
                 handler[v] # Idle /\ handler[v].upload = t => Keeps(t)
    BY <1>1, <1>8, <2>2, HandlerIs
  <2>3. CASE restarts = 0
    BY <1>1, <1>2, <1>3, <2>1, <2>2, <2>3, NotedStays DEF ServerInv
  <2>4. CASE restarts # 0
    BY <1>2, <2>4 DEF NotedIsStored
  <2> QED BY <2>3, <2>4
<1>10. ListedIsStored'
  <2>1. CASE restarts = 0
    BY <1>1, <1>2, <1>8, <2>1, ListedStays DEF ServerInv
  <2>2. CASE restarts # 0
    BY <1>2, <2>2 DEF ListedIsStored
  <2> QED BY <2>1, <2>2
<1>11. RegisteredInFull'
  BY <1>1, <1>2 DEF ServerInv, RegisteredInFull
<1> QED BY <1>5, <1>6, <1>7, <1>9, <1>10, <1>11 DEF UploadInv, ServerInv

LEMMA OpenStep ==
  ASSUME UploadInv, NEW w \in Workers, ChunkOpen(w)
  PROVE  UploadInv'
<1>1. handler[w] # Idle /\ handler[w].op = "chunk" /\ handler[w].pc = "open"
      /\ UNCHANGED <<client, meta, registered, failures>>
  BY DEF ChunkOpen, Doing
<1>2. TypeOK
  BY DEF UploadInv
<1> PICK u \in Uploads, c \in Chunks : u = handler[w].upload /\ c = handler[w].chunk
  BY <1>1, <1>2, HandlerIs
<1>3. CASE parts[u] = None /\ Goto(w, "error") /\ UNCHANGED parts
  BY <1>1, <1>3, Errs DEF server
<1>4. CASE parts[u] # None /\ Goto(w, "write1") /\ parts' = [parts EXCEPT ![u][c] = Truncated]
  <2>1. Becomes(w, "write1", handler[w].seen, handler[w].copied, handler[w].awaited)
    BY <1>1, <1>2, <1>4, GotoIs DEF Pcs
  <2>2. /\ parts[u] \in [Chunks -> Part \cup {None}]
        /\ parts \in [Uploads -> [Chunks -> Part \cup {None}] \cup {None}]
    BY <1>2, <1>4 DEF TypeOK
  <2>3. parts' = [parts EXCEPT ![u] = [parts[u] EXCEPT ![c] = Truncated]]
    BY <1>4
  <2>4. Truncated \in Part
    BY DEF Part, Truncated
  <2>5. parts'[u][c] = Truncated /\ \A d \in Chunks \ {c} : parts'[u][d] = parts[u][d]
    BY <2>2, <2>3
  <2>6. \A v \in Workers, d \in Chunks :
            /\ At(v, "write1", u, d) => At(v, "write1", u, d)'
            /\ At(v, "write2", u, d) => At(v, "write2", u, d)'
    BY <1>1, <2>1 DEF At, Becomes
  <2>7. At(w, "write1", u, c)'
    BY <2>1 DEF At, Becomes
  <2>8. Keeps(u)
    <3> SUFFICES ASSUME NEW d \in Chunks
                 PROVE  /\ Stored(u, d) => Stored(u, d)'
                        /\ Made(u, d) => Made(u, d)'
                        /\ Begun(u, d) => Begun(u, d)'
      BY DEF Keeps
    <3>1. CASE d = c
      BY <2>4, <2>5, <2>7, <3>1, NoneAssumption DEF Stored, Made, Begun
    <3>2. CASE d # c
      <4>1. parts'[u][d] = parts[u][d]
        BY <2>5, <3>2
      <4> QED BY <1>4, <2>6, <4>1 DEF Stored, Made, Begun
    <3> QED BY <3>1, <3>2
  <2>9. Made(u, c)'
    BY <2>4, <2>5, NoneAssumption DEF Made
  <2> QED BY <1>1, <1>4, <2>1, <2>3, <2>4, <2>8, <2>9, Writes, ZenonT(30)
<1> QED BY <1>3, <1>4 DEF ChunkOpen

LEMMA WriteStep ==
  ASSUME UploadInv, NEW w \in Workers, ChunkWrite(w)
  PROVE  UploadInv'
<1>1. /\ handler[w] # Idle /\ handler[w].op = "chunk" /\ handler[w].pc \in {"write1", "write2"}
      /\ UNCHANGED <<client, meta, registered, failures>>
  BY DEF ChunkWrite, Doing
<1>2. TypeOK
  BY DEF UploadInv
<1> PICK u \in Uploads, c \in Chunks : u = handler[w].upload /\ c = handler[w].chunk
  BY <1>1, <1>2, HandlerIs
<1>3. PICK piece \in {1, 2} :
        /\ Wrote(u, c, piece)
        /\ handler[w].pc = (IF piece = 1 THEN "write1" ELSE "write2")
        /\ Goto(w, IF piece = 1 THEN "write2" ELSE "set")
  BY DEF ChunkWrite, Doing
<1> DEFINE next == IF piece = 1 THEN "write2" ELSE "set"
<1>4. Becomes(w, next, handler[w].seen, handler[w].copied, handler[w].awaited)
      /\ next \in {"write1", "write2", "set"}
  <2>1. next \in Pcs
    BY DEF Pcs
  <2> HIDE DEF next
  <2> QED BY <1>1, <1>2, <1>3, <2>1, GotoIs DEF next
<1>5. \A v \in Workers \ {w}, d \in Chunks :
          /\ At(v, "write1", u, d) => At(v, "write1", u, d)'
          /\ At(v, "write2", u, d) => At(v, "write2", u, d)'
  BY <1>4 DEF At, Becomes
<1>6. \A d \in Chunks \ {c} : ~At(w, "write1", u, d) /\ ~At(w, "write2", u, d)
  BY DEF At
<1>7. piece = 1 => At(w, "write2", u, c)'
  BY <1>4 DEF At, Becomes
<1>8. restarts = 0 => Made(u, c) /\ (piece = 2 => Begun(u, c))
  BY <1>1, <1>3 DEF UploadInv, ServerInv, NotedIsStored, Noted
<1>9. piece = 2 => ~At(w, "write1", u, c)
  BY <1>3 DEF At
<1> SUFFICES ASSUME NEW q \in Part \cup {None},
                    \/ parts' = parts /\ (parts[u] = None \/ parts[u][c] = None)
                    \/ /\ parts[u] # None /\ parts[u][c] # None
                       /\ parts' = [parts EXCEPT ![u] = [parts[u] EXCEPT ![c] = q]]
                       /\ q = Written(parts[u][c], piece)
             PROVE  UploadInv'
  <2>1. CASE parts[u] = None \/ parts[u][c] = None
    <3>1. parts' = parts
      <4>1. CASE parts[u] = None
        BY <1>3, <4>1 DEF Wrote
      <4>2. CASE parts[u] # None /\ parts[u][c] = None
        <5>1. /\ parts[u] \in [Chunks -> Part \cup {None}]
              /\ parts \in [Uploads -> [Chunks -> Part \cup {None}] \cup {None}]
          BY <1>2, <4>2 DEF TypeOK
        <5>2. [parts[u] EXCEPT ![c] = None] = parts[u]
          BY <4>2, <5>1
        <5>3. parts' = [parts EXCEPT ![u] = [parts[u] EXCEPT ![c] = None]]
          BY <1>3, <4>2 DEF Wrote
        <5> QED BY <5>1, <5>2, <5>3
      <4> QED BY <2>1, <4>1, <4>2
    <3> QED BY <2>1, <3>1
  <2>2. CASE parts[u] # None /\ parts[u][c] # None
    <3>1. parts[u][c] \in Part
      BY <1>2, <2>2 DEF TypeOK
    <3>2. Written(parts[u][c], piece) \in Part
      BY <3>1, PieceWritten
    <3>3. parts' = [parts EXCEPT ![u] = [parts[u] EXCEPT ![c] = Written(parts[u][c], piece)]]
      BY <1>3, <2>2 DEF Wrote
    <3> QED BY <2>2, <3>2, <3>3
  <2> QED BY <2>1, <2>2
<1>10. ASSUME restarts = 0
       PROVE  /\ Keeps(u) /\ Made(u, c)'
              /\ piece = 1 => Begun(u, c)'
              /\ piece = 2 => Stored(u, c)'
  <2>1. CASE parts[u] = None
    <3>1. parts' = parts
      BY <2>1
    <3> QED BY <2>1, <3>1 DEF Keeps, Stored, Made, Begun
  <2>2. CASE parts[u] # None
    <3>1. /\ parts[u] \in [Chunks -> Part \cup {None}]
          /\ parts \in [Uploads -> [Chunks -> Part \cup {None}] \cup {None}]
          /\ parts[u][c] \in Part
      BY <1>2, <1>8, <1>10, <2>2 DEF TypeOK, Made
    <3>2. q = Written(parts[u][c], piece) /\ parts' = [parts EXCEPT ![u] = [parts[u] EXCEPT ![c] = q]]
      BY <2>2, <3>1, NoneAssumption
    <3>3. parts'[u][c] = q /\ \A d \in Chunks \ {c} : parts'[u][d] = parts[u][d]
      BY <3>1, <3>2
    <3>4. q \in Part /\ (piece = 1 => 1 \in q.good) /\ (piece = 2 /\ 1 \in parts[u][c].good => q = Whole)
          /\ (1 \in parts[u][c].good => 1 \in q.good) /\ (parts[u][c] = Whole => q = Whole)
      <4>1. 1 \in parts[u][c].good => 1 \in q.good
        BY <3>2 DEF Written
      <4> QED BY <3>1, <3>2, <4>1, PieceWritten
    <3>5. Made(u, c)'
      BY <3>3, <3>4, NoneAssumption DEF Made
    <3>6. piece = 1 => Begun(u, c)'
      BY <3>3, <3>4 DEF Begun
    <3>7. Stored(u, c)'
      <4>1. CASE piece = 1
        BY <1>7, <4>1 DEF Stored
      <4>2. CASE piece = 2
        <5>1. CASE 1 \in parts[u][c].good
          BY <3>3, <3>4, <4>2, <5>1 DEF Stored
        <5>2. CASE 1 \notin parts[u][c].good
          <6>1. PICK v \in Workers : At(v, "write1", u, c)
            BY <1>8, <1>10, <2>2, <4>2, <5>2 DEF Begun
          <6>2. v # w
            BY <1>9, <4>2, <6>1
          <6> QED BY <1>5, <6>1, <6>2 DEF Stored
        <5> QED BY <5>1, <5>2
      <4> QED BY <4>1, <4>2
    <3>8. Begun(u, c) => Begun(u, c)'
      <4>1. CASE piece = 1
        BY <3>6, <4>1
      <4>2. CASE piece = 2 /\ 1 \in parts[u][c].good
        BY <3>3, <3>4, <4>2 DEF Begun
      <4>3. CASE piece = 2 /\ 1 \notin parts[u][c].good
        <5>1. PICK v \in Workers : At(v, "write1", u, c)
          BY <1>8, <1>10, <2>2, <4>3 DEF Begun
        <5>2. v # w
          BY <1>9, <4>3, <5>1
        <5> QED BY <1>5, <5>1, <5>2 DEF Begun
      <4> QED BY <4>1, <4>2, <4>3
    <3>9. ASSUME NEW d \in Chunks \ {c}
          PROVE  /\ Stored(u, d) => Stored(u, d)'
                 /\ Made(u, d) => Made(u, d)'
                 /\ Begun(u, d) => Begun(u, d)'
      <4>1. parts'[u][d] = parts[u][d]
        BY <3>3
      <4>2. \A v \in Workers : /\ At(v, "write1", u, d) => At(v, "write1", u, d)'
                               /\ At(v, "write2", u, d) => At(v, "write2", u, d)'
        BY <1>5, <1>6
      <4> QED BY <2>2, <4>1, <4>2 DEF Stored, Made, Begun
    <3>10. Keeps(u)
      BY <3>5, <3>7, <3>8, <3>9 DEF Keeps
    <3> QED BY <3>5, <3>6, <3>7, <3>10
  <2> QED BY <2>1, <2>2
<1>11. restarts = 0 => /\ Keeps(u)
                       /\ next = "set" => Stored(u, c)'
                       /\ next \in {"write1", "write2"} => Made(u, c)'
                       /\ next = "write2" => Begun(u, c)'
  BY <1>10
<1> HIDE DEF next
<1> QED BY <1>1, <1>4, <1>11, Writes

\* A handler moves that is not writing and does not note: the document of its
\* upload or its directory may be gone afterwards.
LEMMA Cleans ==
  ASSUME UploadInv, NEW w \in Workers, handler[w] # Idle,
         NEW pc \in {"received", "remove", "delete", "joined"},
         handler[w].pc \notin {"write1", "write2"},
         handler[w].op = (IF pc = "received" THEN "chunk" ELSE "complete"),
         Goto(w, pc), NEW u \in Uploads, u = handler[w].upload,
         UNCHANGED <<client, failures>>,
         parts' = parts \/ parts' = [parts EXCEPT ![u] = None],
         \/ meta' = meta
         \/ \E l \in (SUBSET Chunks) \cup {None} :
              /\ meta' = [meta EXCEPT ![u] = l]
              /\ restarts = 0 /\ l # None => \A c \in l : Stored(u, c)',
         \/ registered' = registered
         \/ \E r \in Seq(Part) :
              /\ registered' = [registered EXCEPT ![u] = r]
              /\ Len(r) = TotalChunks /\ \A c \in Chunks : r[c].length = 2
  PROVE  UploadInv'
<1>1. TypeOK /\ BrowserInv /\ ServerInv
  BY DEF UploadInv
<1>2. UNCHANGED <<client, faults, restarts>>
  BY DEF failures
<1>3. Becomes(w, pc, handler[w].seen, handler[w].copied, handler[w].awaited)
  BY <1>1, GotoIs DEF Pcs
<1>4. \A v \in Workers \ {w} : handler'[v] = handler[v]
  BY <1>3 DEF Becomes
<1>5. /\ meta' \in [Uploads -> (SUBSET Chunks) \cup {None}]
      /\ \A v \in Uploads \ {u} : meta'[v] = meta[v]
      /\ \/ meta'[u] = meta[u]
         \/ meta'[u] = None
         \/ restarts = 0 => \A c \in meta'[u] : Stored(u, c)'
  <2>0. meta \in [Uploads -> (SUBSET Chunks) \cup {None}]
    BY <1>1 DEF TypeOK
  <2>1. CASE meta' = meta
    BY <2>0, <2>1
  <2>2. ASSUME NEW l \in (SUBSET Chunks) \cup {None}, meta' = [meta EXCEPT ![u] = l],
               restarts = 0 /\ l # None => \A c \in l : Stored(u, c)'
        PROVE  <1>5
    <3>1. meta' \in [Uploads -> (SUBSET Chunks) \cup {None}] /\ meta'[u] = l
          /\ \A v \in Uploads \ {u} : meta'[v] = meta[v]
      BY <2>0, <2>2
    <3> QED BY <2>2, <3>1
  <2> QED BY <2>1, <2>2
<1>6. parts' \in [Uploads -> [Chunks -> Part \cup {None}] \cup {None}]
      /\ \A v \in Uploads : parts'[v] = parts[v] \/ parts'[v] = None
  BY <1>1 DEF TypeOK
<1>7. registered' \in [Uploads -> Seq(Part) \cup {None}] /\ RegisteredInFull'
  <2>0. registered \in [Uploads -> Seq(Part) \cup {None}] /\ RegisteredInFull
    BY <1>1 DEF TypeOK, ServerInv
  <2>1. CASE registered' = registered
    BY <2>0, <2>1 DEF RegisteredInFull
  <2>2. ASSUME NEW r \in Seq(Part), registered' = [registered EXCEPT ![u] = r],
               Len(r) = TotalChunks, \A c \in Chunks : r[c].length = 2
        PROVE  <1>7
    BY <2>0, <2>2 DEF RegisteredInFull
  <2> QED BY <2>1, <2>2
<1>8. TypeOK'
  BY <1>1, <1>2, <1>3, <1>5, <1>6, <1>7 DEF TypeOK, Becomes
<1>9. BrowserInv'
  BY <1>1, <1>2, <1>3, MoverKeepsRequest
<1>10. HandlersAreSound'
  <2>0. HandlerSound(handler[w])
    BY <1>1 DEF ServerInv, HandlersAreSound
  <2>1. HandlerSound(handler'[w])
    BY <1>3, <2>0 DEF HandlerSound, Becomes, OfChunk, OfComplete
  <2> QED BY <1>1, <1>4, <2>1, HandlersStaySound DEF ServerInv
<1>11. \A v \in Uploads : Keeps(v)
  <2> TAKE v \in Uploads
  <2>1. CASE parts'[v] = parts[v]
    BY <1>3, <2>1, KeptByMove
  <2>2. CASE parts'[v] = None
    BY <2>2 DEF Keeps, Stored, Made, Begun
  <2> QED BY <1>6, <2>1, <2>2
<1>12. NotedIsStored'
  <2>1. Noted(w)'
    BY <1>3 DEF Noted, Becomes
  <2>2. \A v \in Workers \ {w}, t \in Uploads :
            handler[v] # Idle /\ handler[v].upload = t => Keeps(t)
    BY <1>1, <1>11, HandlerIs
  <2> QED BY <1>1, <1>2, <1>4, <2>1, <2>2, NotedStays DEF ServerInv
<1>13. ListedIsStored'
  <2>1. \A v \in Uploads : meta'[v] = meta[v] \/ meta'[v] = None
                        \/ (restarts = 0 => \A c \in meta'[v] : Stored(v, c)')
    BY <1>5
  <2> QED BY <1>1, <1>2, <1>11, <2>1, ListedStays DEF ServerInv
<1> QED BY <1>7, <1>8, <1>9, <1>10, <1>12, <1>13 DEF UploadInv, ServerInv

LEMMA SetStep ==
  ASSUME UploadInv, NEW w \in Workers, ChunkSet(w)
  PROVE  UploadInv'
<1>1. /\ handler[w] # Idle /\ handler[w].op = "chunk" /\ handler[w].pc = "set"
      /\ UNCHANGED <<client, parts, registered, failures>> /\ Goto(w, "received")
  BY DEF ChunkSet, Doing
<1>2. TypeOK
  BY DEF UploadInv
<1> PICK u \in Uploads, c \in Chunks, seen \in SUBSET Chunks :
      u = handler[w].upload /\ c = handler[w].chunk /\ seen = handler[w].seen
  BY <1>1, <1>2, HandlerIs
<1>3. meta' = [meta EXCEPT ![u] = seen \cup {c}]
  BY DEF ChunkSet
<1>4. ASSUME restarts = 0, NEW d \in seen \cup {c}
      PROVE  Stored(u, d)'
  <2>1. Stored(u, d)
    BY <1>1, <1>4 DEF UploadInv, ServerInv, NotedIsStored, Noted
  <2>2. Becomes(w, "received", handler[w].seen, handler[w].copied, handler[w].awaited)
    BY <1>1, <1>2, GotoIs DEF Pcs
  <2>3. Keeps(u)
    BY <1>1, <2>2, KeptByMove
  <2> QED BY <2>1, <2>3 DEF Keeps
<1>5. seen \cup {c} \in (SUBSET Chunks) \cup {None}
  OBVIOUS
<1> QED BY <1>1, <1>3, <1>4, <1>5, Cleans

LEMMA RegisterStep ==
  ASSUME UploadInv, NEW w \in Workers, MergeRegister(w)
  PROVE  UploadInv'
<1>1. /\ handler[w] # Idle /\ handler[w].op = "complete" /\ handler[w].pc = "register"
      /\ UNCHANGED <<client, meta, parts, failures>>
  BY DEF MergeRegister, Doing
<1>2. TypeOK
  BY DEF UploadInv
<1>3. CASE Goto(w, "error") /\ UNCHANGED registered
  BY <1>1, <1>3, Errs DEF server
<1>4. CASE Acceptable(handler[w].copied) /\ Goto(w, "remove")
           /\ registered' = [registered EXCEPT ![handler[w].upload] = handler[w].copied]
  <2> PICK u \in Uploads, r \in Seq(Part) : u = handler[w].upload /\ r = handler[w].copied
    BY <1>1, <1>2, HandlerIs
  <2>1. registered' = [registered EXCEPT ![u] = r]
    BY <1>4
  <2>2. Len(r) = TotalChunks
    BY <1>1 DEF UploadInv, ServerInv, HandlersAreSound, HandlerSound
  <2>3. \A c \in Chunks : r[c].length = 2
    BY <1>4 DEF Acceptable
  <2>4. \E s \in Seq(Part) : /\ registered' = [registered EXCEPT ![u] = s]
                             /\ Len(s) = TotalChunks /\ \A c \in Chunks : s[c].length = 2
    BY <2>1, <2>2, <2>3
  <2> QED BY <1>1, <1>4, <2>4, Cleans
<1> QED BY <1>3, <1>4 DEF MergeRegister

LEMMA CleanupStep ==
  ASSUME UploadInv, NEW w \in Workers, MergeRemove(w) \/ MergeDelete(w)
  PROVE  UploadInv'
<1>1. TypeOK
  BY DEF UploadInv
<1>2. CASE MergeRemove(w)
  <2>1. /\ handler[w] # Idle /\ handler[w].op = "complete" /\ handler[w].pc = "remove"
        /\ UNCHANGED <<client, meta, registered, failures>> /\ Goto(w, "delete")
    BY <1>2 DEF MergeRemove, Doing
  <2> PICK u \in Uploads : u = handler[w].upload
    BY <1>1, <2>1, HandlerIs
  <2>2. parts' = [parts EXCEPT ![u] = None]
    BY <1>2 DEF MergeRemove
  <2> QED BY <2>1, <2>2, Cleans
<1>3. CASE MergeDelete(w)
  <2>1. /\ handler[w] # Idle /\ handler[w].op = "complete" /\ handler[w].pc = "delete"
        /\ UNCHANGED <<client, parts, registered, failures>> /\ Goto(w, "joined")
    BY <1>3 DEF MergeDelete, Doing
  <2> PICK u \in Uploads : u = handler[w].upload
    BY <1>1, <2>1, HandlerIs
  <2>2. meta' = [meta EXCEPT ![u] = None]
    BY <1>3 DEF MergeDelete
  <2> QED BY <2>1, <2>2, Cleans
<1> QED BY <1>2, <1>3

LEMMA ExpireStep ==
  ASSUME UploadInv, NEW u \in Uploads, Expire(u)
  PROVE  UploadInv'
<1>1. TypeOK /\ BrowserInv /\ ServerInv
  BY DEF UploadInv
<1>2. UNCHANGED <<client, parts, registered, handler, restarts>> /\ meta' = [meta EXCEPT ![u] = None]
      /\ faults < MaxFaults /\ faults' = faults + 1
  BY DEF Expire, Fault
<1>3. faults' \in 0 .. MaxFaults
  BY <1>1, <1>2, CountsAssumption DEF TypeOK
<1>4. meta' \in [Uploads -> (SUBSET Chunks) \cup {None}]
      /\ \A v \in Uploads : meta'[v] = meta[v] \/ meta'[v] = None
  BY <1>1, <1>2 DEF TypeOK
<1>5. TypeOK'
  BY <1>1, <1>2, <1>3, <1>4 DEF TypeOK
<1>6. BrowserInv'
  BY <1>1, <1>2, FewerRequests DEF KeepsRequest
<1>7. HandlersAreSound' /\ RegisteredInFull'
  BY <1>1, <1>2 DEF ServerInv, HandlersAreSound, RegisteredInFull
<1>8. \A v \in Uploads : Keeps(v)
  BY <1>2, KeptByRest DEF At
<1>9. NotedIsStored'
  BY <1>1, <1>2 DEF ServerInv, NotedIsStored, Noted, Stored, Made, Begun, At
<1>10. ListedIsStored'
  BY <1>1, <1>2, <1>4, <1>8, ListedStays DEF ServerInv
<1> QED BY <1>5, <1>6, <1>7, <1>9, <1>10 DEF UploadInv, ServerInv

\* After a restart nothing is said of what is stored.
LEMMA RestartStep ==
  ASSUME UploadInv, Restart
  PROVE  UploadInv'
<1>1. TypeOK /\ BrowserInv /\ ServerInv
  BY DEF UploadInv
<1>2. UNCHANGED <<client, meta, parts, registered, faults>> /\ restarts < MaxRestarts
      /\ restarts' = restarts + 1
  BY DEF Restart, server
<1>3. restarts' \in 0 .. MaxRestarts /\ restarts' # 0
  BY <1>1, <1>2, CountsAssumption DEF TypeOK
<1>4. ASSUME NEW v \in Workers
      PROVE  \/ handler'[v] = Idle
             \/ /\ handler[v] # Idle /\ handler'[v] \in Busy
                /\ handler'[v].op = handler[v].op /\ handler'[v].upload = handler[v].upload
                /\ handler'[v].chunk = handler[v].chunk /\ handler'[v].awaited = handler[v].awaited
                /\ handler'[v].pc = "error"
  <2>1. CASE handler[v] = Idle \/ ~handler[v].awaited
    BY <2>1 DEF Restart
  <2>2. CASE handler[v] # Idle /\ handler[v].awaited
    <3> PICK old \in Busy : old = handler[v]
      BY <1>1, <2>2, HandlerIs
    <3> DEFINE h == [old EXCEPT !.pc = "error"]
    <3>1. /\ h \in Busy /\ h.op = old.op /\ h.upload = old.upload /\ h.chunk = old.chunk
          /\ h.awaited = old.awaited /\ h.pc = "error"
      BY DEF Busy
    <3>2. handler'[v] = h
      BY <2>2 DEF Restart
    <3> HIDE DEF h
    <3> QED BY <2>2, <3>1, <3>2
  <2> QED BY <2>1, <2>2
<1>5. handler' \in [Workers -> Busy \cup {Idle}]
  <2>1. handler' = [v \in Workers |-> handler'[v]]
    BY DEF Restart
  <2>2. \A v \in Workers : handler'[v] \in Busy \cup {Idle}
    BY <1>4
  <2> QED BY <2>1, <2>2
<1>6. TypeOK'
  BY <1>1, <1>2, <1>3, <1>5 DEF TypeOK
<1>7. BrowserInv'
  <2>1. \A v \in Workers : handler'[v] # Idle => KeepsRequest(v)
    BY <1>4 DEF KeepsRequest
  <2> QED BY <1>1, <1>2, <2>1, FewerRequests
<1>8. HandlersAreSound'
  <2> SUFFICES ASSUME NEW v \in Workers, handler'[v] # Idle
               PROVE  HandlerSound(handler'[v])
    BY DEF HandlersAreSound
  <2>1. handler[v] # Idle /\ HandlerSound(handler[v])
    BY <1>1, <1>4 DEF ServerInv, HandlersAreSound
  <2> QED BY <1>4, <2>1 DEF HandlerSound, OfChunk, OfComplete
<1>9. NotedIsStored' /\ ListedIsStored'
  BY <1>3 DEF NotedIsStored, ListedIsStored
<1>10. RegisteredInFull'
  BY <1>1, <1>2 DEF ServerInv, RegisteredInFull
<1> QED BY <1>6, <1>7, <1>8, <1>9, <1>10 DEF UploadInv, ServerInv

-----------------------------------------------------------------------------
(***************************************************************************)
(* The browser's steps.                                                    *)
(***************************************************************************)
\* The browser no longer waits for worker w, and makes k of the call that did.
LEMMA ClientMoves ==
  ASSUME TypeOK, TypeOK', BrowserInv, HandlersAreSound, NEW w \in Workers, Waits(w),
         NEW u \in Uploads, u = handler[w].upload,
         NEW k \in Client, ClientSound(k), k.phase # "new", Set(u, k),
         handler[w].op = "chunk" => InFlight(client[u]) \ {handler[w].chunk} \subseteq InFlight(k),
         \A v \in Workers \ {w} : handler'[v] = handler[v],
         handler'[w] = Idle \/ (handler'[w].upload = u /\ ~handler'[w].awaited)
  PROVE  BrowserInv'
<1>1. client \in [Uploads -> Client] /\ client' = [client EXCEPT ![u] = k]
  BY DEF TypeOK, Set
<1>2. client'[u] = k /\ \A t \in Uploads \ {u} : client'[t] = client[t]
  BY <1>1
<1>3. ClientsAreSound'
  BY <1>2 DEF BrowserInv, ClientsAreSound
<1>4. handler[w] # Idle /\ handler[w].awaited
  BY DEF Waits
<1>5. ~Waits(w)'
  BY DEF Waits
<1>6. ASSUME NEW v \in Workers \ {w}, handler[v] # Idle, handler[v].awaited, handler[v].upload = u
      PROVE  /\ handler[w].op = "chunk" /\ handler[v].op = "chunk"
             /\ handler[v].chunk \in InFlight(k)
  <2>1. Waits(v)
    BY <1>6 DEF Waits
  <2>2. ~SameRequest(v, w)
    BY <2>1 DEF BrowserInv, AwaitedIsWanted
  <2>3. /\ handler[v].chunk \in Chunks /\ handler[v].op \in {"chunk", "complete"}
        /\ handler[w].chunk \in Chunks /\ handler[w].op \in {"chunk", "complete"}
    BY <1>4, <1>6, HandlerIs
  <2>4. ClientSound(client[u])
    BY DEF BrowserInv, ClientsAreSound
  <2>5. \A x \in {v, w} : /\ handler[x].op = "chunk" => handler[x].chunk \in InFlight(client[u])
                          /\ handler[x].op = "complete" => client[u].phase = "complete" /\ handler[x].chunk = 1
    <3>1. ASSUME NEW x \in {v, w}
          PROVE  /\ handler[x].op = "chunk" => client[u].attempt[handler[x].chunk] > 0
                 /\ handler[x].op = "complete" => client[u].phase = "complete" /\ handler[x].chunk = 1
      <4>1. handler[x] # Idle /\ Waits(x) /\ handler[x].upload = u /\ x \in Workers
        BY <1>4, <1>6, <2>1
      <4>2. HandlerSound(handler[x])
        BY <4>1 DEF HandlersAreSound
      <4> QED BY <4>1, <4>2 DEF BrowserInv, AwaitedIsWanted, HandlerSound
    <3> QED BY <2>3, <3>1 DEF InFlight
  <2>6. ~(handler[v].op = "complete" /\ handler[w].op = "complete")
    BY <1>6, <2>2, <2>5 DEF SameRequest
  <2>7. ~(handler[v].op = "complete" /\ handler[w].op = "chunk")
    BY <2>4, <2>5 DEF ClientSound
  <2>8. ~(handler[v].op = "chunk" /\ handler[w].op = "complete")
    BY <2>4, <2>5 DEF ClientSound
  <2>9. handler[w].op = "chunk" /\ handler[v].op = "chunk"
    BY <2>3, <2>6, <2>7, <2>8
  <2>10. handler[v].chunk # handler[w].chunk
    BY <1>6, <2>2, <2>9 DEF SameRequest
  <2> QED BY <2>5, <2>9, <2>10
<1>7. ASSUME NEW v \in Workers, Waits(v)'
      PROVE  v # w /\ handler'[v] = handler[v] /\ Waits(v)
  BY <1>5, <1>7 DEF Waits
<1>8. AwaitedIsWanted'
  <2>1. ASSUME NEW v \in Workers, handler'[v] # Idle
        PROVE  client'[handler'[v].upload].phase # "new"
    <3>1. CASE v = w
      BY <1>2, <2>1, <3>1
    <3>2. CASE v # w
      BY <1>2, <2>1, <3>2, HandlerIs DEF BrowserInv, AwaitedIsWanted
    <3> QED BY <3>1, <3>2
  <2>2. ASSUME NEW v \in Workers, Waits(v)'
        PROVE  IF handler'[v].op = "chunk"
               THEN client'[handler'[v].upload].attempt[handler'[v].chunk] > 0
               ELSE client'[handler'[v].upload].phase = "complete"
    <3>1. v # w /\ handler'[v] = handler[v] /\ handler[v] # Idle /\ handler[v].awaited /\ Waits(v)
      BY <1>7, <2>2 DEF Waits
    <3>2. handler[v].upload \in Uploads
      BY <3>1, HandlerIs
    <3>3. CASE handler[v].upload = u
      BY <1>2, <1>6, <3>1, <3>3 DEF InFlight
    <3>4. CASE handler[v].upload # u
      BY <1>2, <3>1, <3>2, <3>4 DEF BrowserInv, AwaitedIsWanted
    <3> QED BY <3>3, <3>4
  <2>3. ASSUME NEW v \in Workers, NEW x \in Workers, Waits(v)', Waits(x)', SameRequest(v, x)'
        PROVE  v = x
    <3>1. Waits(v) /\ Waits(x) /\ handler'[v] = handler[v] /\ handler'[x] = handler[x]
      BY <1>7, <2>3
    <3>2. SameRequest(v, x)
      BY <2>3, <3>1 DEF SameRequest
    <3> QED BY <3>1, <3>2 DEF BrowserInv, AwaitedIsWanted
  <2> QED BY <2>1, <2>2, <2>3 DEF AwaitedIsWanted
<1> QED BY <1>3, <1>8 DEF BrowserInv

\* The server's half, when no file and no document changes: w is done, or only
\* no longer waited for.
LEMMA ServerRests ==
  ASSUME TypeOK, ServerInv, UNCHANGED <<server, restarts>>, NEW w \in Workers,
         handler[w] # Idle,
         \/ handler'[w] = Idle /\ handler[w].pc \notin {"write1", "write2"}
         \/ /\ handler'[w] # Idle
            /\ handler'[w].op = handler[w].op /\ handler'[w].upload = handler[w].upload
            /\ handler'[w].chunk = handler[w].chunk /\ handler'[w].pc = handler[w].pc
            /\ handler'[w].seen = handler[w].seen /\ handler'[w].copied = handler[w].copied,
         \A v \in Workers \ {w} : handler'[v] = handler[v]
  PROVE  ServerInv'
<1>1. UNCHANGED <<meta, parts, registered, restarts>>
  BY DEF server
<1>2. HandlersAreSound'
  <2>1. HandlerSound(handler[w])
    BY DEF ServerInv, HandlersAreSound
  <2>2. handler'[w] # Idle => HandlerSound(handler'[w])
    BY <2>1 DEF HandlerSound
  <2> QED BY <2>2, HandlersStaySound DEF ServerInv
<1>3. \A u \in Uploads : Keeps(u)
  <2> TAKE u \in Uploads
  <2>1. \A v \in Workers, c \in Chunks :
          /\ At(v, "write1", u, c) => At(v, "write1", u, c)'
          /\ At(v, "write2", u, c) => At(v, "write2", u, c)'
    BY DEF At
  <2> QED BY <1>1, <2>1, KeptByRest
<1>4. NotedIsStored'
  <2>1. ASSUME restarts = 0, handler'[w] # Idle
        PROVE  Noted(w)'
    <3> PICK u \in Uploads, d \in Chunks, seen \in SUBSET Chunks, pc \in Pcs :
          /\ u = handler[w].upload /\ d = handler[w].chunk /\ seen = handler[w].seen /\ pc = handler[w].pc
      BY HandlerIs
    <3>1. /\ pc \in {"open", "write1", "write2", "set"} => \A c \in seen : Stored(u, c)
          /\ pc = "set" => Stored(u, d)
          /\ pc \in {"write1", "write2"} => Made(u, d)
          /\ pc = "write2" => Begun(u, d)
      BY <2>1 DEF ServerInv, NotedIsStored, Noted
    <3>2. \A c \in Chunks : /\ Stored(u, c) => Stored(u, c)'
                            /\ Made(u, c) => Made(u, c)'
                            /\ Begun(u, c) => Begun(u, c)'
      BY <1>3 DEF Keeps
    <3>3. /\ pc \in {"open", "write1", "write2", "set"} => \A c \in seen : Stored(u, c)'
          /\ pc = "set" => Stored(u, d)'
          /\ pc \in {"write1", "write2"} => Made(u, d)'
          /\ pc = "write2" => Begun(u, d)'
      BY <3>1, <3>2
    <3>4. u = handler'[w].upload /\ d = handler'[w].chunk /\ seen = handler'[w].seen /\ pc = handler'[w].pc
      BY <2>1
    <3> QED BY <3>3, <3>4 DEF Noted
  <2>2. \A v \in Workers \ {w}, u \in Uploads :
            handler[v] # Idle /\ handler[v].upload = u => Keeps(u)
    BY <1>3, HandlerIs
  <2> QED BY <1>1, <2>1, <2>2, NotedStays DEF ServerInv
<1>5. ListedIsStored'
  BY <1>1, <1>3, ListedStays DEF ServerInv
<1>6. RegisteredInFull'
  BY <1>1 DEF ServerInv, RegisteredInFull
<1> QED BY <1>2, <1>4, <1>5, <1>6 DEF ServerInv

LEMMA ReceiveStep ==
  ASSUME UploadInv, NEW w \in Workers, Receive(w)
  PROVE  UploadInv'
<1>1. /\ TypeOK /\ BrowserInv /\ ServerInv /\ HandlersAreSound
      /\ handler[w].pc \in {"received", "joined", "missing", "error"} /\ handler[w].awaited
      /\ handler' = [handler EXCEPT ![w] = Idle] /\ UNCHANGED <<server, failures>>
  BY DEF UploadInv, ServerInv, Receive
<1>2. handler[w] # Idle /\ Waits(w)
  BY <1>1, IdleIsNowhere DEF Pcs, Waits
<1> PICK u \in Uploads, c \in Chunks, seen \in SUBSET Chunks, op \in {"chunk", "complete"}, pc \in Pcs :
      /\ u = handler[w].upload /\ c = handler[w].chunk /\ seen = handler[w].seen
      /\ op = handler[w].op /\ pc = handler[w].pc
  BY <1>1, <1>2, HandlerIs
<1> PICK k \in Client : k = client[u]
  BY <1>1 DEF TypeOK
<1>3. ClientSound(k)
  BY <1>1 DEF BrowserInv, ClientsAreSound
<1>4. /\ op = "chunk" => c \in InFlight(k)
      /\ op = "complete" => k.phase = "complete"
      /\ pc = "received" => op = "chunk"
      /\ pc \in {"joined", "missing"} => op = "complete"
      /\ pc = "missing" => Chunks \ seen # {}
      /\ pc \in {"received", "joined", "missing", "error"}
  <2>1. HandlerSound(handler[w])
    BY <1>1, <1>2 DEF HandlersAreSound
  <2> QED BY <1>1, <1>2, <2>1 DEF HandlerSound, OfChunk, OfComplete, BrowserInv, AwaitedIsWanted, InFlight
<1>5. PICK l \in Client : /\ Set(u, l) /\ ClientSound(l) /\ l.phase # "new"
                          /\ op = "chunk" => InFlight(k) \ {c} \subseteq InFlight(l)
  <2>1. CASE pc = "received"
    <3>1. Set(u, PartDone(k, c))
      BY <2>1 DEF Receive
    <3> QED BY <1>3, <1>4, <2>1, <3>1, DoneSound
  <2>2. CASE pc = "error" /\ op = "chunk"
    <3>1. Set(u, AttemptFailed(k, c))
      BY <2>2 DEF Receive
    <3> QED BY <1>3, <1>4, <2>2, <3>1, FailedSound
  <2>3. CASE pc = "error" /\ op = "complete"
    <3>1. Set(u, [k EXCEPT !.phase = "failed"])
      BY <2>3 DEF Receive
    <3> QED BY <1>3, <1>4, <2>3, <3>1, EndedSound
  <2>4. CASE pc = "joined"
    <3>1. Set(u, [k EXCEPT !.phase = "done"])
      BY <2>4 DEF Receive
    <3> QED BY <1>3, <1>4, <2>4, <3>1, EndedSound
  <2>5. CASE pc = "missing"
    <3>1. Set(u, Repair(k, Chunks \ seen))
      BY <2>5 DEF Receive
    <3> QED BY <1>3, <1>4, <2>5, <3>1, RepairSound
  <2> QED BY <1>4, <2>1, <2>2, <2>3, <2>4, <2>5
<1>6. handler' \in [Workers -> Busy \cup {Idle}] /\ handler'[w] = Idle
      /\ \A v \in Workers \ {w} : handler'[v] = handler[v]
  BY <1>1 DEF TypeOK
<1>7. TypeOK'
  <2>1. client' \in [Uploads -> Client]
    BY <1>1, <1>5 DEF TypeOK, Set
  <2> QED BY <1>1, <1>6, <2>1 DEF TypeOK, server, failures
<1>8. BrowserInv'
  BY <1>1, <1>2, <1>5, <1>6, <1>7, ClientMoves
<1>9. ServerInv'
  BY <1>1, <1>2, <1>6, ServerRests DEF failures
<1> QED BY <1>7, <1>8, <1>9 DEF UploadInv

LEMMA GiveUpStep ==
  ASSUME UploadInv, NEW w \in Workers, GiveUp(w)
  PROVE  UploadInv'
<1>1. /\ TypeOK /\ BrowserInv /\ ServerInv /\ HandlersAreSound
      /\ handler[w] # Idle /\ handler[w].awaited /\ Waits(w)
      /\ UNCHANGED <<server, restarts>> /\ faults < MaxFaults /\ faults' = faults + 1
  BY DEF UploadInv, ServerInv, GiveUp, Fault, Waits
<1> PICK u \in Uploads, c \in Chunks, op \in {"chunk", "complete"} :
      u = handler[w].upload /\ c = handler[w].chunk /\ op = handler[w].op
  BY <1>1, HandlerIs
<1> PICK k \in Client : k = client[u]
  BY <1>1 DEF TypeOK
<1>3. ClientSound(k)
  BY <1>1 DEF BrowserInv, ClientsAreSound
<1>4. (op = "chunk" => c \in InFlight(k)) /\ (op = "complete" => k.phase = "complete")
  BY <1>1 DEF BrowserInv, AwaitedIsWanted, InFlight
<1>5. PICK l \in Client : /\ Set(u, l) /\ ClientSound(l) /\ l.phase # "new"
                          /\ op = "chunk" => InFlight(k) \ {c} \subseteq InFlight(l)
  <2>1. CASE op = "chunk"
    <3>1. Set(u, AttemptFailed(k, c))
      BY <2>1 DEF GiveUp
    <3> QED BY <1>3, <1>4, <2>1, <3>1, FailedSound
  <2>2. CASE op = "complete"
    <3>1. Set(u, [k EXCEPT !.phase = "failed"])
      BY <2>2 DEF GiveUp
    <3> QED BY <1>3, <1>4, <2>2, <3>1, EndedSound
  <2> QED BY <2>1, <2>2
<1>6. /\ handler' \in [Workers -> Busy \cup {Idle}]
      /\ \A v \in Workers \ {w} : handler'[v] = handler[v]
      /\ \/ handler'[w] = Idle /\ handler[w].pc \notin {"write1", "write2"}
         \/ /\ handler'[w] # Idle /\ handler'[w].awaited = FALSE
            /\ handler'[w].op = handler[w].op /\ handler'[w].upload = handler[w].upload
            /\ handler'[w].chunk = handler[w].chunk /\ handler'[w].pc = handler[w].pc
            /\ handler'[w].seen = handler[w].seen /\ handler'[w].copied = handler[w].copied
  <2>1. CASE handler' = [handler EXCEPT ![w].awaited = FALSE]
    <3>1. Becomes(w, handler[w].pc, handler[w].seen, handler[w].copied, FALSE)
      BY <1>1, <2>1, GivesUpIs
    <3> QED BY <3>1 DEF Becomes
  <2>2. CASE handler[w].pc = "get" /\ handler' = [handler EXCEPT ![w] = Idle]
    BY <1>1, <2>2 DEF TypeOK
  <2> QED BY <2>1, <2>2 DEF GiveUp
<1>7. TypeOK'
  <2>1. client' \in [Uploads -> Client]
    BY <1>1, <1>5 DEF TypeOK, Set
  <2>2. faults' \in 0 .. MaxFaults
    BY <1>1, CountsAssumption DEF TypeOK
  <2> QED BY <1>1, <1>6, <2>1, <2>2 DEF TypeOK, server
<1>8. BrowserInv'
  <2>1. handler'[w] = Idle \/ (handler'[w].upload = u /\ ~handler'[w].awaited)
    BY <1>6
  <2> QED BY <1>1, <1>5, <1>6, <1>7, <2>1, ClientMoves
<1>9. ServerInv'
  BY <1>1, <1>6, ServerRests
<1> QED BY <1>7, <1>8, <1>9 DEF UploadInv

LEMMA DroppedStep ==
  ASSUME UploadInv, NEW w \in Workers, Dropped(w)
  PROVE  UploadInv'
<1>1. /\ TypeOK /\ BrowserInv /\ ServerInv
      /\ handler[w].pc \in {"received", "joined", "missing", "error"}
      /\ handler' = [handler EXCEPT ![w] = Idle] /\ UNCHANGED <<client, server, failures>>
  BY DEF UploadInv, Dropped
<1>2. handler[w] # Idle
  BY <1>1, IdleIsNowhere DEF Pcs
<1>3. handler' \in [Workers -> Busy \cup {Idle}] /\ handler'[w] = Idle
      /\ \A v \in Workers \ {w} : handler'[v] = handler[v]
  BY <1>1 DEF TypeOK
<1>4. TypeOK'
  BY <1>1, <1>3 DEF TypeOK, server, failures
<1>5. BrowserInv'
  BY <1>1, <1>3, FewerRequests DEF KeepsRequest
<1>6. ServerInv'
  BY <1>1, <1>2, <1>3, ServerRests DEF failures
<1> QED BY <1>4, <1>5, <1>6 DEF UploadInv

LEMMA SendStep ==
  ASSUME UploadInv, NEW w \in Workers, NEW u \in Uploads, NEW c \in Chunks,
         NEW op \in {"chunk", "complete"}, Send(w, u, c, op),
         op = "chunk" => client[u].attempt[c] > 0,
         op = "complete" => client[u].phase = "complete" /\ c = 1
  PROVE  UploadInv'
<1> DEFINE h == [op |-> op, upload |-> u, chunk |-> c, awaited |-> TRUE, pc |-> "get",
                 seen |-> {}, copied |-> <<>>]
<1>1. /\ TypeOK /\ BrowserInv /\ ServerInv /\ HandlersAreSound
      /\ handler[w] = Idle /\ handler' = [handler EXCEPT ![w] = h]
      /\ UNCHANGED <<client, meta, parts, registered, faults, restarts>>
  BY DEF UploadInv, ServerInv, Send, server, failures
<1>2. h \in Busy
  <2>1. <<>> \in Seq(Part)
    OBVIOUS
  <2> QED BY <2>1 DEF Busy
<1>3. /\ h.op = op /\ h.upload = u /\ h.chunk = c /\ h.awaited /\ h.pc = "get"
      /\ h.seen = {} /\ h.copied = <<>>
  OBVIOUS
<1> HIDE DEF h
<1>4. h # Idle
  BY <1>2, BusyIs
<1>5. handler' \in [Workers -> Busy \cup {Idle}] /\ handler'[w] = h
      /\ \A v \in Workers \ {w} : handler'[v] = handler[v]
  BY <1>1, <1>2 DEF TypeOK
<1>6. TypeOK'
  BY <1>1, <1>5 DEF TypeOK
<1>7. BrowserInv'
  <2>1. ClientsAreSound'
    BY <1>1 DEF BrowserInv, ClientsAreSound
  <2>2. client[u].phase # "new"
    <3>1. client[u] \in Client /\ ClientSound(client[u])
      BY <1>1 DEF TypeOK, BrowserInv, ClientsAreSound
    <3>2. CASE op = "chunk"
      <4>1. c \in InFlight(client[u])
        BY <3>2 DEF InFlight
      <4> QED BY <3>1, <4>1, PhaseInFlight
    <3> QED BY <3>2
  <2>3. ASSUME NEW v \in Workers, Waits(v)
        PROVE  v # w /\ handler'[v] = handler[v]
               /\ ~(handler[v].op = op /\ handler[v].upload = u /\ handler[v].chunk = c)
    BY <1>1, <1>5, <2>3 DEF Waits, Send, Awaited
  <2>4. ASSUME NEW v \in Workers, Waits(v)', v # w
        PROVE  Waits(v) /\ handler'[v] = handler[v]
    BY <1>5, <2>4 DEF Waits
  <2>5. ASSUME NEW v \in Workers, handler'[v] # Idle
        PROVE  client'[handler'[v].upload].phase # "new"
    BY <1>1, <1>3, <1>5, <2>2, <2>5 DEF BrowserInv, AwaitedIsWanted
  <2>6. ASSUME NEW v \in Workers, Waits(v)'
        PROVE  IF handler'[v].op = "chunk"
               THEN client'[handler'[v].upload].attempt[handler'[v].chunk] > 0
               ELSE client'[handler'[v].upload].phase = "complete"
    <3>1. CASE v = w
      BY <1>1, <1>3, <1>5, <3>1
    <3>2. CASE v # w
      BY <1>1, <2>4, <2>6, <3>2 DEF BrowserInv, AwaitedIsWanted
    <3> QED BY <3>1, <3>2
  <2>7. ASSUME NEW v \in Workers, NEW x \in Workers, Waits(v)', Waits(x)', SameRequest(v, x)'
        PROVE  v = x
    <3>1. CASE v # w /\ x # w
      <4>1. SameRequest(v, x)
        BY <1>5, <2>7, <3>1 DEF SameRequest
      <4> QED BY <1>1, <2>4, <2>7, <3>1, <4>1 DEF BrowserInv, AwaitedIsWanted
    <3>2. CASE v = w /\ x # w
      <4>1. Waits(x) /\ handler'[x] = handler[x]
        BY <2>4, <2>7, <3>2
      <4>2. handler[x].op = op /\ handler[x].upload = u /\ handler[x].chunk = c
        BY <1>3, <1>5, <2>7, <3>2, <4>1 DEF SameRequest
      <4> QED BY <2>3, <4>1, <4>2
    <3>3. CASE x = w /\ v # w
      <4>1. Waits(v) /\ handler'[v] = handler[v]
        BY <2>4, <2>7, <3>3
      <4>2. handler[v].op = op /\ handler[v].upload = u /\ handler[v].chunk = c
        BY <1>3, <1>5, <2>7, <3>3, <4>1 DEF SameRequest
      <4> QED BY <2>3, <4>1, <4>2
    <3> QED BY <3>1, <3>2, <3>3
  <2>8. AwaitedIsWanted'
    BY <2>5, <2>6, <2>7 DEF AwaitedIsWanted
  <2> QED BY <2>1, <2>8 DEF BrowserInv
<1>8. HandlersAreSound'
  <2>1. HandlerSound(h)
    BY <1>3 DEF HandlerSound, OfChunk, OfComplete
  <2> QED BY <1>1, <1>5, <2>1, HandlersStaySound
<1>9. \A v \in Uploads : Keeps(v)
  <2> TAKE v \in Uploads
  <2>1. \A x \in Workers, d \in Chunks :
          /\ At(x, "write1", v, d) => At(x, "write1", v, d)'
          /\ At(x, "write2", v, d) => At(x, "write2", v, d)'
    BY <1>1, <1>5 DEF At
  <2> QED BY <1>1, <2>1, KeptByRest
<1>10. NotedIsStored'
  <2>1. Noted(w)'
    BY <1>3, <1>5 DEF Noted
  <2>2. \A v \in Workers \ {w}, t \in Uploads :
            handler[v] # Idle /\ handler[v].upload = t => Keeps(t)
    BY <1>1, <1>9, HandlerIs
  <2> QED BY <1>1, <1>5, <2>1, <2>2, NotedStays DEF ServerInv
<1>11. ListedIsStored'
  BY <1>1, <1>9, ListedStays DEF ServerInv
<1>12. RegisteredInFull'
  BY <1>1 DEF ServerInv, RegisteredInFull
<1> QED BY <1>6, <1>7, <1>8, <1>10, <1>11, <1>12 DEF UploadInv, ServerInv

\* A new upload: no handler has heard of it.
LEMMA InitStep ==
  ASSUME UploadInv, NEW u \in Uploads, UploadInit(u)
  PROVE  UploadInv'
<1> DEFINE k == Filled([NewClient EXCEPT !.phase = "window"])
<1>1. /\ TypeOK /\ BrowserInv /\ ServerInv /\ client[u].phase = "new"
      /\ client' = [client EXCEPT ![u] = k]
      /\ UNCHANGED <<registered, handler, faults, restarts>>
  BY DEF UploadInv, UploadInit, Set, failures
<1>2. k \in Client /\ ClientSound(k) /\ k.phase = "window"
  BY OpenedSound
<1> HIDE DEF k
<1>3. client' \in [Uploads -> Client] /\ client'[u] = k /\ \A t \in Uploads \ {u} : client'[t] = client[t]
  BY <1>1, <1>2 DEF TypeOK
<1>4. /\ meta' \in [Uploads -> (SUBSET Chunks) \cup {None}] /\ meta'[u] = {}
      /\ \A t \in Uploads \ {u} : meta'[t] = meta[t]
  BY <1>1 DEF UploadInit, TypeOK
<1>5. /\ parts' \in [Uploads -> [Chunks -> Part \cup {None}] \cup {None}]
      /\ \A t \in Uploads \ {u} : parts'[t] = parts[t]
  BY <1>1 DEF UploadInit, TypeOK
<1>6. \A v \in Workers : handler[v] # Idle => handler[v].upload \in Uploads \ {u}
  BY <1>1, HandlerIs DEF BrowserInv, AwaitedIsWanted
<1>7. TypeOK'
  BY <1>1, <1>3, <1>4, <1>5 DEF TypeOK
<1>8. BrowserInv'
  <2>1. ClientsAreSound'
    BY <1>1, <1>2, <1>3 DEF BrowserInv, ClientsAreSound
  <2>2. \A v \in Workers : handler[v] # Idle => client'[handler[v].upload] = client[handler[v].upload]
    BY <1>3, <1>6
  <2>3. \A v \in Workers : Waits(v)' => Waits(v)
    BY <1>1 DEF Waits
  <2>4. \A v, w \in Workers : SameRequest(v, w)' => SameRequest(v, w)
    BY <1>1 DEF SameRequest
  <2>5. AwaitedIsWanted'
    <3>1. \A v \in Workers : handler'[v] # Idle => client'[handler'[v].upload].phase # "new"
      BY <1>1, <2>2 DEF BrowserInv, AwaitedIsWanted
    <3>2. \A w \in Workers : Waits(w)' =>
            IF handler'[w].op = "chunk" THEN client'[handler'[w].upload].attempt[handler'[w].chunk] > 0
                                        ELSE client'[handler'[w].upload].phase = "complete"
      BY <1>1, <2>2, <2>3 DEF BrowserInv, AwaitedIsWanted, Waits
    <3>3. \A v, w \in Workers : Waits(v)' /\ Waits(w)' /\ SameRequest(v, w)' => v = w
      BY <1>1, <2>3, <2>4 DEF BrowserInv, AwaitedIsWanted
    <3> QED BY <3>1, <3>2, <3>3 DEF AwaitedIsWanted
  <2> QED BY <2>1, <2>5 DEF BrowserInv
<1>9. HandlersAreSound' /\ RegisteredInFull'
  BY <1>1 DEF ServerInv, HandlersAreSound, RegisteredInFull
<1>10. \A t \in Uploads \ {u} : Keeps(t)
  BY <1>1, <1>5, KeptByRest DEF At
<1>11. NotedIsStored'
  <2> SUFFICES ASSUME restarts = 0, NEW w \in Workers, handler[w] # Idle
               PROVE  Noted(w)'
    BY <1>1 DEF NotedIsStored
  <2> PICK t \in Uploads, d \in Chunks, seen \in SUBSET Chunks, pc \in Pcs :
        /\ t = handler[w].upload /\ d = handler[w].chunk /\ seen = handler[w].seen /\ pc = handler[w].pc
    BY <1>1, HandlerIs
  <2>2. /\ pc \in {"open", "write1", "write2", "set"} => \A c \in seen : Stored(t, c)
        /\ pc = "set" => Stored(t, d)
        /\ pc \in {"write1", "write2"} => Made(t, d)
        /\ pc = "write2" => Begun(t, d)
    BY <1>1 DEF ServerInv, NotedIsStored, Noted
  <2>3. \A c \in Chunks : /\ Stored(t, c) => Stored(t, c)'
                          /\ Made(t, c) => Made(t, c)'
                          /\ Begun(t, c) => Begun(t, c)'
    BY <1>6, <1>10 DEF Keeps
  <2>4. /\ pc \in {"open", "write1", "write2", "set"} => \A c \in seen : Stored(t, c)'
        /\ pc = "set" => Stored(t, d)'
        /\ pc \in {"write1", "write2"} => Made(t, d)'
        /\ pc = "write2" => Begun(t, d)'
    BY <2>2, <2>3
  <2>5. t = handler'[w].upload /\ d = handler'[w].chunk /\ seen = handler'[w].seen /\ pc = handler'[w].pc
    BY <1>1
  <2> QED BY <2>4, <2>5 DEF Noted
<1>12. ListedIsStored'
  <2> SUFFICES ASSUME restarts = 0, NEW t \in Uploads, meta'[t] # None, NEW c \in meta'[t]
               PROVE  Stored(t, c)'
    BY <1>1 DEF ListedIsStored
  <2>1. t # u /\ meta'[t] = meta[t]
    BY <1>4
  <2>2. c \in Chunks /\ Stored(t, c)
    BY <1>1, <2>1 DEF TypeOK, ServerInv, ListedIsStored
  <2> QED BY <1>10, <2>1, <2>2 DEF Keeps
<1> QED BY <1>7, <1>8, <1>9, <1>11, <1>12 DEF UploadInv, ServerInv

-----------------------------------------------------------------------------
(***************************************************************************)
(* The invariant holds at first, and every step keeps it.                  *)
(***************************************************************************)
LEMMA UploadInvAtFirst == Init => UploadInv
<1> SUFFICES ASSUME Init
             PROVE  UploadInv
  OBVIOUS
<1>1. TypeOK
  BY OpenedSound, CountsAssumption DEF Init, TypeOK
<1>2. \A w \in Workers : handler[w] = Idle
  BY DEF Init
<1>3. ClientsAreSound
  BY OpenedSound DEF Init, ClientsAreSound, ClientSound
<1>4. BrowserInv
  BY <1>2, <1>3 DEF BrowserInv, AwaitedIsWanted, Waits
<1>5. ServerInv
  BY <1>2 DEF Init, ServerInv, HandlersAreSound, NotedIsStored, ListedIsStored, RegisteredInFull
<1> QED BY <1>1, <1>4, <1>5 DEF UploadInv

LEMMA UploadInvIsKept == UploadInv /\ [Next]_vars => UploadInv'
<1> SUFFICES ASSUME UploadInv, [Next]_vars
             PROVE  UploadInv'
  OBVIOUS
<1>1. ASSUME NEW u \in Uploads, UploadInit(u)
      PROVE  UploadInv'
  BY <1>1, InitStep
<1>2. ASSUME NEW u \in Uploads, Expire(u)
      PROVE  UploadInv'
  BY <1>2, ExpireStep
<1>3. ASSUME NEW w \in Workers, Browse(w)
      PROVE  UploadInv'
  <2>1. ASSUME NEW u \in Uploads, SendComplete(w, u)
        PROVE  UploadInv'
    BY <2>1, SendStep, ChunksAre DEF SendComplete
  <2>2. ASSUME NEW u \in Uploads, NEW c \in Chunks, SendChunk(w, u, c)
        PROVE  UploadInv'
    BY <2>2, SendStep DEF SendChunk
  <2> QED BY <1>3, <2>1, <2>2, ReceiveStep, DroppedStep DEF Browse
<1>4. ASSUME NEW w \in Workers, Serve(w)
      PROVE  UploadInv'
  BY <1>4, GetStep, OpenStep, WriteStep, SetStep, MergeGetStep, ReadStep, RegisterStep, CleanupStep
     DEF Serve
<1>5. ASSUME NEW w \in Workers, GiveUp(w)
      PROVE  UploadInv'
  BY <1>5, GiveUpStep
<1>6. CASE Restart
  BY <1>6, RestartStep
<1>7. CASE UNCHANGED vars
  BY <1>7 DEF vars, UploadInv, TypeOK, BrowserInv, ClientsAreSound, AwaitedIsWanted, Waits, SameRequest,
              ServerInv, HandlersAreSound, NotedIsStored, Noted, ListedIsStored, Stored, Made, Begun, At,
              RegisteredInFull
<1> QED BY <1>1, <1>2, <1>3, <1>4, <1>5, <1>6, <1>7 DEF Next

\* Who is writing a part has come to write it.
LEMMA ListedAreStored == UploadInv => ReceivedIsStored
<1> SUFFICES ASSUME UploadInv, NEW u \in Uploads, restarts = 0, meta[u] # None, parts[u] # None,
                    NEW c \in meta[u]
             PROVE  parts[u][c] = Whole \/ BeingWritten(u, c)
  BY DEF ReceivedIsStored
<1>1. Stored(u, c)
  BY DEF UploadInv, ServerInv, ListedIsStored
<1>2. ASSUME NEW w \in Workers, At(w, "write1", u, c) \/ At(w, "write2", u, c)
      PROVE  BeingWritten(u, c)
  <2>1. handler[w].op = "chunk"
    BY <1>2 DEF UploadInv, ServerInv, HandlersAreSound, HandlerSound, OfChunk, At
  <2> QED BY <1>2, <2>1 DEF BeingWritten, Doing, At
<1> QED BY <1>1, <1>2 DEF Stored

\* What the document lists is stored, and what gets a fileId has its full length
\* (not: its content): chunk-storage.service.ts, for any number of parts, uploads, handlers
\* at work on the same part, lost answers, expiries and restarts.
THEOREM UploadsAreWhole == Spec => []PartsAreWhole
<1>1. UploadInv => PartsAreWhole
  BY ListedAreStored DEF PartsAreWhole, UploadInv, ServerInv
<1> QED BY <1>1, UploadInvAtFirst, UploadInvIsKept, PTL DEF Spec
=============================================================================
