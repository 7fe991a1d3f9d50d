---------------------------- MODULE ChunkUpload ----------------------------
(***************************************************************************)
(* The upload of an APK in parts: the browser's chunkedUpload, which keeps *)
(* several parts in flight, retries them and asks for the missing ones,    *)
(* and the server's ChunkStorageService, which writes each part to a file, *)
(* notes it in a JSON document in Redis and finally joins the parts.       *)
(*                                                                         *)
(* Every await of a handler ends a step.  A request whose answer is lost   *)
(* or late is sent again by the browser while its first handler may still  *)
(* be at work.                                                             *)
(***************************************************************************)
EXTENDS Naturals, Sequences, FiniteSets

CONSTANTS
  Uploads,         \* upload ids, one for each call of chunkedUpload
  TotalChunks,     \* parts of the file
  MaxConcurrent,   \* MAX_CONCURRENT
  MaxRetries,      \* MAX_RETRIES: attempts for a part
  MaxComplete,     \* MAX_COMPLETE_RETRIES: rounds of complete
  Workers,         \* request handlers that may run together
  MaxFaults,       \* bound on answers given up and expiries
  MaxRestarts,     \* bound on restarts of the server
  None

ASSUME CountsAssumption ==
  /\ TotalChunks \in Nat \ {0} /\ MaxConcurrent \in Nat \ {0}
  /\ MaxRetries \in Nat \ {0} /\ MaxComplete \in Nat \ {0}
  /\ MaxFaults \in Nat /\ MaxRestarts \in Nat

Chunks == 1 .. TotalChunks

VARIABLES
  client,      \* client[u]: the call of chunkedUpload that made upload u
  meta,        \* meta[u].receivedChunks of the Redis key, None when it is not there
  parts,       \* parts[u]: the directory of part files, None when it is not there
  registered,  \* registered[u]: the parts joined into the file that got a fileId
  handler,     \* handler[w]: the request worker w is handling
  faults,      \* answers given up and expiries so far
  restarts     \* restarts so far

server == <<meta, parts, registered>>
failures == <<faults, restarts>>
vars == <<client, meta, parts, registered, handler, faults, restarts>>

(***************************************************************************)
(* A part is written in two pieces, writeFile's several writes: a file in  *)
(* the making is as long as its last piece, and a piece below it that has  *)
(* been truncated away is a hole of zeros.                                 *)
(***************************************************************************)
Part == [length : 0 .. 2, good : SUBSET {1, 2}]
Truncated == [length |-> 0, good |-> {}]
Written(p, piece) == [length |-> IF p.length < piece THEN piece ELSE p.length,
                      good |-> p.good \cup {piece}]
Whole == [length |-> 2, good |-> {1, 2}]
ASSUME NoneAssumption == None \notin Part

Phases == {"new", "window", "complete", "repair", "done", "failed"}
Client == [phase : Phases,
           next : 0 .. TotalChunks,                 \* queueIdx
           attempt : [Chunks -> 0 .. MaxRetries],   \* 0: not in flight
           completed : SUBSET Chunks,               \* completedSet, also kept in sessionStorage
           missing : SUBSET Chunks,                 \* parts complete has asked for
           round : 0 .. MaxComplete]                \* calls of complete that found some missing
NewClient == [phase |-> "new", next |-> 0, attempt |-> [c \in Chunks |-> 0],
              completed |-> {}, missing |-> {}, round |-> 0]

\* A handler: awaited is FALSE when the browser has given its answer up.
Busy == [op : {"chunk", "complete"}, upload : Uploads, chunk : Chunks, awaited : BOOLEAN,
         pc : {"get", "open", "write1", "write2", "set", "read", "register", "remove",
               "delete", "received", "joined", "missing", "error"},
         seen : SUBSET Chunks,      \* receivedChunks as getMeta read it
         copied : Seq(Part)]        \* the parts appended to the output file
Idle == [pc |-> "idle"]

Init ==
  /\ client = [u \in Uploads |-> NewClient]
  /\ meta = [u \in Uploads |-> None]
  /\ parts = [u \in Uploads |-> None]
  /\ registered = [u \in Uploads |-> None]
  /\ handler = [w \in Workers |-> Idle]
  /\ faults = 0
  /\ restarts = 0

\* An answer is given up or a session expires.
Fault == faults < MaxFaults /\ faults' = faults + 1 /\ UNCHANGED restarts

-----------------------------------------------------------------------------
(***************************************************************************)
(* The browser.                                                            *)
(***************************************************************************)
Set(u, k) == client' = [client EXCEPT ![u] = k]
InFlight(k) == {c \in Chunks : k.attempt[c] > 0}

\* tryNext: fill the window from the queue.  The queue is the whole file: the
\* parts noted in sessionStorage are looked up under the id that init has just
\* made, where there are none.
Filled(k) ==
  LET room == MaxConcurrent - Cardinality(InFlight(k))
      last == IF k.next + room < TotalChunks THEN k.next + room ELSE TotalChunks
  IN  [k EXCEPT !.next = last,
                !.attempt = [c \in Chunks |-> IF c \in (k.next + 1) .. last THEN 1 ELSE @[c]]]

\* chunkedUpload calls init, which makes the directory and the Redis key, and
\* opens the window.  A user starts again when an upload has failed.
UploadInit(u) ==
  /\ client[u].phase = "new"
  /\ \A v \in Uploads \ {u} : client[v].phase \in {"new", "failed"}
  /\ Set(u, Filled([NewClient EXCEPT !.phase = "window"]))
  /\ parts' = [parts EXCEPT ![u] = [c \in Chunks |-> None]]
  /\ meta' = [meta EXCEPT ![u] = {}]
  /\ UNCHANGED <<registered, handler, failures>>

\* The request of u for part c, or for complete, that the browser waits for.
Awaited(w, u, c, op) ==
  /\ handler[w] # Idle
  /\ handler[w].awaited /\ handler[w].upload = u /\ handler[w].chunk = c /\ handler[w].op = op

Send(w, u, c, op) ==
  /\ handler[w] = Idle
  /\ \A v \in Workers : ~Awaited(v, u, c, op)
  /\ handler' = [handler EXCEPT ![w] = [op |-> op, upload |-> u, chunk |-> c, awaited |-> TRUE,
                                        pc |-> "get", seen |-> {}, copied |-> <<>>]]
  /\ UNCHANGED <<client, server, failures>>

SendChunk(w, u, c) == client[u].attempt[c] > 0 /\ Send(w, u, c, "chunk")
SendComplete(w, u) == client[u].phase = "complete" /\ Send(w, u, 1, "complete")

\* An attempt has failed: the next one, or the rejection that ends chunkedUpload.
\* A rejected window goes on: the parts still in flight call tryNext.
AttemptFailed(k, c) ==
  IF k.attempt[c] < MaxRetries THEN [k EXCEPT !.attempt[c] = @ + 1]
  ELSE [k EXCEPT !.attempt[c] = 0, !.phase = "failed"]

\* A part has been received: completedSet and tryNext in the window, the next
\* missing part while repairing, and complete after the last one.
PartDone(k, c) ==
  IF k.phase = "repair"
  THEN LET rest == k.missing \ {c}
           l == [k EXCEPT !.attempt[c] = 0, !.missing = rest]
       IN  IF rest # {} THEN [l EXCEPT !.attempt[CHOOSE d \in rest : \A e \in rest : d <= e] = 1]
           ELSE IF k.round < MaxComplete THEN [l EXCEPT !.phase = "complete"]
           ELSE [l EXCEPT !.phase = "failed"]
  ELSE LET l == [k EXCEPT !.attempt[c] = 0, !.completed = @ \cup {c}]
       IN  IF l.completed = Chunks THEN [l EXCEPT !.phase = "complete"] ELSE Filled(l)

\* complete has found parts missing: they are sent again one after the other.
Repair(k, missing) ==
  [k EXCEPT !.phase = "repair", !.missing = missing, !.round = @ + 1,
            !.attempt[CHOOSE d \in missing : \A e \in missing : d <= e] = 1]

\* The answer to a request arrives.
Receive(w) ==
  LET h == handler[w]
      u == h.upload
      k == client[u]
  IN  /\ h.pc \in {"received", "joined", "missing", "error"} /\ h.awaited
      /\ Set(u, CASE h.pc = "received" -> PartDone(k, h.chunk)
                  [] h.pc = "error" /\ h.op = "chunk" -> AttemptFailed(k, h.chunk)
                  [] h.pc = "error" /\ h.op = "complete" -> [k EXCEPT !.phase = "failed"]
                  [] h.pc = "joined" -> [k EXCEPT !.phase = "done"]
                  [] h.pc = "missing" -> Repair(k, Chunks \ h.seen))
      /\ handler' = [handler EXCEPT ![w] = Idle]
      /\ UNCHANGED <<server, failures>>

\* The browser gives an answer up, whatever becomes of the request: its timeout,
\* a broken connection, an error of the proxy.
GiveUp(w) ==
  LET h == handler[w]
  IN  /\ Fault
      /\ h # Idle /\ h.awaited
      /\ Set(h.upload, IF h.op = "chunk" THEN AttemptFailed(client[h.upload], h.chunk)
                       ELSE [client[h.upload] EXCEPT !.phase = "failed"])
      /\ \/ handler' = [handler EXCEPT ![w].awaited = FALSE]
         \/ h.pc = "get" /\ handler' = [handler EXCEPT ![w] = Idle]
      /\ UNCHANGED server

\* Nobody waits for the answer of a request that was given up.
Dropped(w) ==
  /\ handler[w].pc \in {"received", "joined", "missing", "error"} /\ ~handler[w].awaited
  /\ handler' = [handler EXCEPT ![w] = Idle]
  /\ UNCHANGED <<client, server, failures>>

-----------------------------------------------------------------------------
(***************************************************************************)
(* The server.                                                             *)
(***************************************************************************)
Goto(w, pc) == handler' = [handler EXCEPT ![w].pc = pc]
Doing(w, op, pc) == handler[w] # Idle /\ handler[w].op = op /\ handler[w].pc = pc

\* receiveChunk: the Redis document is read; a part it lists is not written again.
ChunkGet(w) ==
  LET h == handler[w]
  IN  /\ Doing(w, "chunk", "get")
      /\ \/ meta[h.upload] = None /\ Goto(w, "error")
         \/ /\ meta[h.upload] # None
            /\ h.chunk \in meta[h.upload]
            /\ Goto(w, "received")
         \/ /\ meta[h.upload] # None
            /\ h.chunk \notin meta[h.upload]
            /\ handler' = [handler EXCEPT ![w].pc = "open", ![w].seen = meta[h.upload]]
      /\ UNCHANGED <<client, server, failures>>

\* writeFile truncates the part's file, or makes it, in the upload's directory.
ChunkOpen(w) ==
  LET h == handler[w]
  IN  /\ Doing(w, "chunk", "open")
      /\ \/ parts[h.upload] = None /\ Goto(w, "error") /\ UNCHANGED parts
         \/ /\ parts[h.upload] # None
            /\ Goto(w, "write1")
            /\ parts' = [parts EXCEPT ![h.upload][h.chunk] = Truncated]
      /\ UNCHANGED <<client, meta, registered, failures>>

\* It writes the two pieces; what is written to a deleted file is gone.
Wrote(u, c, piece) ==
  parts' = IF parts[u] = None THEN parts
           ELSE [parts EXCEPT ![u][c] = IF @ = None THEN None ELSE Written(@, piece)]

ChunkWrite(w) ==
  LET h == handler[w]
  IN  \/ Doing(w, "chunk", "write1") /\ Wrote(h.upload, h.chunk, 1) /\ Goto(w, "write2")
         /\ UNCHANGED <<client, meta, registered, failures>>
      \/ Doing(w, "chunk", "write2") /\ Wrote(h.upload, h.chunk, 2) /\ Goto(w, "set")
         /\ UNCHANGED <<client, meta, registered, failures>>

\* The document is written back with the part added to what was read.
MutChunkSet(w) ==
  LET h == handler[w]
  IN  /\ Doing(w, "chunk", "set")
      /\ meta' = [meta EXCEPT ![h.upload] = {h.chunk}]
      /\ Goto(w, "received")
      /\ UNCHANGED <<client, parts, registered, failures>>
ChunkSet(w) ==
  LET h == handler[w]
  IN  /\ Doing(w, "chunk", "set")
      /\ meta' = [meta EXCEPT ![h.upload] = h.seen \cup {h.chunk}]
      /\ Goto(w, "received")
      /\ UNCHANGED <<client, parts, registered, failures>>

\* mergeChunks: refused with the missing parts, or joined.
MergeGet(w) ==
  LET h == handler[w]
  IN  /\ Doing(w, "complete", "get")
      /\ \/ meta[h.upload] = None /\ Goto(w, "error")
         \/ /\ meta[h.upload] # None
            /\ handler' = [handler EXCEPT ![w].pc = IF meta[h.upload] = Chunks THEN "read" ELSE "missing",
                                          ![w].seen = meta[h.upload]]
      /\ UNCHANGED <<client, server, failures>>

\* The next part is read and appended.
MergeRead(w) ==
  LET h == handler[w]
      c == Len(h.copied) + 1
  IN  /\ Doing(w, "complete", "read")
      /\ \/ /\ parts[h.upload] = None
            /\ Goto(w, "error")
         \/ /\ parts[h.upload] # None /\ parts[h.upload][c] = None
            /\ Goto(w, "error")
         \/ /\ parts[h.upload] # None /\ parts[h.upload][c] # None
            /\ handler' = [handler EXCEPT ![w].copied = Append(@, parts[h.upload][c]),
                                          ![w].pc = IF c = TotalChunks THEN "register" ELSE "read"]
      /\ UNCHANGED <<client, server, failures>>

\* The size of the whole and its first bytes are checked, then it gets a fileId.
MutAcceptable(copied) == 1 \in copied[1].good
Acceptable(copied) ==
  /\ \A c \in Chunks : copied[c].length = 2
  /\ 1 \in copied[1].good

MergeRegister(w) ==
  LET h == handler[w]
  IN  /\ Doing(w, "complete", "register")
      /\ \/ ~Acceptable(h.copied) /\ Goto(w, "error") /\ UNCHANGED registered
         \/ /\ Acceptable(h.copied)
            /\ registered' = [registered EXCEPT ![h.upload] = h.copied]
            /\ Goto(w, "remove")
      /\ UNCHANGED <<client, meta, parts, failures>>

\* cleanup: the directory, then the Redis key.
MergeRemove(w) ==
  /\ Doing(w, "complete", "remove")
  /\ parts' = [parts EXCEPT ![handler[w].upload] = None]
  /\ Goto(w, "delete")
  /\ UNCHANGED <<client, meta, registered, failures>>

MergeDelete(w) ==
  /\ Doing(w, "complete", "delete")
  /\ meta' = [meta EXCEPT ![handler[w].upload] = None]
  /\ Goto(w, "joined")
  /\ UNCHANGED <<client, parts, registered, failures>>

\* UPLOAD_TTL is over; the part files stay.
Expire(u) ==
  /\ Fault
  /\ meta[u] # None
  /\ meta' = [meta EXCEPT ![u] = None]
  /\ UNCHANGED <<client, parts, registered, handler>>

\* The server restarts: connections break, Redis and the disk stay.
Restart ==
  /\ restarts < MaxRestarts
  /\ restarts' = restarts + 1
  /\ \E w \in Workers : handler[w] # Idle /\ handler[w].pc # "error"
  /\ handler' = [w \in Workers |-> IF handler[w] = Idle \/ ~handler[w].awaited THEN Idle
                                   ELSE [handler[w] EXCEPT !.pc = "error"]]
  /\ UNCHANGED <<client, server, faults>>

Serve(w) ==
  \/ ChunkGet(w) \/ ChunkOpen(w) \/ ChunkWrite(w) \/ ChunkSet(w)
  \/ MergeGet(w) \/ MergeRead(w) \/ MergeRegister(w) \/ MergeRemove(w) \/ MergeDelete(w)

Browse(w) ==
  \/ \E u \in Uploads : SendComplete(w, u) \/ \E c \in Chunks : SendChunk(w, u, c)
  \/ Receive(w) \/ Dropped(w)

Next ==
  \/ \E u \in Uploads : UploadInit(u) \/ Expire(u)
  \/ \E w \in Workers : Browse(w) \/ Serve(w) \/ GiveUp(w)
  \/ Restart

Spec == Init /\ [][Next]_vars

\* The browser's promises and the server's handlers go on; no fairness for the
\* user, for loss, for restarts or for expiry.
FairSpec == Spec /\ \A w \in Workers : WF_vars(Browse(w)) /\ WF_vars(Serve(w))

-----------------------------------------------------------------------------
(***************************************************************************)
(* Properties.                                                             *)
(***************************************************************************)
TypeOK ==
  /\ client \in [Uploads -> Client]
  /\ meta \in [Uploads -> (SUBSET Chunks) \cup {None}]
  /\ parts \in [Uploads -> [Chunks -> Part \cup {None}] \cup {None}]
  /\ registered \in [Uploads -> Seq(Part) \cup {None}]
  /\ handler \in [Workers -> Busy \cup {Idle}]
  /\ faults \in 0 .. MaxFaults
  /\ restarts \in 0 .. MaxRestarts

\* A part the Redis document lists is complete on disk, unless another handler
\* is just writing the same part again: whichever of the handlers that read the
\* same document writes it back last, it lists nothing that is not stored.  (Only
\* a restart, which ends a late handler in its writing, leaves a listed part torn.)
BeingWritten(u, c) ==
  \E w \in Workers : /\ Doing(w, "chunk", "write1") \/ Doing(w, "chunk", "write2")
                     /\ handler[w].upload = u /\ handler[w].chunk = c
ReceivedIsStored ==
  \A u \in Uploads : restarts = 0 /\ meta[u] # None /\ parts[u] # None =>
    \A c \in meta[u] : parts[u][c] = Whole \/ BeingWritten(u, c)

\* A file that gets a fileId has all of its parts in full length, also when a
\* restart or a late handler left one cut short: none that is too short slips
\* through the check of the joined file's size.  What is in the parts is not looked
\* at: one that two handlers wrote at once may have its full length and zeros in
\* it, and is registered.
RegisteredInFull ==
  \A u \in Uploads : registered[u] # None =>
    Len(registered[u]) = TotalChunks /\ \A c \in Chunks : registered[u][c].length = 2

\* What the document lists is stored, and what gets a fileId is there in full length.
PartsAreWhole == TypeOK /\ ReceivedIsStored /\ RegisteredInFull

\* Without a lost answer every upload is done: parts that concurrent handlers
\* drop from the document, each writing back the list it read, are found by
\* complete and sent again.
UploadCompletes ==
  \A u \in Uploads : client[u].phase = "window" ~> client[u].phase = "done" \/ faults + restarts > 0

\* However many answers are lost, an upload ends, in success or in an error.
UploadEnds == \A u \in Uploads : client[u].phase = "window" ~> client[u].phase \in {"done", "failed"}

\* Both of them: every upload ends, and only a fault keeps it from being done.
UploadSettles == UploadEnds /\ UploadCompletes

\* HARDENING_SUBFEATURES_SPEC, acceptance G: no part is dropped, each one the server
\* has confirmed is in the document.  (A handler writes back the list it read.)
NothingDropped ==
  \A u \in Uploads : client[u].phase = "window" => client[u].completed \subseteq meta[u]

=============================================================================
