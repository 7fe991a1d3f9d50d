---------------------------- MODULE WarnThrottle ----------------------------
(***************************************************************************)
(* defender_warn_throttle of defender_response.c: which of the warnings of *)
(* the process are shown and reported.  The mutex makes each call one      *)
(* step, so that what a process does is a sequence of calls.  A key is a   *)
(* sequence of characters; what does not fit into a slot is cut off.  The  *)
(* clock, time(NULL), is assumed not to be set back.                       *)
(***************************************************************************)
EXTENDS Integers, Sequences, FiniteSets

CONSTANTS
  Slots,        \* THROTTLE_TABLE_SIZE (32)
  KeyCells,     \* THROTTLE_KEY_MAX_LEN - 1 (63)
  Keys,         \* the keys of the warnings; an empty one is not throttled
  Period,       \* throttle_ms in seconds
  Horizon,      \* bound on the clock
  MaxCalls      \* bound on the calls

ASSUME ThrottleAssumption ==
  /\ Slots \in Nat \ {0} /\ KeyCells \in Nat \ {0} /\ MaxCalls \in Nat
  /\ Period \in Nat /\ Horizon \in Nat
  /\ \A key \in Keys : key \in Seq(STRING) /\ Len(key) > 0

Free == [key |-> <<>>, at |-> 0]
EmptyTable == [i \in 1 .. Slots |-> Free]

First(S) == CHOOSE i \in S : \A j \in S : i <= j
Cut(key) == IF Len(key) <= KeyCells THEN key ELSE SubSeq(key, 1, KeyCells)

\* The slot that a new key takes: the first free one, or the first of those that
\* were reported longest ago.
MutSlotFor(table) ==
  LET free == {i \in 1 .. Slots : table[i].key = <<>>} IN IF free # {} THEN First(free) ELSE 1

SlotFor(table) ==
  LET free == {i \in 1 .. Slots : table[i].key = <<>>} IN
  IF free # {} THEN First(free)
  ELSE First({i \in 1 .. Slots : \A j \in 1 .. Slots : table[i].at <= table[j].at})

\* The slots of a key, which is compared in full with what they hold; the first of
\* them decides whether the call waits, and is the one that a report renews.
Mine(table, key) == {i \in 1 .. Slots : table[i].key = key}
Waits(table, call) ==
  LET mine == Mine(table, call.key) IN mine # {} /\ call.at - table[First(mine)].at < Period
SlotOf(table, call) ==
  LET mine == Mine(table, call.key) IN IF mine # {} THEN First(mine) ELSE SlotFor(table)
Throttle(table, call) ==
  IF Waits(table, call) THEN table
  ELSE [table EXCEPT ![SlotOf(table, call)] = [key |-> Cut(call.key), at |-> call.at]]

\* The table before and after each call, and the answers.
Tables(calls) ==
  LET table[n \in 0 .. Len(calls)] ==
        IF n = 0 THEN EmptyTable ELSE Throttle(table[n - 1], calls[n])
  IN  table
Answers(calls) ==
  LET table == Tables(calls) IN
  [n \in 1 .. Len(calls) |-> IF Waits(table[n - 1], calls[n]) THEN 0 ELSE 1]

-----------------------------------------------------------------------------
(* Properties *)

Clocks == {clock \in [1 .. MaxCalls -> 0 .. Horizon] : \A i \in 2 .. MaxCalls : clock[i - 1] <= clock[i]}

\* How many reports may have taken a slot of their own since that of call i, in
\* the same second included, before call j.
Claimed(calls, answers, i, j) ==
  Cardinality({k \in 1 .. j - 1 :
    k # i /\ answers[k] = 1 /\ calls[k].at >= calls[i].at /\ calls[k].key # calls[i].key})

\* A warning is reported when nothing of its name was in the last period, and it
\* is held back in the period after its own report, unless the table has been
\* taken over by other keys meanwhile.  Keys that are cut are reported always,
\* and stand for the key they are cut to.
CallsAreSpaced ==
  \A keys \in [1 .. MaxCalls -> Keys], clock \in Clocks :
    LET calls == [i \in 1 .. MaxCalls |-> [key |-> keys[i], at |-> clock[i]]]
        answers == Answers(calls) IN
    \A j \in 1 .. MaxCalls :
      LET recent == {i \in 1 .. j - 1 : answers[i] = 1 /\ calls[j].at - calls[i].at < Period} IN
      /\ (\A i \in recent : Cut(calls[i].key) # calls[j].key) => answers[j] = 1
      /\ Len(calls[j].key) > KeyCells => answers[j] = 1
      /\ \A i \in recent :
           /\ calls[i].key = calls[j].key /\ Len(calls[j].key) <= KeyCells
           /\ Claimed(calls, answers, i, j) < Slots
           => answers[j] = 0
=============================================================================
