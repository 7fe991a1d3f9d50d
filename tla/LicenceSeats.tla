---------------------------- MODULE LicenceSeats ----------------------------
(***************************************************************************)
(* What a card key promises, without transactions, rows or clocks: a card  *)
(* has a number of seats; taking the first one activates the card for      *)
(* good, a seat is taken by one device at a time, and only the developer   *)
(* frees one.                                                              *)
(***************************************************************************)
EXTENDS Naturals, FiniteSets

CONSTANTS
  Cards, Devices,
  Capacity    \* Capacity[c]: the seats of card c

VARIABLES
  seats,      \* seats[c]: the devices that hold a seat of c
  activated   \* the cards that have been activated

vars == <<seats, activated>>

Init ==
  /\ seats = [c \in Cards |-> {}]
  /\ activated = {}

\* A device takes a free seat.
Claim(c, d) ==
  /\ d \notin seats[c]
  /\ Cardinality(seats[c]) < Capacity[c]
  /\ seats' = [seats EXCEPT ![c] = @ \cup {d}]
  /\ activated' = activated \cup {c}

\* The developer frees the seats device d holds on the cards in C.
Release(d, C) ==
  /\ seats' = [c \in Cards |-> IF c \in C THEN seats[c] \ {d} ELSE seats[c]]
  /\ UNCHANGED activated

Next ==
  \/ \E c \in Cards, d \in Devices : Claim(c, d)
  \/ \E d \in Devices, C \in SUBSET Cards : Release(d, C)

Spec == Init /\ [][Next]_vars
=============================================================================
