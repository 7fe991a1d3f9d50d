-------------------------- MODULE MCCardActivation --------------------------
(***************************************************************************)
(* Small instances of CardActivation.  A card is named for what it is:     *)
(* "day" a DAY card bound to its first device, "multi" a WEEK card for     *)
(* MaxSeats devices, "free" a PERMANENT card without binding, "trial" a    *)
(* TRIAL card.  The cards share nothing but devices, and OneCard explores  *)
(* each of them alone.  The log row and the answer of the last step are    *)
(* read by nothing: Tables leaves them out of what tells states apart.     *)
(***************************************************************************)
EXTENDS CardActivation, TLC

CONSTANT MaxSeats

MCType ==
  [c \in Cards |-> CASE c = "day" -> "DAY"
                     [] c = "multi" -> "WEEK"
                     [] c = "free" -> "PERMANENT"
                     [] OTHER -> "TRIAL"]

MCStrategy ==
  [c \in Cards |-> CASE c = "multi" -> "N_DEVICES"
                     [] c = "free" -> "NONE"
                     [] OTHER -> "FIRST_BIND"]

Symmetry == Permutations(Devices) \cup Permutations(Workers)

MCMaxDevices == [c \in Cards |-> IF c = "multi" THEN MaxSeats ELSE 1]

OneCard == \A c, k \in Cards : card[c].status # "NEW" /\ card[k].status # "NEW" => c = k

Tables == <<card, devices, bindings, tx, now>>

=============================================================================
