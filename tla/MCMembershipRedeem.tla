------------------------- MODULE MCMembershipRedeem -------------------------
(***************************************************************************)
(* Small instances of MembershipRedeem.                                    *)
(***************************************************************************)
EXTENDS MembershipRedeem, TLC

CONSTANTS c1, c2

\* One code buys a day, the other three: with a clock of two days a membership
\* may be running or over at the second redemption.
Terms == [c \in Codes |-> IF c = c1 THEN 1 ELSE 3]

Symmetry == Permutations(Workers) \cup Permutations(Developers)

=============================================================================
