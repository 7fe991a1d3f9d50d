---------------------------- MODULE MCSdkSession ----------------------------
(***************************************************************************)
(* Small instances of SdkSession.  Nonces, sessions and handlers are       *)
(* interchangeable, except that keys are named for calls and sessions, so  *)
(* the three sets are permuted each on its own.                            *)
(***************************************************************************)
EXTENDS SdkSession, TLC, Integers

Symmetry == Permutations(Calls) \cup Permutations(Sessions) \cup Permutations(Workers)

InTimeOnly == {0}
OffByOne == {-1, 0, 1}
=============================================================================
