--------------------------- MODULE MCChunkUpload ---------------------------
(***************************************************************************)
(* Small instances of ChunkUpload.                                         *)
(***************************************************************************)
EXTENDS ChunkUpload, TLC

Symmetry == Permutations(Workers)

=============================================================================
