--------------------------- MODULE MCHardeningTask --------------------------
(***************************************************************************)
(* Small instances of HardeningTask.  Earlier tasks are interchangeable    *)
(* but their order in the list matters, so they are not permuted.          *)
(***************************************************************************)
EXTENDS HardeningTask, TLC

=============================================================================
