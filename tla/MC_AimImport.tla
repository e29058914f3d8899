---------------------------- MODULE MC_AimImport ----------------------------
(* The install workflow of one upload, as TLC checks it; the faults, the   *)
(* tarball sizes and the retry budget are given in the .cfg files.         *)
EXTENDS AimImport

=============================================================================
