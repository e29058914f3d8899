--------------------------- MODULE MC_PodManager ---------------------------
(* One PodManager for TLC; the bounds are given in the .cfg files.        *)
EXTENDS PodManager
=============================================================================
