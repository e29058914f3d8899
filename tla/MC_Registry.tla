---------------------------- MODULE MC_Registry ----------------------------
(* The registry API instantiated for TLC: clients, tags and contents are  *)
(* model values.  Clients are interchangeable, and so are tags, since     *)
(* names::rfc1035_label draws them at random.                              *)
EXTENDS Registry, TLC

CONSTANTS c1, c2, c3, t1, t2, x1, x2

Symmetry == Permutations(Clients) \cup Permutations(Tags)

=============================================================================
