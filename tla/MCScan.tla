-------------------------------- MODULE MCScan --------------------------------
(* Scan for TLC: stories and contents are interchangeable. *)
EXTENDS Scan, TLC

Symmetry == Permutations(Story) \cup Permutations(Version)
===============================================================================
