---------------------------- MODULE MCDiskCache ------------------------------
(* DiskCache for TLC: three small reports and one that takes the whole      *)
(* folder, and the circumstances that each of the properties is about.      *)
EXTENDS DiskCache

CONSTANTS a, b, c, big, l1, l2

MCSize == [k \in Keys |-> IF k = big THEN 4 ELSE 1]

(* Files enough to go over either limit. *)
Full == [loaders |-> {l1}, keys |-> {a, b, c, big}, spoils |-> FALSE]

(* Files that are damaged where they lie. *)
Damaged == [loaders |-> {l1}, keys |-> {a, b, big}, spoils |-> TRUE]

(* Loads that overlap. *)
Loading == [loaders |-> {l1, l2}, keys |-> {a, big}, spoils |-> FALSE]

MCSetups == {Full, Damaged, Loading}

Symmetry == Permutations(Storers) \cup Permutations({a, b})
=============================================================================
