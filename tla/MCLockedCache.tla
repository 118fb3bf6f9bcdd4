--------------------------- MODULE MCLockedCache ----------------------------
(* LockedCache for TLC: values of weight 0, 1 and 4 under a limit of 3. *)
EXTENDS LockedCache, TLC

CONSTANTS none, light, heavy

MCValues == {none, light, heavy}
MCEmptyValues == {none}
MCWeight == (none :> 0) @@ (light :> 1) @@ (heavy :> 4)

MCUnweighed == [v \in Values |-> 0]

ThreadSymmetry == Permutations(Threads)
CacheSymmetry == Permutations(Threads) \cup Permutations(Keys)
=============================================================================
