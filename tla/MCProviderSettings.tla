-------------------------- MODULE MCProviderSettings -------------------------
(* ProviderSettings for TLC: nothing tells visits, objects, values or tokens *)
(* apart.                                                                    *)
EXTENDS ProviderSettings, TLC

Symmetry == Permutations(Visits) \cup Permutations(Objects)
              \cup Permutations(Values) \cup Permutations(Tokens)

(* All but applied, which changes nothing and only UpdateIsKept reads. *)
WithoutApplied == <<global, provider, pc, obj, base, fresh, latest, steady>>
=============================================================================
