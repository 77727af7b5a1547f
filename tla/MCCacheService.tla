--------------------------- MODULE MCCacheService ---------------------------
(***************************************************************************)
(* One read site over one namespace: POST /cohort/search of                *)
(* src/src/cohort/cohort.service.ts, cached under cohort:{t}, which every  *)
(* cohort write bumps.                                                     *)
(***************************************************************************)
EXTENDS CacheService, TLC

OneNamespace == {"cohort"}
OneSite == {"search"}
OneOwnOf == [s \in OneSite |-> "cohort"]
OneScopeOf == [s \in OneSite |-> OneNamespace]
OneWriteSet == {OneNamespace}

\* Requests are interchangeable.
Symmetry == Permutations(Readers) \cup Permutations(Writers)
=============================================================================
