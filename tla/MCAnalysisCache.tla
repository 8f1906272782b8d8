--------------------------- MODULE MCAnalysisCache ---------------------------
(***************************************************************************)
(* Two instances over one directory, two keys and room for one entry, so   *)
(* that every set can evict; two crashes.  Entries of the second instance  *)
(* expire within the tick, as those of a pipeline's own cache do.          *)
(***************************************************************************)
EXTENDS AnalysisCache, TLC

Symmetry == Permutations(Keys)

Lifetimes  == <<1, 0>>
Capacities == <<1, 1>>

==============================================================================
