------------------------------ MODULE CatalogsMC ------------------------------
(* Catalogs on small instances.  Nothing tells one process, path or id from another, *)
(* and all that is checked is about steps, so one arrangement stands for all.        *)
EXTENDS Catalogs, TLC

MCSymmetry == Permutations(Procs) \cup Permutations(Paths) \cup Permutations(Ids)
=============================================================================
