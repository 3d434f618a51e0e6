-------------------------- MODULE MCDatasetCatalog --------------------------
(***************************************************************************)
(* An instance of DatasetCatalog for TLC.                                   *)
(***************************************************************************)
EXTENDS DatasetCatalog, TLC

Symmetry == Permutations(Requests) \cup Permutations(Contents)
=============================================================================
