------------------------- MODULE MCDatasetPipeline --------------------------
(***************************************************************************)
(* Files of two batches: rows can be half there.                            *)
(***************************************************************************)
EXTENDS DatasetPipeline, TLC

MCTypes == {"dataset_import", "data_transformation"}

MCPayloads == Jobs \cup {0}

MCRequests == {ImportRequest} \cup {TransformationRequest(s) : s \in Jobs}

\* A constraint: job 1 is an import, and job 2 a transformation of what it imports.
ImportThenTransformation ==
    /\ request[1] \in {NoRequest, ImportRequest}
    /\ request[2] \in {NoRequest, TransformationRequest(1)}

Symmetry == Permutations(Workers)
=============================================================================
