--------------------------- MODULE MCTrainingData ---------------------------
(***************************************************************************)
(* Four samples an hour, one fold, one hour of validation.                  *)
(***************************************************************************)
EXTENDS TrainingData

MCReading == [s \in 0..MaxSamples |-> 2 * s]

MCPeriods == <<[start |-> 4, end |-> 5]>>
=============================================================================
