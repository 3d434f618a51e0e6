------------------------------- MODULE MCStudy -------------------------------
(***************************************************************************)
(* Two runs of the workflow for two commits, or one directory in which      *)
(* every script is called twice, with two interruptions.                    *)
(***************************************************************************)
EXTENDS Study
=============================================================================
