-------------------------- MODULE MCSummaryPipeline --------------------------
(***************************************************************************)
(* TLC instances of SummaryPipeline.                                       *)
(***************************************************************************)
EXTENDS SummaryPipeline
=============================================================================
