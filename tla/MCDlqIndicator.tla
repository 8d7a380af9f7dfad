--------------------------- MODULE MCDlqIndicator ---------------------------
(***************************************************************************)
(* Instances of DlqIndicator for TLC, on the bodies of MCIngestPipeline.   *)
(***************************************************************************)
EXTENDS MCIngestPipeline, DlqIndicator
=============================================================================
