--------------------------- MODULE MCPipelineRuns ---------------------------
(* Two public runs under their idempotency keys. *)
EXTENDS PipelineRuns
CONSTANTS k1, k2
TwoRunIds == 1..2
MCKeys == {k1, k2}
=============================================================================
