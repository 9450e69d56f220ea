----------------------------- MODULE MCPipeline -----------------------------
(* Two runs in a row, two cells, two rounds.                               *)
EXTENDS Pipeline
=============================================================================
