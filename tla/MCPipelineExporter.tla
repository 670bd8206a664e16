------------------------- MODULE MCPipelineExporter -------------------------
(* Instances of PipelineExporter for TLC.                                  *)
EXTENDS PipelineExporter

MCModes  == {"ssh", "http"}
MCSsh    == {"ssh"}
MCTiers  == {"tiers"}
MCCycles == {0, 3}
=============================================================================
