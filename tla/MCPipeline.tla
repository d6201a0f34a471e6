----------------------------- MODULE MCPipeline -----------------------------
EXTENDS Pipeline

(* Bounds on what dies: the two programs twice between them, and ulog2file *)
(* only while the first lines come.                                        *)
EarlyDeaths ==
    /\ deaths + killed <= 2
    /\ deaths > 0 => arrived <= 6
=============================================================================
