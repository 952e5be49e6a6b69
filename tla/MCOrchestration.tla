-------------------------- MODULE MCOrchestration --------------------------
(* Model values and bounds for checking Orchestration with TLC.           *)
EXTENDS Orchestration

CONSTANTS r1, r2

MCRuntimes == {r1, r2}
=============================================================================
