----------------------- MODULE MCSimulationSession -----------------------
(***************************************************************************)
(* SimulationSession for TLC: handlers are interchangeable.                *)
(***************************************************************************)
EXTENDS SimulationSession, TLC

AllEndpoints == EndpointNames

\* What a learner's client calls: everything but the demo endpoint.
LearnerEndpoints == EndpointNames \ {"run_scenario_skip_wait"}

\* The calls a learner can make by hand, without a model in the loop.
ManualEndpoints == {"patch", "implementation_ready", "verify"}

SymmetricRequests == Permutations(Requests)

==============================================================================
