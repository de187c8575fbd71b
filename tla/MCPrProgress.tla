---------------------------- MODULE MCPrProgress ----------------------------
(***************************************************************************)
(* PrValidation for TLC's liveness runs, with BullMQ and its worker in a   *)
(* process of its own.  "redis" says whether Redis answers: when it does,  *)
(* one commit is validated by the worker and by the pump; when it does     *)
(* not, every add fails and several commits queue up in memory.            *)
(***************************************************************************)
EXTENDS PrValidation

CONSTANTS
    MemoryShas,     \* commits when Redis does not answer
    MemoryLoad      \* bound on the deliveries not yet dealt with then (model bound)

VARIABLE redis

NotThePump == Tasks \ {Pump}

TheWorkers == Workers

Memory == INSTANCE PrValidation WITH Shas <- MemoryShas, MaxLoad <- MemoryLoad

ProgressInit ==
    \/ redis = "up" /\ Init
    \/ redis = "down" /\ Memory!Init

ProgressNext ==
    /\ UNCHANGED redis
    /\ \/ redis = "up" /\ Next
       \/ redis = "down" /\ Memory!Next /\ UNCHANGED bull

ProgressSpec == ProgressInit /\ [][ProgressNext]_<<vars, redis>> /\ Fairness

(* A job that waits in memory behind others has its turn, however many     *)
(* deliveries of its own and of other commits come after it, while no job  *)
(* throws in the pump.  The commits are interchangeable: those that queue  *)
(* up only when Redis does not answer stand for all.                       *)
WaitingJobsRun == \A job \in Memory!Job \ Job : Memory!HasItsTurn(job)

=============================================================================
