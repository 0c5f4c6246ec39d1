------------------------- MODULE MCWorkerController -------------------------
(* Model-checking instances of WorkerController: two jobs of one tenant,   *)
(* or a third of another; callers, replicas and workers are numbered.      *)
EXTENDS WorkerController

TwoJobs == 1..2
ThreeJobs == 1..3
MCTenantId == [j \in Jobs |-> IF j = 3 THEN "b" ELSE "a"]
MCWeight == [j \in Jobs |-> j]
MCEnqueuedAt == [j \in Jobs |-> j]

\* One thread per replica, each serving its own worker.
OwnReplica == [c \in Callers |-> c]
OwnWorker == [c \in Callers |-> {c}]

\* Nobody drains, or caller 2 drains the worker of caller 1.
NoDrains == [c \in Callers |-> {}]
OutsiderDrains == [c \in Callers |-> IF c = 2 THEN {1} ELSE {}]
=============================================================================
