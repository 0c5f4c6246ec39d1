-------------------------- MODULE WorkerController --------------------------
(***************************************************************************)
(* RedisWorkerController (persistence/worker.py): job assignment, drain    *)
(* and release by the threads of several replicas, coordinated through one *)
(* Redis; dead letters go to PostgreSQL.                                   *)
(*                                                                         *)
(* A step is one Redis command (or one PostgreSQL transaction) with the    *)
(* process-local code that follows it, up to the next command.  A Redis    *)
(* command may fail with RedisError before taking effect.  The ARQ queue   *)
(* is external: it hands a job to one caller at a time and takes back what *)
(* was not accepted, what a release returned, and what a dead process held.*)
(***************************************************************************)
EXTENDS WeightedFairDispatcher, FiniteSets

CONSTANTS
  Callers,     \* threads calling the controller, each one call at a time
  Replicas,    \* controller instances, one per process
  ReplicaOf,   \* the instance a caller uses
  Workers,
  Assigns,     \* caller -> workers it fetches jobs for
  Drains,      \* caller -> workers it drains and releases
  Times,       \* values of `now`
  MaxFaults,   \* bound: failed commands, failed inserts, dead processes
  MaxOutside,  \* bound: drains and releases by a thread not the worker's own
  None

ASSUME WorkerAssumption ==
  /\ ReplicaOf \in [Callers -> Replicas]
  /\ Assigns \in [Callers -> SUBSET Workers]
  /\ Drains \in [Callers -> SUBSET Workers]
  /\ Times \subseteq Int
  /\ MaxFaults \in Nat /\ MaxOutside \in Nat
  /\ None \notin Jobs \cup Workers
  /\ IsFiniteSet(Workers)

\* A worker asks for its jobs in one thread.  Any thread of any replica may
\* drain it and release what it runs.
ASSUME OneThreadPerWorker ==
  \A c, d \in Callers : c # d => Assigns[c] \cap Assigns[d] = {}

VARIABLES
  \* Redis
  active_jobs,    \* hash: worker -> job
  in_flight,      \* counter per tenant, a missing key reads 0
  drain_lease,    \* lease keys, which expire
  draining_set,   \* set of draining workers, which does not
  \* PostgreSQL
  dead_letters,   \* number of records per job
  \* processes
  local_active_jobs, local_draining_workers,
  pc, call,
  running,        \* the job a worker executes
  queue,          \* jobs waiting in ARQ
  faults,
  \* history
  overlapped,     \* two assign calls were under way at once
  outside,        \* drains and releases by threads not the worker's own
  crossed         \* two calls changed one slot at once, or, with outsiders
                  \* about, a release took a job its worker did not execute

redis == <<active_jobs, in_flight, drain_lease, draining_set>>
local == <<local_active_jobs, local_draining_workers>>
world == <<running, queue>>
past  == <<overlapped, outside, crossed>>
vars  == <<redis, dead_letters, local, pc, call, world, faults, past>>

NoCall == [worker |-> None, job |-> None, kind |-> "none"]

Init ==
  /\ active_jobs = [w \in Workers |-> None]
  /\ in_flight = [t \in Tenants |-> 0]
  /\ drain_lease = {} /\ draining_set = {}
  /\ dead_letters = [j \in Jobs |-> 0]
  /\ local_active_jobs = [r \in Replicas |-> [w \in Workers |-> None]]
  /\ local_draining_workers = [r \in Replicas |-> {}]
  /\ pc = [c \in Callers |-> "idle"]
  /\ call = [c \in Callers |-> NoCall]
  /\ running = [w \in Workers |-> None]
  /\ queue = Jobs
  /\ faults = 0
  /\ overlapped = FALSE /\ outside = 0 /\ crossed = FALSE

Goto(c, label) == pc' = [pc EXCEPT ![c] = label] /\ UNCHANGED call
Done(c) == pc' = [pc EXCEPT ![c] = "idle"] /\ call' = [call EXCEPT ![c] = NoCall]

NoFault == UNCHANGED faults
Fault == faults < MaxFaults /\ faults' = faults + 1

SetLocal(r, w, j) ==
  local_active_jobs' = [local_active_jobs EXCEPT ![r][w] = j]

\* _tenant_in_flight when Redis does not answer.
LocalInFlight(r, t) ==
  Cardinality({w \in Workers : /\ local_active_jobs[r][w] # None
                               /\ tenant_id[local_active_jobs[r][w]] = t})

-----------------------------------------------------------------------------
(* select_next_job() and assign().                                         *)

InFlight(r) == [t \in Tenants |-> LocalInFlight(r, t)]

\* A worker without a job looks for one; ARQ hands out the selected job.
SelectNextJob(c, w, now) ==
  /\ pc[c] = "idle" /\ w \in Assigns[c] /\ running[w] = None
  /\ \E j \in Jobs :
       /\ \/ j \in select_next_job(queue, in_flight, now) /\ NoFault
          \/ j \in select_next_job(queue, InFlight(ReplicaOf[c]), now) /\ Fault
       /\ queue' = queue \ {j}
       /\ call' = [call EXCEPT ![c] = [worker |-> w, job |-> j,
                                       kind |-> "assign"]]
       /\ pc' = [pc EXCEPT ![c] = "check_draining"]
  /\ UNCHANGED <<redis, dead_letters, local, running>>

\* assign() raises: the job stays in the queue.
Refuse(c) == queue' = queue \cup {call[c].job} /\ Done(c)

RefuseIf(c, condition, label) ==
  IF condition THEN Refuse(c) ELSE Goto(c, label) /\ UNCHANGED queue

\* `worker_id in self.draining_workers`
CheckDraining(c) ==
  /\ pc[c] = "check_draining"
  /\ \/ /\ RefuseIf(c, call[c].worker \in draining_set, "check_lease")
        /\ NoFault
     \/ /\ RefuseIf(c, call[c].worker \in local_draining_workers[ReplicaOf[c]],
                    "check_lease")
        /\ Fault
  /\ UNCHANGED <<redis, dead_letters, local, running>>

\* _lease_exists
CheckLease(c) ==
  /\ pc[c] = "check_lease"
  /\ \/ RefuseIf(c, call[c].worker \in drain_lease, "check_limit") /\ NoFault
     \/ /\ RefuseIf(c, call[c].worker \in local_draining_workers[ReplicaOf[c]],
                    "check_limit")
        /\ Fault
  /\ UNCHANGED <<redis, dead_letters, local, running>>

AtLimit(n) == n >= per_tenant_concurrency

\* Below the limit the local entry is made at once.
LimitChecked(c, reached) ==
  /\ RefuseIf(c, reached, "hset")
  /\ IF reached THEN UNCHANGED local_active_jobs
     ELSE SetLocal(ReplicaOf[c], call[c].worker, call[c].job)

\* _tenant_in_flight and the concurrency limit.
CheckLimit(c) ==
  /\ pc[c] = "check_limit"
  /\ LET t == tenant_id[call[c].job] IN
     \/ LimitChecked(c, AtLimit(in_flight[t])) /\ NoFault
     \/ LimitChecked(c, AtLimit(LocalInFlight(ReplicaOf[c], t))) /\ Fault
  /\ UNCHANGED <<redis, dead_letters, local_draining_workers, running>>

\* HSET; when it fails the local entry is popped.
AssignHset(c) ==
  /\ pc[c] = "hset"
  /\ \/ /\ active_jobs' = [active_jobs EXCEPT ![call[c].worker] = call[c].job]
        /\ Goto(c, "incr") /\ NoFault
        /\ UNCHANGED <<queue, local_active_jobs>>
     \/ /\ SetLocal(ReplicaOf[c], call[c].worker, None)
        /\ Refuse(c) /\ Fault
        /\ UNCHANGED active_jobs
  /\ UNCHANGED <<in_flight, drain_lease, draining_set, dead_letters,
                 local_draining_workers, running>>

\* Mutant: an assignment is not counted.
SlotNotCounted(t) == in_flight

SlotTaken(t) == [in_flight EXCEPT ![t] = @ + 1]

\* INCRBY; when it fails the hash entry stays behind.
AssignIncr(c) ==
  /\ pc[c] = "incr"
  /\ \/ /\ in_flight' = SlotTaken(tenant_id[call[c].job])
        /\ running' = [running EXCEPT ![call[c].worker] = call[c].job]
        /\ Done(c) /\ NoFault
        /\ UNCHANGED <<queue, local_active_jobs>>
     \/ /\ SetLocal(ReplicaOf[c], call[c].worker, None)
        /\ Refuse(c) /\ Fault
        /\ UNCHANGED <<in_flight, running>>
  /\ UNCHANGED <<active_jobs, drain_lease, draining_set, dead_letters,
                 local_draining_workers>>

-----------------------------------------------------------------------------
(* begin_drain().                                                          *)

\* Thread c drains or releases worker w, which may be another thread's.
Count(c, w) ==
  IF w \in Assigns[c] THEN UNCHANGED outside
  ELSE outside < MaxOutside /\ outside' = outside + 1

\* _get_active_job: the local entry first, then HGET, which fills the cache.
ActiveJob(r, w) == IF local_active_jobs[r][w] # None
                   THEN local_active_jobs[r][w] ELSE active_jobs[w]

BeginDrain(c, w) ==
  /\ pc[c] = "idle" /\ w \in Drains[c] /\ Count(c, w)
  /\ LET r == ReplicaOf[c] IN
       /\ \/ SetLocal(r, w, ActiveJob(r, w)) /\ NoFault
          \/ /\ local_active_jobs[r][w] = None
             /\ Fault /\ UNCHANGED local_active_jobs
       /\ local_draining_workers' =
            [local_draining_workers EXCEPT ![r] = @ \cup {w}]
  /\ pc' = [pc EXCEPT ![c] = "set_lease"]
  /\ call' = [call EXCEPT ![c] = [NoCall EXCEPT !.worker = w, !.kind = "drain"]]
  /\ UNCHANGED <<redis, dead_letters, world>>

SetLease(c) ==
  /\ pc[c] = "set_lease"
  /\ \/ /\ drain_lease' = drain_lease \cup {call[c].worker}
        /\ Goto(c, "sadd") /\ NoFault
     \/ Done(c) /\ Fault /\ UNCHANGED drain_lease
  /\ UNCHANGED <<active_jobs, in_flight, draining_set, dead_letters, local,
                 world>>

AddDraining(c) ==
  /\ pc[c] = "sadd"
  /\ \/ draining_set' = draining_set \cup {call[c].worker} /\ NoFault
     \/ Fault /\ UNCHANGED draining_set
  /\ Done(c)
  /\ UNCHANGED <<active_jobs, in_flight, drain_lease, dead_letters, local,
                 world>>

\* The TTL of the lease key.
LeaseExpires(w) ==
  /\ w \in drain_lease
  /\ drain_lease' = drain_lease \ {w}
  /\ UNCHANGED <<active_jobs, in_flight, draining_set, dead_letters, local,
                 pc, call, world, faults, past>>

-----------------------------------------------------------------------------
(* checkpoint_and_release() and capture_terminal_failure().                *)

\* The thread of a worker ends the job it executes; whoever began a drain
\* releases the worker.
MayRelease(c, w) ==
  \/ w \in Assigns[c] /\ running[w] # None
  \/ w \in Drains[c] /\ w \in local_draining_workers[ReplicaOf[c]]

RequireActiveJob(job) == job # None

\* Mutant: the worker goes on with the job it gave up.
WorkerNotStopped(r, w, job) ==
  /\ SetLocal(r, w, None)
  /\ local_draining_workers' = [local_draining_workers EXCEPT ![r] = @ \ {w}]
  /\ UNCHANGED running

\* Both local entries go and the worker is done with the job: the caller
\* hands in its checkpoint, or the error it ended with.
DropLocal(r, w, job) ==
  /\ SetLocal(r, w, None)
  /\ local_draining_workers' = [local_draining_workers EXCEPT ![r] = @ \ {w}]
  /\ running' = IF running[w] = job THEN [running EXCEPT ![w] = None]
                                    ELSE running

\* _require_active_job; without one, or when HGET fails, it raises KeyError
\* and nothing changes.  checkpoint_and_release goes on to the local entries.
Release(c, w, kind) ==
  /\ pc[c] = "idle" /\ MayRelease(c, w) /\ Count(c, w)
  /\ LET r == ReplicaOf[c]
         job == ActiveJob(r, w)
     IN /\ RequireActiveJob(job)
        /\ call' = [call EXCEPT ![c] = [worker |-> w, job |-> job,
                                        kind |-> kind]]
        /\ \/ /\ kind = "checkpoint"
              /\ pc' = [pc EXCEPT ![c] = "hdel"]
              /\ DropLocal(r, w, job)
           \/ /\ kind = "dead_letter"
              /\ pc' = [pc EXCEPT ![c] = "insert"]
              /\ SetLocal(r, w, job)
              /\ UNCHANGED <<local_draining_workers, running>>
  /\ UNCHANGED <<redis, dead_letters, queue, faults>>

\* Mutant: the cleanup goes on although the record was not written.
InsertFailureIgnored(c) ==
  Goto(c, "hdel") /\ DropLocal(ReplicaOf[c], call[c].worker, call[c].job)

\* The insert raises: capture_terminal_failure ends, the job keeps its slot.
InsertFailed(c) == Done(c) /\ UNCHANGED <<local, running>>

InsertDeadLetter(c) ==
  /\ pc[c] = "insert"
  /\ \/ /\ dead_letters' = [dead_letters EXCEPT ![call[c].job] = @ + 1]
        /\ DropLocal(ReplicaOf[c], call[c].worker, call[c].job)
        /\ Goto(c, "hdel") /\ NoFault
     \/ InsertFailed(c) /\ Fault /\ UNCHANGED dead_letters
  /\ UNCHANGED <<redis, queue>>

\* A failed command ends the cleanup silently; the call returns the job, and
\* a released one is queued again with its checkpoint.
Cleaned(c) ==
  /\ queue' = IF call[c].kind = "checkpoint" THEN queue \cup {call[c].job}
                                             ELSE queue
  /\ Done(c)

Hdel(c) ==
  /\ pc[c] = "hdel"
  /\ \/ /\ active_jobs' = [active_jobs EXCEPT ![call[c].worker] = None]
        /\ Goto(c, "decr") /\ NoFault /\ UNCHANGED queue
     \/ Cleaned(c) /\ Fault /\ UNCHANGED active_jobs
  /\ UNCHANGED <<in_flight, drain_lease, draining_set, dead_letters, local,
                 running>>

\* Mutant: the tenant's slot is not given back.
SlotKept(t) == in_flight

SlotFreed(t) == [in_flight EXCEPT ![t] = @ - 1]

Decr(c) ==
  /\ pc[c] = "decr"
  /\ \/ /\ in_flight' = SlotFreed(tenant_id[call[c].job])
        /\ Goto(c, "del_lease") /\ NoFault /\ UNCHANGED queue
     \/ Cleaned(c) /\ Fault /\ UNCHANGED in_flight
  /\ UNCHANGED <<active_jobs, drain_lease, draining_set, dead_letters, local,
                 running>>

DeleteLease(c) ==
  /\ pc[c] = "del_lease"
  /\ \/ /\ drain_lease' = drain_lease \ {call[c].worker}
        /\ Goto(c, "srem") /\ NoFault /\ UNCHANGED queue
     \/ Cleaned(c) /\ Fault /\ UNCHANGED drain_lease
  /\ UNCHANGED <<active_jobs, in_flight, draining_set, dead_letters, local,
                 running>>

RemoveDraining(c) ==
  /\ pc[c] = "srem"
  /\ \/ draining_set' = draining_set \ {call[c].worker} /\ NoFault
     \/ Fault /\ UNCHANGED draining_set
  /\ Cleaned(c)
  /\ UNCHANGED <<active_jobs, in_flight, drain_lease, dead_letters, local,
                 running>>

-----------------------------------------------------------------------------
\* A process dies with what it held in memory and starts again; ARQ queues
\* the jobs it was executing or handing out once more.
Crash(r) ==
  LET threads == {c \in Callers : ReplicaOf[c] = r}
      workers == UNION {Assigns[c] : c \in threads}
      held    == {running[w] : w \in workers}
                 \cup {call[c].job : c \in {d \in threads :
                                              call[d].kind # "dead_letter"}}
  IN /\ Fault
     /\ local_active_jobs' =
          [local_active_jobs EXCEPT ![r] = [w \in Workers |-> None]]
     /\ local_draining_workers' = [local_draining_workers EXCEPT ![r] = {}]
     /\ pc' = [c \in Callers |-> IF c \in threads THEN "idle" ELSE pc[c]]
     /\ call' = [c \in Callers |-> IF c \in threads THEN NoCall ELSE call[c]]
     /\ running' = [w \in Workers |-> IF w \in workers THEN None
                                                       ELSE running[w]]
     /\ queue' = queue \cup (held \ {None})
     /\ UNCHANGED <<redis, dead_letters, past>>

Assigning == {"check_draining", "check_lease", "check_limit", "hset", "incr"}

\* An assign or a release of worker w is under way in thread c.
Holds(c, w) ==
  call[c].worker = w /\ call[c].kind \in {"assign", "checkpoint", "dead_letter"}

RecordPast ==
  /\ overlapped' = (overlapped \/ \E c, d \in Callers :
                      c # d /\ pc'[c] \in Assigning /\ pc'[d] \in Assigning)
  /\ crossed' =
       (\/ crossed
        \/ \E c, d \in Callers, w \in Workers :
             c # d /\ Holds(c, w)' /\ Holds(d, w)'
        \/ /\ outside' > 0
           /\ \E c \in Callers :
                /\ pc[c] = "idle" /\ pc'[c] \in {"hdel", "insert"}
                /\ call'[c].job # running[call'[c].worker])

ControllerStep(c) ==
  \/ /\ \/ \E w \in Workers, now \in Times : SelectNextJob(c, w, now)
        \/ CheckDraining(c) \/ CheckLease(c) \/ CheckLimit(c)
        \/ AssignHset(c) \/ AssignIncr(c)
        \/ SetLease(c) \/ AddDraining(c) \/ InsertDeadLetter(c)
        \/ Hdel(c) \/ Decr(c) \/ DeleteLease(c) \/ RemoveDraining(c)
     /\ UNCHANGED outside
  \/ \E w \in Workers : BeginDrain(c, w)
  \/ \E w \in Workers, kind \in {"checkpoint", "dead_letter"} :
       Release(c, w, kind)

CallerStep(c) == ControllerStep(c) /\ RecordPast

Next ==
  \/ \E c \in Callers : CallerStep(c)
  \/ \E w \in Workers : LeaseExpires(w)
  \/ \E r \in Replicas : Crash(r)

Spec == Init /\ [][Next]_vars

\* A thread goes on with the call it is in, or asks for a job, and Redis
\* answers.
Works(c) ==
  /\ CallerStep(c) /\ NoFault
  /\ pc[c] # "idle" \/ pc'[c] = "check_draining"

\* Every thread does so; nobody has to drain, and no job has to end.
FairSpec == Spec /\ \A c \in Callers : WF_vars(Works(c))

-----------------------------------------------------------------------------
(* Properties.                                                             *)

Labels == {"idle", "check_draining", "check_lease", "check_limit", "hset",
           "incr", "set_lease", "sadd", "insert", "hdel", "decr",
           "del_lease", "srem"}

\* Type invariant: a call under way knows its worker, and its job unless it
\* is a drain.
TypeOK ==
  /\ active_jobs \in [Workers -> Jobs \cup {None}]
  /\ in_flight \in [Tenants -> Int]
  /\ drain_lease \subseteq Workers /\ draining_set \subseteq Workers
  /\ dead_letters \in [Jobs -> Nat]
  /\ local_active_jobs \in [Replicas -> [Workers -> Jobs \cup {None}]]
  /\ local_draining_workers \in [Replicas -> SUBSET Workers]
  /\ pc \in [Callers -> Labels]
  /\ \A c \in Callers :
       /\ call[c] \in [worker: Workers \cup {None}, job: Jobs \cup {None},
                       kind: {"none", "assign", "drain", "checkpoint",
                              "dead_letter"}]
       /\ pc[c] \in {"set_lease", "sadd"} => call[c].worker # None
       /\ pc[c] \notin {"idle", "set_lease", "sadd"} =>
            call[c].worker # None /\ call[c].job # None
  /\ running \in [Workers -> Jobs \cup {None}]
  /\ queue \subseteq Jobs
  /\ faults \in 0..MaxFaults
  /\ overlapped \in BOOLEAN /\ outside \in 0..MaxOutside /\ crossed \in BOOLEAN

RunningOf(t) == {w \in Workers : running[w] # None /\ tenant_id[running[w]] = t}

\* "no two workers accept a job that would exceed a tenant's concurrency
\* limit": no tenant ever occupies more than per_tenant_concurrency workers.
LimitAlwaysHolds ==
  \A t \in Tenants : Cardinality(RunningOf(t)) <= per_tenant_concurrency

\* The limit holds across replicas as long as assign calls do not overlap,
\* no command fails and no slot is crossed, however drains and releases by
\* other threads and other replicas interleave with them.
LimitHolds == faults = 0 /\ ~crossed /\ ~overlapped => LimitAlwaysHolds

\* Once no call is under way, no command has failed and no slot was crossed,
\* the Redis counter of a tenant is the number of its entries in the
\* active-job hash, whichever thread of whichever replica released them.
CountersMatchWhenQuiet ==
  faults = 0 /\ ~crossed /\ (\A c \in Callers : pc[c] = "idle") =>
    \A t \in Tenants :
      in_flight[t] = Cardinality({w \in Workers : /\ active_jobs[w] # None
                                                  /\ tenant_id[active_jobs[w]] = t})

\* Calls under way know what they work on, and the slots they leave behind are
\* the slots Redis counts, as long as one call at a time changes a slot and no
\* outsider releases a job from a stale cache entry.
SlotInvariant == TypeOK /\ CountersMatchWhenQuiet

\* Until a command fails or a slot is crossed, a job is executed by one worker
\* and a job in the queue by none, also when another replica drains its worker
\* while it runs, or while the next job is on its way to it.
JobRunsOnce ==
  faults = 0 /\ ~crossed =>
    /\ \A v, w \in Workers : v # w /\ running[v] # None => running[w] # running[v]
    /\ \A w \in Workers : running[w] \notin queue

\* A draining worker accepts no job: none starts on a worker with a lease
\* or in the draining set, even after its lease has expired.
DrainIsRespected ==
  [][\A w \in Workers : running[w] = None /\ running'[w] # None =>
       w \notin drain_lease \cup draining_set]_vars

\* No job disappears: it waits, runs, is in the hands of a call, or a dead
\* letter in PostgreSQL says what became of it.
NoJobIsLost ==
  \A j \in Jobs :
    \/ j \in queue
    \/ \E w \in Workers : running[w] = j
    \/ \E c \in Callers : call[c].job = j
    \/ dead_letters[j] > 0

\* Work does not stall: while jobs wait, some worker eventually executes one,
\* unless a command or a process failed, two calls crossed at one worker, or
\* a worker is draining.
QueueIsServed ==
  (queue # {}) ~> \/ queue = {} \/ \E w \in Workers : running[w] # None
                  \/ faults > 0 \/ crossed
                  \/ draining_set # {} \/ drain_lease # {}
=============================================================================
