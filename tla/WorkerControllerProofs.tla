----------------------- MODULE WorkerControllerProofs -----------------------
(* Proofs about WorkerController, for every number of replicas, threads,   *)
(* workers, jobs and tenants, every limit and every bound on faults.       *)
EXTENDS WorkerController, TLAPS, FiniteSetTheorems

CallRecord ==
  [worker: Workers \cup {None}, job: Jobs \cup {None},
   kind: {"none", "assign", "drain", "checkpoint", "dead_letter"}]

\* TypeOK, and the calls of all threads form a function.
Typed == TypeOK /\ call \in [Callers -> CallRecord]

Draining == {"set_lease", "sadd"}
Cleaning == {"hdel", "decr", "del_lease", "srem"}

LEMMA NoCallIsRecord == NoCall \in CallRecord
  BY DEF NoCall, CallRecord

\* A job the dispatcher selects is one of the jobs it was offered.
LEMMA SelectedIsQueued ==
  ASSUME NEW jobs, NEW counts, NEW now,
         NEW j \in select_next_job(jobs, counts, now)
  PROVE  j \in jobs
  BY DEF select_next_job, Oldest, LeastLoaded, starved, eligible

\* A thread that goes on with its call, ends it, or begins another one.
LEMMA CallStaysTyped ==
  ASSUME Typed, NEW c \in Callers, NEW label \in Labels, NEW rec \in CallRecord,
         pc' = [pc EXCEPT ![c] = label],
         call' = [call EXCEPT ![c] = rec],
         label \in Draining => rec.worker # None,
         label \notin Draining \cup {"idle"} =>
           rec.worker # None /\ rec.job # None
  PROVE  /\ pc' \in [Callers -> Labels] /\ call' \in [Callers -> CallRecord]
         /\ \A d \in Callers :
              /\ call'[d] \in CallRecord
              /\ pc'[d] \in Draining => call'[d].worker # None
              /\ pc'[d] \notin Draining \cup {"idle"} =>
                   call'[d].worker # None /\ call'[d].job # None
<1>1. pc' \in [Callers -> Labels] /\ call' \in [Callers -> CallRecord]
  BY DEF Typed, TypeOK
<1>2. ASSUME NEW d \in Callers
      PROVE  /\ pc'[d] \in Draining => call'[d].worker # None
             /\ pc'[d] \notin Draining \cup {"idle"} =>
                  call'[d].worker # None /\ call'[d].job # None
  <2>1. CASE d = c
    BY <2>1 DEF Typed, TypeOK
  <2>2. CASE d # c
    <3>1. pc'[d] = pc[d] /\ call'[d] = call[d]
      BY <2>2 DEF Typed, TypeOK
    <3> QED BY <3>1 DEF Typed, TypeOK, Draining
  <2> QED BY <2>1, <2>2
<1> QED BY <1>1, <1>2

LEMMA GotoCall ==
  ASSUME Typed, NEW c \in Callers
  PROVE  /\ [call EXCEPT ![c] = call[c]] = call
         /\ call[c] \in CallRecord
  BY DEF Typed

LEMMA CallTypes ==
  ASSUME Typed, NEW c \in Callers
  PROVE  /\ call[c] \in CallRecord /\ pc[c] \in Labels
         /\ ReplicaOf[c] \in Replicas
         /\ pc[c] # "idle" => call[c].worker \in Workers
         /\ pc[c] \notin Draining \cup {"idle"} => call[c].job \in Jobs
<1>1. call[c] \in CallRecord /\ pc[c] \in Labels /\ ReplicaOf[c] \in Replicas
  BY WorkerAssumption DEF Typed, TypeOK
<1>2. call[c].worker \in Workers \cup {None} /\ call[c].job \in Jobs \cup {None}
  BY <1>1 DEF CallRecord
<1> QED BY <1>1, <1>2 DEF Typed, TypeOK, Draining

\* Where a step of thread c may take it, and with which call.
Moved(c) ==
  \E label \in Labels, rec \in CallRecord :
    /\ pc' = [pc EXCEPT ![c] = label]
    /\ call' = [call EXCEPT ![c] = rec]
    /\ label \in Draining => rec.worker # None
    /\ label \notin Draining \cup {"idle"} =>
         rec.worker # None /\ rec.job # None

LEMMA DoneMoves ==
  ASSUME Typed, NEW c \in Callers, Done(c) PROVE Moved(c)
  BY NoCallIsRecord DEF Moved, Done, Labels, Draining

LEMMA GotoMoves ==
  ASSUME Typed, NEW c \in Callers, NEW label \in Labels, Goto(c, label),
         pc[c] # "idle",
         label \in Draining \/ pc[c] \notin Draining
  PROVE  Moved(c)
<1>1. /\ pc' = [pc EXCEPT ![c] = label] /\ call' = [call EXCEPT ![c] = call[c]]
      /\ call[c] \in CallRecord
  BY GotoCall DEF Goto
<1>2. call[c].worker # None
  BY CallTypes, WorkerAssumption
<1>3. label \notin Draining \cup {"idle"} => call[c].job # None
  BY CallTypes, WorkerAssumption
<1> QED BY <1>1, <1>2, <1>3 DEF Moved

LEMMA RefuseMoves ==
  ASSUME Typed, NEW c \in Callers, NEW cond, NEW label \in Labels,
         pc[c] \notin Draining \cup {"idle"}, label \notin Draining,
         RefuseIf(c, cond, label)
  PROVE  /\ Moved(c)
         /\ queue' \subseteq Jobs
  BY DoneMoves, GotoMoves, CallTypes DEF RefuseIf, Refuse, Typed, TypeOK

LEMMA CleanedMoves ==
  ASSUME Typed, NEW c \in Callers, pc[c] \notin Draining \cup {"idle"},
         Cleaned(c)
  PROVE  Moved(c) /\ queue' \subseteq Jobs
  BY DoneMoves, CallTypes DEF Cleaned, Typed, TypeOK

LEMMA FaultsTyped ==
  ASSUME Typed, NoFault \/ Fault PROVE faults' \in 0..MaxFaults
  BY WorkerAssumption DEF Typed, TypeOK, NoFault, Fault

LEMMA LocalTyped ==
  ASSUME Typed, NEW r \in Replicas, NEW w \in Workers,
         NEW j \in Jobs \cup {None}, SetLocal(r, w, j)
  PROVE  local_active_jobs' \in [Replicas -> [Workers -> Jobs \cup {None}]]
  BY DEF Typed, TypeOK, SetLocal

LEMMA DropLocalTyped ==
  ASSUME Typed, NEW r \in Replicas, NEW w \in Workers, NEW j \in Jobs,
         DropLocal(r, w, j)
  PROVE  /\ local_active_jobs' \in [Replicas -> [Workers -> Jobs \cup {None}]]
         /\ local_draining_workers' \in [Replicas -> SUBSET Workers]
         /\ running' \in [Workers -> Jobs \cup {None}]
  BY LocalTyped DEF DropLocal, Typed, TypeOK

LEMMA ActiveJobTyped ==
  ASSUME Typed, NEW r \in Replicas, NEW w \in Workers
  PROVE  ActiveJob(r, w) \in Jobs \cup {None}
  BY DEF ActiveJob, Typed, TypeOK

\* What a thread's step must respect for the state to stay typed.
LEMMA TypedFromParts ==
  ASSUME Typed, NEW c \in Callers, Moved(c),
         active_jobs' \in [Workers -> Jobs \cup {None}],
         in_flight' \in [Tenants -> Int],
         drain_lease' \subseteq Workers, draining_set' \subseteq Workers,
         dead_letters' \in [Jobs -> Nat],
         local_active_jobs' \in [Replicas -> [Workers -> Jobs \cup {None}]],
         local_draining_workers' \in [Replicas -> SUBSET Workers],
         running' \in [Workers -> Jobs \cup {None}],
         queue' \subseteq Jobs, faults' \in 0..MaxFaults,
         outside' \in 0..MaxOutside, RecordPast
  PROVE  Typed'
<1>1. PICK label \in Labels, rec \in CallRecord :
        /\ pc' = [pc EXCEPT ![c] = label]
        /\ call' = [call EXCEPT ![c] = rec]
        /\ label \in Draining => rec.worker # None
        /\ label \notin Draining \cup {"idle"} =>
             rec.worker # None /\ rec.job # None
  BY DEF Moved
<1>2. /\ pc' \in [Callers -> Labels] /\ call' \in [Callers -> CallRecord]
      /\ \A d \in Callers :
           /\ call'[d] \in CallRecord
           /\ pc'[d] \in Draining => call'[d].worker # None
           /\ pc'[d] \notin Draining \cup {"idle"} =>
                call'[d].worker # None /\ call'[d].job # None
  BY <1>1, CallStaysTyped
<1>3. overlapped' \in BOOLEAN /\ crossed' \in BOOLEAN
  BY DEF RecordPast, Typed, TypeOK
<1> QED
  BY <1>2, <1>3 DEF Typed, TypeOK, CallRecord, Draining

\* The count of outsiders never passes its bound.
LEMMA OutsideTyped ==
  ASSUME Typed, NEW c \in Callers, ControllerStep(c)
  PROVE  /\ outside' \in 0..MaxOutside
         /\ outside' = outside \/ outside' = outside + 1
<1>1. outside' = outside \/ (outside < MaxOutside /\ outside' = outside + 1)
  BY DEF ControllerStep, BeginDrain, Release, Count
<1>2. outside \in 0..MaxOutside /\ MaxOutside \in Nat
  BY WorkerAssumption DEF Typed, TypeOK
<1> QED BY <1>1, <1>2

LEMMA AssignTyped ==
  ASSUME Typed, NEW c \in Callers, RecordPast, UNCHANGED outside,
         \/ \E w \in Workers, now \in Times : SelectNextJob(c, w, now)
         \/ CheckDraining(c) \/ CheckLease(c) \/ CheckLimit(c)
         \/ AssignHset(c) \/ AssignIncr(c)
  PROVE  Typed'
<1>0. \A d \in Callers : ReplicaOf[d] \in Replicas
  BY CallTypes
<1>1. ASSUME NEW w \in Workers, NEW now \in Times, SelectNextJob(c, w, now)
      PROVE  Typed'
  <2>1. PICK j \in Jobs :
          /\ NoFault \/ Fault
          /\ queue' = queue \ {j}
          /\ call' = [call EXCEPT ![c] = [worker |-> w, job |-> j,
                                          kind |-> "assign"]]
          /\ pc' = [pc EXCEPT ![c] = "check_draining"]
    BY <1>1 DEF SelectNextJob
  <2> DEFINE rec == [worker |-> w, job |-> j, kind |-> "assign"]
  <2>2. rec \in CallRecord /\ rec.worker = w /\ rec.job = j
    BY DEF CallRecord
  <2> HIDE DEF rec
  <2>3. Moved(c)
    BY <2>1, <2>2, WorkerAssumption DEF Moved, Labels, Draining, rec
  <2> QED
    BY <1>1, <2>1, <2>3, FaultsTyped, TypedFromParts
    DEF SelectNextJob, redis, local, Typed, TypeOK
<1>2. CASE CheckDraining(c) \/ CheckLease(c)
  <2>1. /\ NoFault \/ Fault
        /\ UNCHANGED <<redis, dead_letters, local, running>>
        /\ pc[c] \in {"check_draining", "check_lease"}
        /\ \E cond : \E label \in {"check_lease", "check_limit"} :
             RefuseIf(c, cond, label)
    BY <1>2 DEF CheckDraining, CheckLease
  <2>2. Moved(c) /\ queue' \subseteq Jobs
    BY <2>1, RefuseMoves DEF Labels, Draining
  <2> QED
    BY <2>1, <2>2, FaultsTyped, TypedFromParts
    DEF redis, local, Typed, TypeOK
<1>3. CASE CheckLimit(c)
  <2>1. /\ NoFault \/ Fault
        /\ UNCHANGED <<redis, dead_letters, local_draining_workers, running>>
        /\ pc[c] = "check_limit"
        /\ \E reached : LimitChecked(c, reached)
    BY <1>3 DEF CheckLimit
  <2>2. PICK reached : LimitChecked(c, reached)
    BY <2>1
  <2>3. Moved(c) /\ queue' \subseteq Jobs
    BY <2>1, <2>2, RefuseMoves DEF Labels, Draining, LimitChecked
  <2>4. local_active_jobs' \in [Replicas -> [Workers -> Jobs \cup {None}]]
    <3>1. \/ UNCHANGED local_active_jobs
          \/ SetLocal(ReplicaOf[c], call[c].worker, call[c].job)
      BY <2>2 DEF LimitChecked
    <3>2. call[c].worker \in Workers /\ call[c].job \in Jobs
      BY <2>1, CallTypes DEF Draining
    <3> QED BY <1>0, <3>1, <3>2, LocalTyped DEF Typed, TypeOK
  <2> QED
    BY <2>1, <2>3, <2>4, FaultsTyped, TypedFromParts
    DEF redis, Typed, TypeOK
<1>4. CASE AssignHset(c)
  <2>1. /\ NoFault \/ Fault
        /\ UNCHANGED <<in_flight, drain_lease, draining_set, dead_letters,
                       local_draining_workers, running>>
        /\ pc[c] = "hset"
    BY <1>4 DEF AssignHset
  <2>2. call[c].worker \in Workers /\ call[c].job \in Jobs
    BY <2>1, CallTypes DEF Draining
  <2>3. Moved(c) /\ queue' \subseteq Jobs
    BY <1>4, <2>1, <2>2, GotoMoves, DoneMoves
    DEF AssignHset, Refuse, Typed, TypeOK, Labels, Draining
  <2>4. local_active_jobs' \in [Replicas -> [Workers -> Jobs \cup {None}]]
    BY <1>0, <1>4, <2>2, LocalTyped DEF AssignHset, Typed, TypeOK
  <2>5. active_jobs' \in [Workers -> Jobs \cup {None}]
    BY <1>4, <2>2 DEF AssignHset, Typed, TypeOK
  <2> QED
    BY <2>1, <2>3, <2>4, <2>5, FaultsTyped, TypedFromParts
    DEF Typed, TypeOK
<1>5. CASE AssignIncr(c)
  <2>1. /\ NoFault \/ Fault
        /\ UNCHANGED <<active_jobs, drain_lease, draining_set, dead_letters,
                       local_draining_workers>>
        /\ pc[c] = "incr"
    BY <1>5 DEF AssignIncr
  <2>2. call[c].worker \in Workers /\ call[c].job \in Jobs
    BY <2>1, CallTypes DEF Draining
  <2>3. Moved(c) /\ queue' \subseteq Jobs
    BY <1>5, <2>1, <2>2, DoneMoves
    DEF AssignIncr, Refuse, Typed, TypeOK
  <2>4. local_active_jobs' \in [Replicas -> [Workers -> Jobs \cup {None}]]
    BY <1>0, <1>5, <2>2, LocalTyped DEF AssignIncr, Typed, TypeOK
  <2>5. running' \in [Workers -> Jobs \cup {None}]
    BY <1>5, <2>2 DEF AssignIncr, Typed, TypeOK
  <2>6. in_flight' \in [Tenants -> Int]
    BY <1>5, <2>2 DEF AssignIncr, SlotTaken, Typed, TypeOK
  <2> QED
    BY <2>1, <2>3, <2>4, <2>5, <2>6, FaultsTyped, TypedFromParts
    DEF Typed, TypeOK
<1> QED BY <1>1, <1>2, <1>3, <1>4, <1>5

LEMMA DrainTyped ==
  ASSUME Typed, NEW c \in Callers, RecordPast, outside' \in 0..MaxOutside,
         \/ \E w \in Workers : BeginDrain(c, w)
         \/ SetLease(c) \/ AddDraining(c)
  PROVE  Typed'
<1>0. \A d \in Callers : ReplicaOf[d] \in Replicas
  BY CallTypes
<1>1. ASSUME NEW w \in Workers, BeginDrain(c, w) PROVE Typed'
  <2> DEFINE rec == [NoCall EXCEPT !.worker = w, !.kind = "drain"]
  <2>1. rec \in CallRecord /\ rec.worker = w
    BY DEF CallRecord, NoCall
  <2>2. /\ pc' = [pc EXCEPT ![c] = "set_lease"]
        /\ call' = [call EXCEPT ![c] = rec]
    BY <1>1 DEF BeginDrain
  <2> HIDE DEF rec
  <2>3. Moved(c)
    BY <2>1, <2>2, WorkerAssumption DEF Moved, Labels, Draining
  <2>4. local_active_jobs' \in [Replicas -> [Workers -> Jobs \cup {None}]]
    BY <1>0, <1>1, LocalTyped, ActiveJobTyped DEF BeginDrain, Typed, TypeOK
  <2>5. local_draining_workers' \in [Replicas -> SUBSET Workers]
    BY <1>0, <1>1 DEF BeginDrain, Typed, TypeOK
  <2> QED
    BY <1>1, <2>3, <2>4, <2>5, FaultsTyped, TypedFromParts
    DEF BeginDrain, redis, world, Typed, TypeOK
<1>2. CASE SetLease(c)
  <2>1. pc[c] = "set_lease" /\ call[c].worker \in Workers
    BY <1>2, CallTypes DEF SetLease
  <2>2. Moved(c)
    BY <1>2, <2>1, GotoMoves, DoneMoves DEF SetLease, Labels, Draining
  <2> QED
    BY <1>2, <2>1, <2>2, FaultsTyped, TypedFromParts
    DEF SetLease, local, world, Typed, TypeOK
<1>3. CASE AddDraining(c)
  <2>1. pc[c] = "sadd" /\ call[c].worker \in Workers
    BY <1>3, CallTypes DEF AddDraining
  <2>2. Moved(c)
    BY <1>3, DoneMoves DEF AddDraining
  <2> QED
    BY <1>3, <2>1, <2>2, FaultsTyped, TypedFromParts
    DEF AddDraining, local, world, Typed, TypeOK
<1> QED BY <1>1, <1>2, <1>3

LEMMA ReleaseTyped ==
  ASSUME Typed, NEW c \in Callers, RecordPast, outside' \in 0..MaxOutside,
         \/ \E w \in Workers, kind \in {"checkpoint", "dead_letter"} :
              Release(c, w, kind)
         \/ InsertDeadLetter(c)
         \/ Hdel(c) \/ Decr(c) \/ DeleteLease(c) \/ RemoveDraining(c)
  PROVE  Typed'
<1>0. \A d \in Callers : ReplicaOf[d] \in Replicas
  BY CallTypes
<1>1. ASSUME NEW w \in Workers, NEW kind \in {"checkpoint", "dead_letter"},
             Release(c, w, kind)
      PROVE  Typed'
  <2> DEFINE r == ReplicaOf[c]
             job == ActiveJob(r, w)
             rec == [worker |-> w, job |-> job, kind |-> kind]
  <2>1. job \in Jobs
    BY <1>0, <1>1, ActiveJobTyped DEF Release, RequireActiveJob
  <2>2. rec \in CallRecord /\ rec.worker = w /\ rec.job = job
    BY <2>1 DEF CallRecord
  <2>3. /\ call' = [call EXCEPT ![c] = rec]
        /\ \/ pc' = [pc EXCEPT ![c] = "hdel"] /\ DropLocal(r, w, job)
           \/ /\ pc' = [pc EXCEPT ![c] = "insert"] /\ SetLocal(r, w, job)
              /\ UNCHANGED <<local_draining_workers, running>>
        /\ UNCHANGED <<redis, dead_letters, queue, faults>>
    BY <1>1 DEF Release
  <2> HIDE DEF rec, job
  <2>4. Moved(c)
    BY <2>1, <2>2, <2>3, WorkerAssumption DEF Moved, Labels, Draining
  <2>5. /\ local_active_jobs' \in [Replicas -> [Workers -> Jobs \cup {None}]]
        /\ local_draining_workers' \in [Replicas -> SUBSET Workers]
        /\ running' \in [Workers -> Jobs \cup {None}]
    <3>1. CASE DropLocal(r, w, job)
      BY <1>0, <2>1, <3>1, DropLocalTyped
    <3>2. CASE /\ SetLocal(r, w, job)
               /\ UNCHANGED <<local_draining_workers, running>>
      BY <1>0, <2>1, <3>2, LocalTyped DEF Typed, TypeOK
    <3> QED BY <2>3, <3>1, <3>2
  <2> QED
    BY <2>3, <2>4, <2>5, TypedFromParts DEF redis, Typed, TypeOK
<1>2. CASE InsertDeadLetter(c)
  <2>1. pc[c] = "insert" /\ call[c].worker \in Workers /\ call[c].job \in Jobs
    BY <1>2, CallTypes DEF InsertDeadLetter, Draining
  <2>2. Moved(c)
    BY <1>2, <2>1, GotoMoves, DoneMoves
    DEF InsertDeadLetter, InsertFailed, Labels, Draining
  <2>3. /\ local_active_jobs' \in [Replicas -> [Workers -> Jobs \cup {None}]]
        /\ local_draining_workers' \in [Replicas -> SUBSET Workers]
        /\ running' \in [Workers -> Jobs \cup {None}]
    <3>1. CASE DropLocal(ReplicaOf[c], call[c].worker, call[c].job)
      BY <1>0, <2>1, <3>1, DropLocalTyped
    <3>2. CASE UNCHANGED <<local, running>>
      BY <3>2 DEF local, Typed, TypeOK
    <3> QED BY <1>2, <3>1, <3>2 DEF InsertDeadLetter, InsertFailed
  <2>4. dead_letters' \in [Jobs -> Nat]
    BY <1>2, <2>1 DEF InsertDeadLetter, Typed, TypeOK
  <2>5. faults' \in 0..MaxFaults
    BY <1>2, FaultsTyped DEF InsertDeadLetter
  <2>6. UNCHANGED <<redis, queue>>
    BY <1>2 DEF InsertDeadLetter
  <2> QED
    BY <2>2, <2>3, <2>4, <2>5, <2>6, TypedFromParts
    DEF redis, Typed, TypeOK
<1>3. CASE Hdel(c) \/ Decr(c) \/ DeleteLease(c) \/ RemoveDraining(c)
  <2>1. /\ pc[c] \in Cleaning
        /\ call[c].worker \in Workers /\ call[c].job \in Jobs
    BY <1>3, CallTypes
    DEF Hdel, Decr, DeleteLease, RemoveDraining, Cleaning, Draining
  <2>2. /\ NoFault \/ Fault
        /\ UNCHANGED <<dead_letters, local, running>>
        /\ \/ Cleaned(c)
           \/ UNCHANGED queue /\ \E l \in Cleaning : Goto(c, l)
    BY <1>3 DEF Hdel, Decr, DeleteLease, RemoveDraining, Cleaning
  <2>3. Moved(c) /\ queue' \subseteq Jobs
    BY <2>1, <2>2, GotoMoves, CleanedMoves
    DEF Cleaning, Draining, Labels, Typed, TypeOK
  <2>4. /\ active_jobs' \in [Workers -> Jobs \cup {None}]
        /\ drain_lease' \subseteq Workers /\ draining_set' \subseteq Workers
    BY <1>3, <2>1
    DEF Hdel, Decr, DeleteLease, RemoveDraining, Typed, TypeOK
  <2>5. in_flight' \in [Tenants -> Int]
    BY <1>3, <2>1
    DEF Hdel, Decr, SlotFreed, DeleteLease, RemoveDraining, Typed, TypeOK
  <2> QED
    BY <2>2, <2>3, <2>4, <2>5, FaultsTyped, TypedFromParts
    DEF local, Typed, TypeOK
<1> QED BY <1>1, <1>2, <1>3

LEMMA CrashTyped ==
  ASSUME Typed, NEW r \in Replicas, Crash(r) PROVE Typed'
<1> DEFINE threads == {c \in Callers : ReplicaOf[c] = r}
           workers == UNION {Assigns[c] : c \in threads}
           held == {running[w] : w \in workers}
                   \cup {call[c].job : c \in {d \in threads :
                                                call[d].kind # "dead_letter"}}
<1>1. /\ Fault
      /\ local_active_jobs' =
           [local_active_jobs EXCEPT ![r] = [w \in Workers |-> None]]
      /\ local_draining_workers' = [local_draining_workers EXCEPT ![r] = {}]
      /\ pc' = [c \in Callers |-> IF c \in threads THEN "idle" ELSE pc[c]]
      /\ call' = [c \in Callers |-> IF c \in threads THEN NoCall ELSE call[c]]
      /\ running' = [w \in Workers |-> IF w \in workers THEN None
                                                        ELSE running[w]]
      /\ queue' = queue \cup (held \ {None})
      /\ UNCHANGED <<redis, dead_letters, past>>
  BY DEF Crash
<1>2. held \subseteq Jobs \cup {None}
  <2>1. workers \subseteq Workers
    BY WorkerAssumption
  <2>2. \A c \in threads : call[c].job \in Jobs \cup {None}
    BY CallTypes DEF CallRecord
  <2> QED BY <2>1, <2>2 DEF Typed, TypeOK
<1>3. /\ pc' \in [Callers -> Labels] /\ call' \in [Callers -> CallRecord]
      /\ running' \in [Workers -> Jobs \cup {None}]
  BY <1>1, NoCallIsRecord DEF Typed, TypeOK, Labels
<1> HIDE DEF held, workers
<1>4. \A c \in Callers :
        \/ pc'[c] = "idle" /\ call'[c] = NoCall
        \/ pc'[c] = pc[c] /\ call'[c] = call[c]
  BY <1>1
<1>5. /\ local_active_jobs' \in [Replicas -> [Workers -> Jobs \cup {None}]]
      /\ local_draining_workers' \in [Replicas -> SUBSET Workers]
      /\ queue' \subseteq Jobs
  BY <1>1, <1>2 DEF Typed, TypeOK
<1>6. faults' \in 0..MaxFaults
  BY <1>1, FaultsTyped
<1>7. \A c \in Callers :
        /\ call'[c] \in CallRecord
        /\ pc'[c] \in {"set_lease", "sadd"} => call'[c].worker # None
        /\ pc'[c] \notin {"idle", "set_lease", "sadd"} =>
             call'[c].worker # None /\ call'[c].job # None
  BY <1>3, <1>4 DEF Typed, TypeOK
<1> QED
  BY <1>1, <1>3, <1>5, <1>6, <1>7 DEF redis, past, Typed, TypeOK, CallRecord

LEMMA TypeStep == Typed /\ [Next]_vars => Typed'
<1> SUFFICES ASSUME Typed, [Next]_vars PROVE Typed'
  OBVIOUS
<1>1. ASSUME NEW c \in Callers, CallerStep(c) PROVE Typed'
  <2>1. outside' \in 0..MaxOutside
    BY <1>1, OutsideTyped DEF CallerStep
  <2> QED BY <1>1, <2>1, AssignTyped, DrainTyped, ReleaseTyped
          DEF CallerStep, ControllerStep
<1>2. ASSUME NEW w \in Workers, LeaseExpires(w) PROVE Typed'
  BY <1>2 DEF LeaseExpires, local, world, past, Typed, TypeOK
<1>3. CASE UNCHANGED vars
  BY <1>3 DEF vars, redis, local, world, past, Typed, TypeOK
<1> QED BY <1>1, <1>2, <1>3, CrashTyped DEF Next

LEMMA InitTyped == Init => Typed
<1> SUFFICES ASSUME Init PROVE Typed
  OBVIOUS
<1>1. /\ pc \in [Callers -> Labels] /\ call \in [Callers -> CallRecord]
      /\ \A c \in Callers : pc[c] = "idle" /\ call[c] \in CallRecord
  BY NoCallIsRecord DEF Init, Labels
<1>2. /\ local_active_jobs \in [Replicas -> [Workers -> Jobs \cup {None}]]
      /\ local_draining_workers \in [Replicas -> SUBSET Workers]
      /\ active_jobs \in [Workers -> Jobs \cup {None}]
      /\ running \in [Workers -> Jobs \cup {None}]
      /\ in_flight \in [Tenants -> Int] /\ dead_letters \in [Jobs -> Nat]
  BY DEF Init
<1>3. /\ drain_lease \subseteq Workers /\ draining_set \subseteq Workers
      /\ queue \subseteq Jobs
  BY DEF Init
<1>4. faults \in 0..MaxFaults
  BY WorkerAssumption DEF Init
<1>5. overlapped \in BOOLEAN /\ crossed \in BOOLEAN
  BY DEF Init
<1>6. outside \in 0..MaxOutside
  BY WorkerAssumption DEF Init
<1> QED BY <1>1, <1>2, <1>3, <1>4, <1>5, <1>6 DEF Typed, TypeOK, CallRecord

LEMMA TypedHolds == Spec => []Typed
  BY InitTyped, TypeStep, PTL DEF Spec
-----------------------------------------------------------------------------
(* Calls under way.                                                        *)

CallOk(c) ==
  /\ pc[c] = "idle" => call[c] = NoCall
  /\ pc[c] \in Assigning =>
       /\ call[c].kind = "assign" /\ call[c].worker \in Assigns[c]
       /\ running[call[c].worker] = None
  /\ pc[c] \in Draining => call[c].kind = "drain"
  /\ pc[c] = "insert" => call[c].kind = "dead_letter"
  /\ pc[c] \in Cleaning =>
       \/ call[c].kind = "checkpoint"
       \/ call[c].kind = "dead_letter" /\ dead_letters[call[c].job] > 0

Calls == \A c \in Callers : CallOk(c)

\* A thread's step is about its own call.
Alone(c) == \A d \in Callers \ {c} : pc'[d] = pc[d] /\ call'[d] = call[d]

LEMMA EndAlone ==
  ASSUME Typed, NEW c \in Callers
  PROVE  /\ Done(c) => /\ Alone(c) /\ pc'[c] = "idle" /\ call'[c] = NoCall
         /\ \A label : Goto(c, label) =>
              Alone(c) /\ pc'[c] = label /\ call'[c] = call[c]
         /\ \A cond, label : RefuseIf(c, cond, label) =>
              /\ Alone(c)
              /\ \/ /\ pc'[c] = "idle" /\ call'[c] = NoCall
                    /\ queue' = queue \cup {call[c].job}
                 \/ /\ ~cond
                    /\ pc'[c] = label /\ call'[c] = call[c] /\ queue' = queue
  BY DEF Done, Goto, RefuseIf, Refuse, Alone, Typed, TypeOK

\* The effects of each operation of thread c on its own call, on the worker's
\* job, on the queue and on the dead letters.
LEMMA SelectEffect ==
  ASSUME Typed, NEW c \in Callers, NEW w \in Workers, NEW now \in Times,
         SelectNextJob(c, w, now)
  PROVE  \E j \in queue :
           /\ Alone(c) /\ pc[c] = "idle" /\ pc'[c] = "check_draining"
           /\ call'[c] = [worker |-> w, job |-> j, kind |-> "assign"]
           /\ w \in Assigns[c] /\ running[w] = None
           /\ queue' = queue \ {j}
           /\ UNCHANGED <<redis, dead_letters, local, running>>
           /\ faults' # faults => faults' = faults + 1
<1>1. PICK j \in Jobs :
        /\ \/ j \in select_next_job(queue, in_flight, now) /\ NoFault
           \/ /\ j \in select_next_job(queue, InFlight(ReplicaOf[c]), now)
              /\ Fault
        /\ queue' = queue \ {j}
        /\ call' = [call EXCEPT ![c] = [worker |-> w, job |-> j,
                                        kind |-> "assign"]]
        /\ pc' = [pc EXCEPT ![c] = "check_draining"]
  BY DEF SelectNextJob
<1>2. j \in queue
  BY <1>1, SelectedIsQueued
<1> WITNESS j \in queue
<1> QED
  BY <1>1 DEF SelectNextJob, NoFault, Fault, Alone, Typed, TypeOK

LEMMA ReleaseEffect ==
  ASSUME Typed, NEW c \in Callers, NEW w \in Workers,
         NEW kind \in {"checkpoint", "dead_letter"}, Release(c, w, kind)
  PROVE  LET job == ActiveJob(ReplicaOf[c], w) IN
           /\ Alone(c) /\ pc[c] = "idle" /\ job \in Jobs
           /\ w \in Assigns[c] \cup Drains[c]
           /\ call'[c] = [worker |-> w, job |-> job, kind |-> kind]
           /\ \/ /\ kind = "checkpoint" /\ pc'[c] = "hdel"
                 /\ DropLocal(ReplicaOf[c], w, job)
              \/ /\ kind = "dead_letter" /\ pc'[c] = "insert"
                 /\ SetLocal(ReplicaOf[c], w, job)
                 /\ UNCHANGED <<local_draining_workers, running>>
           /\ UNCHANGED <<redis, dead_letters, queue, faults>>
<1> DEFINE job == ActiveJob(ReplicaOf[c], w)
<1>1. job \in Jobs
  BY CallTypes, ActiveJobTyped DEF Release, RequireActiveJob
<1>2. /\ pc[c] = "idle" /\ w \in Assigns[c] \cup Drains[c]
      /\ call' = [call EXCEPT ![c] = [worker |-> w, job |-> job,
                                      kind |-> kind]]
      /\ \/ /\ kind = "checkpoint" /\ pc' = [pc EXCEPT ![c] = "hdel"]
            /\ DropLocal(ReplicaOf[c], w, job)
         \/ /\ kind = "dead_letter" /\ pc' = [pc EXCEPT ![c] = "insert"]
            /\ SetLocal(ReplicaOf[c], w, job)
            /\ UNCHANGED <<local_draining_workers, running>>
      /\ UNCHANGED <<redis, dead_letters, queue, faults>>
  BY DEF Release, MayRelease
<1> HIDE DEF job
<1>3. Alone(c) /\ call'[c] = [worker |-> w, job |-> job, kind |-> kind]
  BY <1>2 DEF Alone, Typed, TypeOK
<1>4. \/ /\ kind = "checkpoint" /\ pc'[c] = "hdel"
         /\ DropLocal(ReplicaOf[c], w, job)
      \/ /\ kind = "dead_letter" /\ pc'[c] = "insert"
         /\ SetLocal(ReplicaOf[c], w, job)
         /\ UNCHANGED <<local_draining_workers, running>>
  BY <1>2 DEF Typed, TypeOK
<1> QED BY <1>1, <1>2, <1>3, <1>4 DEF job

\* What other threads may do without disturbing a call.
LEMMA CallsFrame ==
  ASSUME Typed, Calls, NEW c \in Callers, Alone(c),
         \A w \in Workers : \/ running'[w] \in {running[w], None}
                            \/ w \in Assigns[c],
         \A j \in Jobs : dead_letters'[j] >= dead_letters[j],
         dead_letters' \in [Jobs -> Nat],
         CallOk(c)'
  PROVE  Calls'
<1>1. ASSUME NEW d \in Callers, d # c PROVE CallOk(d)'
  <2>1. pc'[d] = pc[d] /\ call'[d] = call[d] /\ CallOk(d)
    BY <1>1 DEF Alone, Calls
  <2>2. pc[d] \in Assigning => running'[call[d].worker] = None
    <3> SUFFICES ASSUME pc[d] \in Assigning
                 PROVE  running'[call[d].worker] = None
      OBVIOUS
    <3>1. /\ call[d].worker \in Workers /\ call[d].worker \in Assigns[d]
          /\ running[call[d].worker] = None
      BY <2>1, CallTypes DEF Assigning, CallOk
    <3>2. call[d].worker \notin Assigns[c]
      BY <1>1, <3>1, OneThreadPerWorker
    <3> QED BY <3>1, <3>2
  <2>3. pc[d] \in Cleaning =>
          \/ call[d].kind = "checkpoint"
          \/ call[d].kind = "dead_letter" /\ dead_letters'[call[d].job] > 0
    <3> SUFFICES ASSUME pc[d] \in Cleaning, call[d].kind # "checkpoint"
                 PROVE  /\ call[d].kind = "dead_letter"
                        /\ dead_letters'[call[d].job] > 0
      BY <2>1 DEF CallOk
    <3>1. call[d].job \in Jobs
      BY CallTypes DEF Cleaning, Draining
    <3>2. call[d].kind = "dead_letter" /\ dead_letters[call[d].job] > 0
      BY <2>1 DEF CallOk
    <3> QED BY <3>1, <3>2 DEF Typed, TypeOK
  <2> QED BY <2>1, <2>2, <2>3 DEF CallOk
<1> QED BY <1>1 DEF Calls

LEMMA DeadLettersGrow ==
  ASSUME Typed, [Next]_vars
  PROVE  /\ \A j \in Jobs : dead_letters'[j] >= dead_letters[j]
         /\ dead_letters' \in [Jobs -> Nat]
<1>1. \/ dead_letters' = dead_letters
      \/ \E c \in Callers : /\ pc[c] = "insert"
                            /\ dead_letters' = [dead_letters EXCEPT
                                                  ![call[c].job] = @ + 1]
  <2>1. ASSUME NEW c \in Callers, ControllerStep(c)
        PROVE  \/ dead_letters' = dead_letters
               \/ /\ pc[c] = "insert"
                  /\ dead_letters' = [dead_letters EXCEPT
                                        ![call[c].job] = @ + 1]
    BY <2>1
    DEF ControllerStep, SelectNextJob, CheckDraining, CheckLease,
        CheckLimit, AssignHset, AssignIncr, BeginDrain, SetLease,
        AddDraining, Release, InsertDeadLetter, Hdel, Decr, DeleteLease,
        RemoveDraining
  <2> QED BY <2>1 DEF Next, CallerStep, LeaseExpires, Crash, vars
<1>2. dead_letters \in [Jobs -> Nat]
  BY DEF Typed, TypeOK
<1>3. ASSUME NEW c \in Callers, pc[c] = "insert",
             dead_letters' = [dead_letters EXCEPT ![call[c].job] = @ + 1]
      PROVE  /\ \A j \in Jobs : dead_letters'[j] >= dead_letters[j]
             /\ dead_letters' \in [Jobs -> Nat]
  <2>1. call[c].job \in Jobs
    BY <1>3, CallTypes DEF Draining
  <2> QED BY <1>2, <1>3, <2>1
<1> QED BY <1>1, <1>2, <1>3

LEMMA CallsByStep ==
  ASSUME Typed, Calls, NEW c \in Callers, CallerStep(c) PROVE Calls'
<1>0. /\ \A j \in Jobs : dead_letters'[j] >= dead_letters[j]
      /\ dead_letters' \in [Jobs -> Nat]
  BY DeadLettersGrow DEF Next
<1>1. ASSUME NEW w \in Workers, NEW now \in Times, SelectNextJob(c, w, now)
      PROVE  Calls'
  <2>1. PICK j \in queue :
           /\ Alone(c) /\ pc'[c] = "check_draining"
           /\ call'[c] = [worker |-> w, job |-> j, kind |-> "assign"]
           /\ w \in Assigns[c] /\ running[w] = None
           /\ UNCHANGED running
    BY <1>1, SelectEffect
  <2>2. call'[c].worker = w /\ call'[c].kind = "assign"
    BY <2>1
  <2>3. CallOk(c)'
    BY <2>1, <2>2 DEF CallOk, Assigning, Draining, Cleaning
  <2> QED BY <1>0, <2>1, <2>3, CallsFrame
<1>2. CASE CheckDraining(c) \/ CheckLease(c) \/ CheckLimit(c)
  <2>1. /\ UNCHANGED running
        /\ pc[c] \in Assigning
        /\ \E cond : \E label \in Assigning : RefuseIf(c, cond, label)
    BY <1>2 DEF CheckDraining, CheckLease, CheckLimit, LimitChecked, Assigning
  <2>2. /\ Alone(c)
        /\ \/ pc'[c] = "idle" /\ call'[c] = NoCall
           \/ pc'[c] \in Assigning /\ call'[c] = call[c]
    BY <2>1, EndAlone
  <2>3. CallOk(c)'
    BY <2>1, <2>2 DEF Calls, CallOk, Assigning, Draining, Cleaning
  <2> QED BY <1>0, <2>1, <2>2, <2>3, CallsFrame
<1>3. CASE AssignHset(c)
  <2>1. /\ UNCHANGED running /\ pc[c] = "hset"
        /\ Goto(c, "incr") \/ Done(c)
    BY <1>3 DEF AssignHset, Refuse
  <2>2. /\ Alone(c)
        /\ \/ pc'[c] = "idle" /\ call'[c] = NoCall
           \/ pc'[c] = "incr" /\ call'[c] = call[c]
    BY <2>1, EndAlone
  <2>3. CallOk(c)'
    BY <2>1, <2>2 DEF Calls, CallOk, Assigning, Draining, Cleaning
  <2> QED BY <1>0, <2>1, <2>2, <2>3, CallsFrame
<1>4. CASE AssignIncr(c)
  <2>1. /\ pc[c] = "incr" /\ Done(c)
        /\ \/ UNCHANGED running
           \/ running' = [running EXCEPT ![call[c].worker] = call[c].job]
    BY <1>4 DEF AssignIncr, Refuse
  <2>2. Alone(c) /\ pc'[c] = "idle" /\ call'[c] = NoCall
    BY <2>1, EndAlone
  <2>3. CallOk(c)'
    BY <2>2 DEF CallOk, Assigning, Draining, Cleaning
  <2>4. call[c].worker \in Assigns[c]
    BY <2>1 DEF Calls, CallOk, Assigning
  <2>5. \A w \in Workers : \/ running'[w] \in {running[w], None}
                           \/ w \in Assigns[c]
    BY <2>1, <2>4 DEF Typed, TypeOK
  <2> QED BY <1>0, <2>2, <2>3, <2>5, CallsFrame
<1>5. ASSUME NEW w \in Workers, BeginDrain(c, w) PROVE Calls'
  <2> DEFINE rec == [NoCall EXCEPT !.worker = w, !.kind = "drain"]
  <2>1. rec.worker = w /\ rec.kind = "drain"
    BY DEF NoCall
  <2>2. /\ pc' = [pc EXCEPT ![c] = "set_lease"]
        /\ call' = [call EXCEPT ![c] = rec]
        /\ UNCHANGED running /\ w \in Drains[c]
    BY <1>5 DEF BeginDrain, world
  <2> HIDE DEF rec
  <2>3. Alone(c) /\ pc'[c] = "set_lease" /\ call'[c] = rec
    BY <2>2 DEF Alone, Typed, TypeOK
  <2>4. CallOk(c)'
    BY <2>1, <2>2, <2>3 DEF CallOk, Assigning, Draining, Cleaning
  <2> QED BY <1>0, <2>2, <2>3, <2>4, CallsFrame
<1>6. CASE SetLease(c) \/ AddDraining(c)
  <2>1. /\ UNCHANGED running /\ pc[c] \in Draining
        /\ Goto(c, "sadd") \/ Done(c)
    BY <1>6 DEF SetLease, AddDraining, world, Draining
  <2>2. /\ Alone(c)
        /\ \/ pc'[c] = "idle" /\ call'[c] = NoCall
           \/ pc'[c] = "sadd" /\ call'[c] = call[c]
    BY <2>1, EndAlone
  <2>3. CallOk(c)'
    BY <2>1, <2>2 DEF Calls, CallOk, Assigning, Draining, Cleaning
  <2> QED BY <1>0, <2>1, <2>2, <2>3, CallsFrame
<1>7. ASSUME NEW w \in Workers, NEW kind \in {"checkpoint", "dead_letter"},
             Release(c, w, kind)
      PROVE  Calls'
  <2> DEFINE job == ActiveJob(ReplicaOf[c], w)
  <2>1. /\ Alone(c) /\ w \in Assigns[c] \cup Drains[c]
        /\ call'[c] = [worker |-> w, job |-> job, kind |-> kind]
        /\ \/ /\ kind = "checkpoint" /\ pc'[c] = "hdel"
              /\ DropLocal(ReplicaOf[c], w, job)
           \/ /\ kind = "dead_letter" /\ pc'[c] = "insert"
              /\ UNCHANGED running
    BY <1>7, ReleaseEffect
  <2> HIDE DEF job
  <2>2. call'[c].worker = w /\ call'[c].kind = kind
    BY <2>1
  <2>3. CallOk(c)'
    BY <2>1, <2>2 DEF CallOk, Assigning, Draining, Cleaning
  <2>4. \A v \in Workers : running'[v] \in {running[v], None}
    BY <2>1 DEF DropLocal, Typed, TypeOK
  <2> QED BY <1>0, <2>1, <2>3, <2>4, CallsFrame
<1>8. CASE InsertDeadLetter(c)
  <2>1. /\ pc[c] = "insert"
        /\ \/ /\ dead_letters' = [dead_letters EXCEPT ![call[c].job] = @ + 1]
              /\ DropLocal(ReplicaOf[c], call[c].worker, call[c].job)
              /\ Goto(c, "hdel")
           \/ Done(c) /\ UNCHANGED running
    BY <1>8 DEF InsertDeadLetter, InsertFailed
  <2>2. /\ Alone(c)
        /\ \/ pc'[c] = "idle" /\ call'[c] = NoCall
           \/ /\ pc'[c] = "hdel" /\ call'[c] = call[c]
              /\ dead_letters' = [dead_letters EXCEPT ![call[c].job] = @ + 1]
    BY <2>1, EndAlone
  <2>3. call[c].job \in Jobs /\ call[c].kind = "dead_letter"
    BY <2>1, CallTypes DEF Draining, Calls, CallOk
  <2>4. pc'[c] = "hdel" => dead_letters'[call[c].job] > 0
    BY <2>2, <2>3 DEF Typed, TypeOK
  <2>5. CallOk(c)'
    BY <2>1, <2>2, <2>3, <2>4 DEF Calls, CallOk, Assigning, Draining, Cleaning
  <2>6. \A v \in Workers : running'[v] \in {running[v], None}
    BY <2>1 DEF DropLocal, Typed, TypeOK
  <2> QED BY <1>0, <2>2, <2>5, <2>6, CallsFrame
<1>9. CASE Hdel(c) \/ Decr(c) \/ DeleteLease(c) \/ RemoveDraining(c)
  <2>1. /\ UNCHANGED <<running, dead_letters>> /\ pc[c] \in Cleaning
        /\ Done(c) \/ \E l \in Cleaning : Goto(c, l)
    BY <1>9 DEF Hdel, Decr, DeleteLease, RemoveDraining, Cleaned, Cleaning
  <2>2. /\ Alone(c)
        /\ \/ pc'[c] = "idle" /\ call'[c] = NoCall
           \/ pc'[c] \in Cleaning /\ call'[c] = call[c]
    BY <2>1, EndAlone
  <2>3. CallOk(c)'
    BY <2>1, <2>2 DEF Calls, CallOk, Assigning, Draining, Cleaning
  <2> QED BY <1>0, <2>1, <2>2, <2>3, CallsFrame
<1> QED
  BY <1>1, <1>2, <1>3, <1>4, <1>5, <1>6, <1>7, <1>8, <1>9
  DEF CallerStep, ControllerStep

LEMMA CrashEffect ==
  ASSUME Typed, NEW r \in Replicas, Crash(r)
  PROVE  /\ \A c \in Callers :
              IF ReplicaOf[c] = r
              THEN pc'[c] = "idle" /\ call'[c] = NoCall
              ELSE pc'[c] = pc[c] /\ call'[c] = call[c]
         /\ \A c \in Callers :
              ReplicaOf[c] = r /\ call[c].kind # "dead_letter"
                /\ call[c].job # None => call[c].job \in queue'
         /\ \A w \in Workers :
              \/ running'[w] = running[w]
              \/ running'[w] = None /\ running[w] \in queue'
         /\ queue \subseteq queue'
         /\ faults' = faults + 1
         /\ UNCHANGED <<redis, dead_letters, past>>
<1> DEFINE threads == {c \in Callers : ReplicaOf[c] = r}
           workers == UNION {Assigns[c] : c \in threads}
           handed == {call[c].job : c \in {d \in threads :
                                            call[d].kind # "dead_letter"}}
           held == {running[w] : w \in workers} \cup handed
<1>1. /\ pc' = [c \in Callers |-> IF c \in threads THEN "idle" ELSE pc[c]]
      /\ call' = [c \in Callers |-> IF c \in threads THEN NoCall ELSE call[c]]
      /\ running' = [w \in Workers |-> IF w \in workers THEN None
                                                        ELSE running[w]]
      /\ queue' = queue \cup (held \ {None})
      /\ faults' = faults + 1
      /\ UNCHANGED <<redis, dead_letters, past>>
  BY DEF Crash, Fault
<1>2. \A c \in Callers :
        ReplicaOf[c] = r /\ call[c].kind # "dead_letter"
          /\ call[c].job # None => call[c].job \in queue'
  BY <1>1
<1>3. \A w \in Workers :
        \/ running'[w] = running[w]
        \/ running'[w] = None /\ running[w] \in queue'
  BY <1>1
<1> QED BY <1>1, <1>2, <1>3

LEMMA CallsStep == Typed /\ Calls /\ [Next]_vars => Calls'
<1> SUFFICES ASSUME Typed, Calls, [Next]_vars PROVE Calls'
  OBVIOUS
<1>1. ASSUME NEW r \in Replicas, Crash(r) PROVE Calls'
  <2> SUFFICES ASSUME NEW c \in Callers PROVE CallOk(c)'
    BY DEF Calls
  <2>1. CASE ReplicaOf[c] = r
    <3>1. pc'[c] = "idle" /\ call'[c] = NoCall
      BY <1>1, <2>1, CrashEffect
    <3> QED BY <3>1 DEF CallOk, Assigning, Draining, Cleaning
  <2>2. CASE ReplicaOf[c] # r
    <3>1. /\ pc'[c] = pc[c] /\ call'[c] = call[c]
          /\ dead_letters' = dead_letters
          /\ \A w \in Workers : running'[w] \in {running[w], None}
      BY <1>1, <2>2, CrashEffect
    <3>2. pc[c] \in Assigning => call[c].worker \in Workers
      BY CallTypes DEF Assigning
    <3> QED BY <3>1, <3>2 DEF Calls, CallOk
  <2> QED BY <2>1, <2>2
<1>2. ASSUME NEW w \in Workers, LeaseExpires(w) PROVE Calls'
  BY <1>2 DEF LeaseExpires, world, Calls, CallOk
<1>3. CASE UNCHANGED vars
  BY <1>3 DEF vars, world, Calls, CallOk
<1> QED BY <1>1, <1>2, <1>3, CallsByStep DEF Next

LEMMA InitCalls == Init => Calls
  BY DEF Init, Calls, CallOk, Assigning, Draining, Cleaning
-----------------------------------------------------------------------------
(* No job is lost.  A call that only writes a dead letter does not count    *)
(* as a holder of the job until the record is written.                      *)

Holder(c, j) ==
  call[c].job = j /\ call[c].kind \in {"assign", "checkpoint"}

InHand(j) ==
  \/ j \in queue
  \/ \E w \in Workers : running[w] = j
  \/ \E c \in Callers : Holder(c, j)
  \/ dead_letters[j] > 0

Kept == \A j \in Jobs : InHand(j)

\* What a step of thread c must not let go of.
LEMMA KeptFrame ==
  ASSUME Typed, Kept, NEW c \in Callers, Alone(c), [Next]_vars,
         \A j \in queue : InHand(j)',
         \A w \in Workers, j \in Jobs : running[w] = j => InHand(j)',
         \A j \in Jobs : Holder(c, j) => InHand(j)'
  PROVE  Kept'
<1> SUFFICES ASSUME NEW j \in Jobs PROVE InHand(j)'
  BY DEF Kept
<1>1. CASE \E w \in Workers : running[w] = j
  BY <1>1
<1>2. CASE \E d \in Callers : Holder(d, j)
  <2>1. PICK d \in Callers : Holder(d, j)
    BY <1>2
  <2>2. CASE d # c
    <3>1. call'[d] = call[d]
      BY <2>2 DEF Alone
    <3> QED BY <2>1, <3>1 DEF Holder, InHand
  <2> QED BY <2>1, <2>2
<1>3. CASE dead_letters[j] > 0
  <2>1. dead_letters'[j] > 0
    BY <1>3, DeadLettersGrow DEF Typed, TypeOK
  <2> QED BY <2>1 DEF InHand
<1> QED BY <1>1, <1>2, <1>3 DEF Kept, InHand

LEMMA StillQueued ==
  ASSUME queue \subseteq queue' PROVE \A j \in queue : InHand(j)'
  BY DEF InHand

LEMMA StillRunning ==
  ASSUME UNCHANGED running
  PROVE  \A w \in Workers, j \in Jobs : running[w] = j => InHand(j)'
  BY DEF InHand

LEMMA KeptByStep ==
  ASSUME Typed, Calls, Kept, NEW c \in Callers, CallerStep(c) PROVE Kept'
<1>0. [Next]_vars
  BY DEF Next
<1>1. ASSUME NEW w \in Workers, NEW now \in Times, SelectNextJob(c, w, now)
      PROVE  Kept'
  <2>1. PICK i \in queue :
           /\ Alone(c) /\ pc[c] = "idle"
           /\ call'[c] = [worker |-> w, job |-> i, kind |-> "assign"]
           /\ queue' = queue \ {i}
           /\ UNCHANGED running
    BY <1>1, SelectEffect
  <2>2. \A j \in queue : InHand(j)'
    BY <2>1 DEF InHand, Holder
  <2>3. \A j \in Jobs : ~Holder(c, j)
    BY <2>1 DEF Calls, CallOk, NoCall, Holder
  <2> QED BY <1>0, <2>1, <2>2, <2>3, StillRunning, KeptFrame
<1>2. CASE CheckDraining(c) \/ CheckLease(c) \/ CheckLimit(c)
  <2>1. /\ UNCHANGED running
        /\ \E cond : \E label \in Assigning : RefuseIf(c, cond, label)
    BY <1>2 DEF CheckDraining, CheckLease, CheckLimit, LimitChecked, Assigning
  <2>2. /\ Alone(c)
        /\ \/ queue' = queue \cup {call[c].job}
           \/ call'[c] = call[c] /\ queue' = queue
    BY <2>1, EndAlone
  <2>3. \A j \in Jobs : Holder(c, j) => InHand(j)'
    BY <2>2 DEF InHand, Holder
  <2> QED BY <1>0, <2>1, <2>2, <2>3, StillRunning, StillQueued, KeptFrame
<1>3. CASE AssignHset(c)
  <2>1. /\ UNCHANGED running
        /\ \/ Goto(c, "incr") /\ UNCHANGED queue
           \/ Done(c) /\ queue' = queue \cup {call[c].job}
    BY <1>3 DEF AssignHset, Refuse
  <2>2. /\ Alone(c) /\ queue \subseteq queue'
        /\ \/ call'[c] = call[c]
           \/ queue' = queue \cup {call[c].job}
    BY <2>1, EndAlone
  <2>3. \A j \in Jobs : Holder(c, j) => InHand(j)'
    BY <2>2 DEF InHand, Holder
  <2> QED BY <1>0, <2>1, <2>2, <2>3, StillRunning, StillQueued, KeptFrame
<1>4. CASE AssignIncr(c)
  <2>1. /\ pc[c] = "incr" /\ Done(c) /\ queue \subseteq queue'
        /\ \/ UNCHANGED running /\ queue' = queue \cup {call[c].job}
           \/ running' = [running EXCEPT ![call[c].worker] = call[c].job]
    BY <1>4 DEF AssignIncr, Refuse
  <2>2. /\ Alone(c) /\ call[c].worker \in Workers
        /\ running[call[c].worker] = None
    BY <2>1, EndAlone, CallTypes DEF Calls, CallOk, Assigning
  <2>3. \A w \in Workers : running[w] # None => running'[w] = running[w]
    BY <2>1, <2>2 DEF Typed, TypeOK
  <2>4. \A w \in Workers, j \in Jobs : running[w] = j => InHand(j)'
    BY <2>3, WorkerAssumption DEF InHand
  <2>5. call[c].job \in queue' \/ running'[call[c].worker] = call[c].job
    BY <2>1, <2>2 DEF Typed, TypeOK
  <2>6. \A j \in Jobs : Holder(c, j) => InHand(j)'
    BY <2>2, <2>5 DEF InHand, Holder
  <2> QED BY <1>0, <2>1, <2>2, <2>4, <2>6, StillQueued, KeptFrame
<1>5. ASSUME NEW w \in Workers, BeginDrain(c, w) PROVE Kept'
  <2>1. /\ pc[c] = "idle" /\ UNCHANGED <<running, queue>> /\ Alone(c)
    BY <1>5 DEF BeginDrain, world, Alone, Typed, TypeOK
  <2>2. \A j \in Jobs : ~Holder(c, j)
    BY <2>1 DEF Calls, CallOk, NoCall, Holder
  <2> QED BY <1>0, <2>1, <2>2, StillRunning, StillQueued, KeptFrame
<1>6. CASE SetLease(c) \/ AddDraining(c)
  <2>1. /\ UNCHANGED <<running, queue>> /\ pc[c] \in Draining
        /\ Goto(c, "sadd") \/ Done(c)
    BY <1>6 DEF SetLease, AddDraining, world, Draining
  <2>2. Alone(c)
    BY <2>1, EndAlone
  <2>3. \A j \in Jobs : ~Holder(c, j)
    BY <2>1 DEF Calls, CallOk, Holder
  <2> QED BY <1>0, <2>1, <2>2, <2>3, StillRunning, StillQueued, KeptFrame
<1>7. ASSUME NEW w \in Workers, NEW kind \in {"checkpoint", "dead_letter"},
             Release(c, w, kind)
      PROVE  Kept'
  <2> DEFINE job == ActiveJob(ReplicaOf[c], w)
  <2>1. /\ Alone(c) /\ pc[c] = "idle"
        /\ call'[c] = [worker |-> w, job |-> job, kind |-> kind]
        /\ \/ kind = "checkpoint" /\ DropLocal(ReplicaOf[c], w, job)
           \/ UNCHANGED running
        /\ UNCHANGED queue
    BY <1>7, ReleaseEffect
  <2> HIDE DEF job
  <2>2. kind = "checkpoint" =>
          call'[c].job = job /\ call'[c].kind = "checkpoint"
    BY <2>1
  <2>3. \A v \in Workers : \/ running'[v] = running[v]
                           \/ running[v] = job /\ kind = "checkpoint"
    BY <2>1 DEF DropLocal, Typed, TypeOK
  <2>4. \A v \in Workers, j \in Jobs : running[v] = j => InHand(j)'
    BY <2>2, <2>3 DEF InHand, Holder
  <2>5. \A j \in Jobs : ~Holder(c, j)
    BY <2>1 DEF Calls, CallOk, NoCall, Holder
  <2> QED BY <1>0, <2>1, <2>4, <2>5, StillQueued, KeptFrame
<1>8. CASE InsertDeadLetter(c)
  <2>1. /\ pc[c] = "insert" /\ UNCHANGED queue
        /\ \/ /\ dead_letters' = [dead_letters EXCEPT ![call[c].job] = @ + 1]
              /\ DropLocal(ReplicaOf[c], call[c].worker, call[c].job)
              /\ Goto(c, "hdel")
           \/ Done(c) /\ UNCHANGED running
    BY <1>8 DEF InsertDeadLetter, InsertFailed
  <2>2. Alone(c) /\ call[c].job \in Jobs /\ call[c].kind = "dead_letter"
    BY <2>1, EndAlone, CallTypes DEF Draining, Calls, CallOk
  <2>3. \A v \in Workers :
          \/ running'[v] = running[v]
          \/ running[v] = call[c].job /\ dead_letters'[call[c].job] > 0
    BY <2>1, <2>2 DEF DropLocal, Typed, TypeOK
  <2>4. \A v \in Workers, j \in Jobs : running[v] = j => InHand(j)'
    BY <2>3 DEF InHand
  <2>5. \A j \in Jobs : ~Holder(c, j)
    BY <2>2 DEF Holder
  <2> QED BY <1>0, <2>1, <2>2, <2>4, <2>5, StillQueued, KeptFrame
<1>9. CASE Hdel(c) \/ Decr(c) \/ DeleteLease(c) \/ RemoveDraining(c)
  <2>1. /\ UNCHANGED running /\ pc[c] \in Cleaning
        /\ \/ Cleaned(c)
           \/ UNCHANGED queue /\ \E l \in Cleaning : Goto(c, l)
    BY <1>9 DEF Hdel, Decr, DeleteLease, RemoveDraining, Cleaning
  <2>2. /\ Alone(c) /\ queue \subseteq queue'
        /\ \/ call'[c] = call[c]
           \/ call[c].kind = "checkpoint" => call[c].job \in queue'
    BY <2>1, EndAlone DEF Cleaned
  <2>3. call[c].kind # "assign"
    BY <2>1 DEF Calls, CallOk
  <2>4. \A j \in Jobs : Holder(c, j) => InHand(j)'
    BY <2>2, <2>3 DEF InHand, Holder
  <2> QED BY <1>0, <2>1, <2>2, <2>4, StillRunning, StillQueued, KeptFrame
<1> QED
  BY <1>1, <1>2, <1>3, <1>4, <1>5, <1>6, <1>7, <1>8, <1>9
  DEF CallerStep, ControllerStep

LEMMA KeptStep == Typed /\ Calls /\ Kept /\ [Next]_vars => Kept'
<1> SUFFICES ASSUME Typed, Calls, Kept, [Next]_vars PROVE Kept'
  OBVIOUS
<1>1. ASSUME NEW r \in Replicas, Crash(r) PROVE Kept'
  <2> SUFFICES ASSUME NEW j \in Jobs PROVE InHand(j)'
    BY DEF Kept
  <2>0. j # None
    BY WorkerAssumption
  <2>1. CASE j \in queue
    BY <1>1, <2>1, CrashEffect DEF InHand
  <2>2. CASE \E w \in Workers : running[w] = j
    <3>1. PICK w \in Workers : running[w] = j
      BY <2>2
    <3>2. running'[w] = j \/ j \in queue'
      BY <1>1, <3>1, CrashEffect
    <3> QED BY <3>2 DEF InHand
  <2>3. CASE \E c \in Callers : Holder(c, j)
    <3>1. PICK c \in Callers : Holder(c, j)
      BY <2>3
    <3>2. call'[c] = call[c] \/ j \in queue'
      BY <1>1, <2>0, <3>1, CrashEffect DEF Holder
    <3> QED BY <3>1, <3>2 DEF InHand, Holder
  <2>4. CASE dead_letters[j] > 0
    BY <1>1, <2>4, CrashEffect DEF InHand
  <2> QED BY <2>1, <2>2, <2>3, <2>4 DEF Kept, InHand
<1>2. ASSUME NEW w \in Workers, LeaseExpires(w) PROVE Kept'
  BY <1>2 DEF LeaseExpires, world, Kept, InHand, Holder
<1>3. CASE UNCHANGED vars
  BY <1>3 DEF vars, world, Kept, InHand, Holder
<1> QED BY <1>1, <1>2, <1>3, KeptByStep DEF Next

\* For every number of threads and any number of failed commands, failed
\* inserts and dead processes, a job waits, runs, is in the hands of a call,
\* or has a dead letter.
THEOREM JobsAreKept == Spec => []NoJobIsLost
<1>1. Init => Calls /\ Kept
  BY InitCalls DEF Init, Kept, InHand
<1>2. Kept => NoJobIsLost
  BY DEF Kept, InHand, Holder, NoJobIsLost
<1> QED BY <1>1, <1>2, TypedHolds, CallsStep, KeptStep, PTL DEF Spec
-----------------------------------------------------------------------------
(* Fault-free operation, as a table: what a step of thread c for worker w   *)
(* leaves in the active-job hash (a), in execution (x), in the local cache  *)
(* (l) and in the queue (q).                                                *)

\* As long as no outsider is counted, a thread begins on its own worker only.
Own(c, w) == outside' = 0 => outside = 0 /\ (pc[c] = "idle" => w \in Assigns[c])

Effect(c, w, label, rec, a, x, l, q) ==
  /\ Alone(c) /\ w \in Workers /\ Own(c, w)
  /\ pc'[c] = label /\ call'[c] = rec
  /\ pc[c] = "idle" \/ call[c].worker = w
  /\ rec = NoCall \/ rec.worker = w
  /\ active_jobs' = [active_jobs EXCEPT ![w] = a]
  /\ running' = [running EXCEPT ![w] = x]
  /\ \A r \in Replicas, v \in Workers :
       v # w => local_active_jobs'[r][v] = local_active_jobs[r][v]
  /\ local_active_jobs'[ReplicaOf[c]][w] = l
  /\ queue' = q

Cached(c, w) == local_active_jobs[ReplicaOf[c]][w]

\* The slot of the worker is left as it is.
Passes(c, w, label, rec, q) ==
  Effect(c, w, label, rec, active_jobs[w], running[w], Cached(c, w), q)

Checking == {"check_draining", "check_lease", "check_limit"}

AssignRow(c, w) ==
  \/ \E j \in queue :
       /\ pc[c] = "idle" /\ running[w] = None /\ in_flight' = in_flight
       /\ Passes(c, w, "check_draining",
                 [worker |-> w, job |-> j, kind |-> "assign"], queue \ {j})
  \/ /\ pc[c] \in Checking /\ in_flight' = in_flight
     /\ \/ Passes(c, w, "idle", NoCall, queue \cup {call[c].job})
        \/ \E label \in Checking : Passes(c, w, label, call[c], queue)
  \/ /\ pc[c] = "check_limit" /\ in_flight' = in_flight
     /\ ~AtLimit(in_flight[tenant_id[call[c].job]])
     /\ Effect(c, w, "hset", call[c], active_jobs[w], running[w],
               call[c].job, queue)
  \/ /\ pc[c] = "hset" /\ in_flight' = in_flight
     /\ Effect(c, w, "incr", call[c], call[c].job, running[w], Cached(c, w),
               queue)
  \/ /\ pc[c] = "incr"
     /\ in_flight' = [in_flight EXCEPT ![tenant_id[call[c].job]] = @ + 1]
     /\ Effect(c, w, "idle", NoCall, active_jobs[w], call[c].job,
               Cached(c, w), queue)

DrainRow(c, w) ==
  /\ in_flight' = in_flight
  /\ \/ /\ pc[c] = "idle"
        /\ \E rec \in CallRecord :
             /\ rec.job = None /\ rec.worker = w
             /\ Effect(c, w, "set_lease", rec, active_jobs[w], running[w],
                       ActiveJob(ReplicaOf[c], w), queue)
     \/ /\ pc[c] \in Draining
        /\ \/ Passes(c, w, "sadd", call[c], queue)
           \/ Passes(c, w, "idle", NoCall, queue)

Dropped(w, job) == IF running[w] = job THEN None ELSE running[w]

ReleaseRow(c, w) ==
  \/ \E job \in Jobs, kind \in {"checkpoint", "dead_letter"} :
       /\ job = ActiveJob(ReplicaOf[c], w) /\ in_flight' = in_flight
       /\ pc[c] = "idle"
       /\ \/ Effect(c, w, "hdel",
                    [worker |-> w, job |-> job, kind |-> kind],
                    active_jobs[w], Dropped(w, job), None, queue)
          \/ Effect(c, w, "insert",
                    [worker |-> w, job |-> job, kind |-> kind],
                    active_jobs[w], running[w], job, queue)
  \/ /\ pc[c] = "insert" /\ in_flight' = in_flight
     /\ Effect(c, w, "hdel", call[c], active_jobs[w],
               Dropped(w, call[c].job), None, queue)
  \/ /\ pc[c] = "hdel" /\ in_flight' = in_flight
     /\ Effect(c, w, "decr", call[c], None, running[w], Cached(c, w), queue)
  \/ /\ pc[c] = "decr"
     /\ in_flight' = [in_flight EXCEPT ![tenant_id[call[c].job]] = @ - 1]
     /\ Passes(c, w, "del_lease", call[c], queue)
  \/ /\ pc[c] \in {"del_lease", "srem"} /\ in_flight' = in_flight
     /\ \/ Passes(c, w, "srem", call[c], queue)
        \/ Passes(c, w, "idle", NoCall, queue)
        \/ Passes(c, w, "idle", NoCall, queue \cup {call[c].job})

LEMMA FaultCounts ==
  ASSUME Typed, Fault PROVE faults' # 0
  BY WorkerAssumption DEF Fault, Typed, TypeOK

LEMMA CallWorker ==
  ASSUME Typed, NEW c \in Callers, pc[c] # "idle", UNCHANGED outside
  PROVE  call[c].worker \in Workers /\ Own(c, call[c].worker)
  BY CallTypes DEF Own

\* EXCEPT with the old value changes nothing.
LEMMA SameSlot ==
  ASSUME Typed, NEW w \in Workers
  PROVE  /\ active_jobs = [active_jobs EXCEPT ![w] = active_jobs[w]]
         /\ running = [running EXCEPT ![w] = running[w]]
  BY DEF Typed, TypeOK

LEMMA LocalEffect ==
  ASSUME Typed, NEW r \in Replicas, NEW w \in Workers, NEW j, SetLocal(r, w, j)
  PROVE  /\ \A q \in Replicas, v \in Workers :
              v # w => local_active_jobs'[q][v] = local_active_jobs[q][v]
         /\ local_active_jobs'[r][w] = j
  BY DEF SetLocal, Typed, TypeOK

LEMMA PassesWhenUnchanged ==
  ASSUME Typed, NEW c \in Callers, NEW w \in Workers, Own(c, w),
         NEW label, NEW rec, NEW q,
         Alone(c), pc'[c] = label, call'[c] = rec, queue' = q,
         pc[c] = "idle" \/ call[c].worker = w, rec = NoCall \/ rec.worker = w,
         UNCHANGED <<active_jobs, running, local_active_jobs>>
  PROVE  Passes(c, w, label, rec, q)
  BY SameSlot DEF Passes, Effect, Cached

LEMMA AssignRows ==
  ASSUME Typed, NEW c \in Callers, faults' = 0, UNCHANGED outside,
         \/ \E w \in Workers, now \in Times : SelectNextJob(c, w, now)
         \/ CheckDraining(c) \/ CheckLease(c) \/ CheckLimit(c)
         \/ AssignHset(c) \/ AssignIncr(c)
  PROVE  \E w \in Workers : AssignRow(c, w)
<1>0. ~Fault /\ ReplicaOf[c] \in Replicas
  BY FaultCounts, CallTypes
<1>1. ASSUME NEW w \in Workers, NEW now \in Times, SelectNextJob(c, w, now)
      PROVE  AssignRow(c, w)
  <2>1. PICK j \in queue :
           /\ Alone(c) /\ pc[c] = "idle" /\ pc'[c] = "check_draining"
           /\ call'[c] = [worker |-> w, job |-> j, kind |-> "assign"]
           /\ w \in Assigns[c] /\ running[w] = None
           /\ queue' = queue \ {j}
           /\ UNCHANGED <<redis, dead_letters, local, running>>
    BY <1>1, SelectEffect
  <2> DEFINE rec == [worker |-> w, job |-> j, kind |-> "assign"]
  <2>2. rec.worker = w
    OBVIOUS
  <2> HIDE DEF rec
  <2>3. Passes(c, w, "check_draining", rec, queue \ {j})
    BY <2>1, <2>2, PassesWhenUnchanged DEF rec, redis, local, Own
  <2> QED BY <2>1, <2>3 DEF AssignRow, rec, redis
<1>2. CASE CheckDraining(c) \/ CheckLease(c)
  <2> DEFINE w == call[c].worker
  <2>1. /\ pc[c] \in Checking
        /\ \E cond : \E label \in Checking : RefuseIf(c, cond, label)
        /\ UNCHANGED <<redis, local, running>>
    BY <1>2 DEF CheckDraining, CheckLease, Checking
  <2>2. w \in Workers /\ Own(c, w)
    BY <2>1, CallWorker DEF Checking
  <2>3. /\ Alone(c)
        /\ \/ /\ pc'[c] = "idle" /\ call'[c] = NoCall
              /\ queue' = queue \cup {call[c].job}
           \/ \E label \in Checking :
                pc'[c] = label /\ call'[c] = call[c] /\ queue' = queue
    BY <2>1, EndAlone
  <2>4. \/ Passes(c, w, "idle", NoCall, queue \cup {call[c].job})
        \/ \E label \in Checking : Passes(c, w, label, call[c], queue)
    BY <2>1, <2>2, <2>3, PassesWhenUnchanged DEF redis, local
  <2>5. AssignRow(c, w)
    BY <2>1, <2>4 DEF AssignRow, redis
  <2> QED BY <2>2, <2>5
<1>3. CASE CheckLimit(c)
  <2> DEFINE w == call[c].worker
             reached == AtLimit(in_flight[tenant_id[call[c].job]])
  <2>1. /\ pc[c] = "check_limit" /\ LimitChecked(c, reached)
        /\ UNCHANGED <<redis, running>>
    BY <1>0, <1>3 DEF CheckLimit
  <2>2. w \in Workers /\ Own(c, w)
    BY <2>1, CallWorker
  <2>3. CASE reached
    <3>1. /\ Refuse(c) /\ UNCHANGED local_active_jobs
      BY <2>1, <2>3 DEF LimitChecked, RefuseIf
    <3>2. /\ Alone(c) /\ pc'[c] = "idle" /\ call'[c] = NoCall
          /\ queue' = queue \cup {call[c].job}
      BY <3>1, EndAlone DEF Refuse
    <3>3. Passes(c, w, "idle", NoCall, queue \cup {call[c].job})
      BY <2>1, <2>2, <3>1, <3>2, PassesWhenUnchanged DEF redis
    <3> QED BY <2>1, <2>2, <3>3 DEF AssignRow, redis, Checking
  <2>4. CASE ~reached
    <3>1. /\ Goto(c, "hset") /\ UNCHANGED queue
          /\ SetLocal(ReplicaOf[c], w, call[c].job)
      BY <2>1, <2>4 DEF LimitChecked, RefuseIf
    <3>2. Alone(c) /\ pc'[c] = "hset" /\ call'[c] = call[c]
      BY <3>1, EndAlone
    <3>3. /\ \A q \in Replicas, v \in Workers :
               v # w => local_active_jobs'[q][v] = local_active_jobs[q][v]
          /\ local_active_jobs'[ReplicaOf[c]][w] = call[c].job
      BY <1>0, <2>2, <3>1, LocalEffect
    <3>4. Effect(c, w, "hset", call[c], active_jobs[w], running[w],
                 call[c].job, queue)
      BY <2>1, <2>2, <3>1, <3>2, <3>3, SameSlot DEF Effect, redis
    <3> QED BY <2>1, <2>2, <2>4, <3>4 DEF AssignRow, redis
  <2> QED BY <2>3, <2>4
<1>4. CASE AssignHset(c)
  <2> DEFINE w == call[c].worker
  <2>1. /\ pc[c] = "hset" /\ Goto(c, "incr")
        /\ active_jobs' = [active_jobs EXCEPT ![w] = call[c].job]
        /\ UNCHANGED <<queue, local_active_jobs, running, in_flight>>
    BY <1>0, <1>4 DEF AssignHset
  <2>2. w \in Workers /\ Own(c, w)
    BY <2>1, CallWorker
  <2>3. Alone(c) /\ pc'[c] = "incr" /\ call'[c] = call[c]
    BY <2>1, EndAlone
  <2>4. Effect(c, w, "incr", call[c], call[c].job, running[w], Cached(c, w),
               queue)
    BY <2>1, <2>2, <2>3, SameSlot DEF Effect, Cached
  <2> QED BY <2>1, <2>2, <2>4 DEF AssignRow
<1>5. CASE AssignIncr(c)
  <2> DEFINE w == call[c].worker
  <2>1. /\ pc[c] = "incr" /\ Done(c)
        /\ running' = [running EXCEPT ![w] = call[c].job]
        /\ in_flight' = [in_flight EXCEPT ![tenant_id[call[c].job]] = @ + 1]
        /\ UNCHANGED <<queue, local_active_jobs, active_jobs>>
    BY <1>0, <1>5 DEF AssignIncr, SlotTaken
  <2>2. w \in Workers /\ Own(c, w)
    BY <2>1, CallWorker
  <2>3. Alone(c) /\ pc'[c] = "idle" /\ call'[c] = NoCall
    BY <2>1, EndAlone
  <2>4. Effect(c, w, "idle", NoCall, active_jobs[w], call[c].job,
               Cached(c, w), queue)
    BY <2>1, <2>2, <2>3, SameSlot DEF Effect, Cached
  <2> QED BY <2>1, <2>2, <2>4 DEF AssignRow
<1> QED BY <1>1, <1>2, <1>3, <1>4, <1>5

LEMMA OwnWhenCounted ==
  ASSUME Typed, NEW c \in Callers, NEW w \in Workers, Count(c, w)
  PROVE  Own(c, w)
<1>1. outside \in Nat
  BY WorkerAssumption DEF Typed, TypeOK
<1> QED BY <1>1 DEF Count, Own

LEMMA DrainRows ==
  ASSUME Typed, NEW c \in Callers, faults' = 0,
         \/ \E w \in Workers : BeginDrain(c, w)
         \/ (SetLease(c) \/ AddDraining(c)) /\ UNCHANGED outside
  PROVE  \E w \in Workers : DrainRow(c, w)
<1>0. ~Fault /\ ReplicaOf[c] \in Replicas
  BY FaultCounts, CallTypes
<1>1. ASSUME NEW w \in Workers, BeginDrain(c, w) PROVE DrainRow(c, w)
  <2> DEFINE rec == [NoCall EXCEPT !.worker = w, !.kind = "drain"]
  <2>1. rec \in CallRecord /\ rec.worker = w /\ rec.job = None
    BY DEF CallRecord, NoCall
  <2>2. /\ pc[c] = "idle" /\ w \in Drains[c]
        /\ pc' = [pc EXCEPT ![c] = "set_lease"]
        /\ call' = [call EXCEPT ![c] = rec]
        /\ SetLocal(ReplicaOf[c], w, ActiveJob(ReplicaOf[c], w))
        /\ UNCHANGED <<redis, running, queue>>
    BY <1>0, <1>1 DEF BeginDrain, world
  <2> HIDE DEF rec
  <2>3. Alone(c) /\ pc'[c] = "set_lease" /\ call'[c] = rec
    BY <2>2 DEF Alone, Typed, TypeOK
  <2>4. /\ \A q \in Replicas, v \in Workers :
             v # w => local_active_jobs'[q][v] = local_active_jobs[q][v]
        /\ local_active_jobs'[ReplicaOf[c]][w] = ActiveJob(ReplicaOf[c], w)
    BY <1>0, <2>2, LocalEffect
  <2>5. Own(c, w)
    BY <1>1, OwnWhenCounted DEF BeginDrain
  <2>6. Effect(c, w, "set_lease", rec, active_jobs[w], running[w],
               ActiveJob(ReplicaOf[c], w), queue)
    BY <2>1, <2>2, <2>3, <2>4, <2>5, SameSlot DEF Effect, redis
  <2> QED BY <2>1, <2>2, <2>6 DEF DrainRow, redis
<1>2. CASE (SetLease(c) \/ AddDraining(c)) /\ UNCHANGED outside
  <2> DEFINE w == call[c].worker
  <2>1. /\ pc[c] \in Draining
        /\ Goto(c, "sadd") \/ Done(c)
        /\ UNCHANGED <<active_jobs, in_flight, local, running, queue>>
    BY <1>2 DEF SetLease, AddDraining, world, Draining
  <2>2. w \in Workers /\ Own(c, w) /\ pc[c] \in Draining
    BY <1>2, CallWorker DEF SetLease, AddDraining, Draining
  <2>3. /\ Alone(c)
        /\ \/ pc'[c] = "sadd" /\ call'[c] = call[c]
           \/ pc'[c] = "idle" /\ call'[c] = NoCall
    BY <2>1, EndAlone
  <2>4. \/ Passes(c, w, "sadd", call[c], queue)
        \/ Passes(c, w, "idle", NoCall, queue)
    BY <2>1, <2>2, <2>3, PassesWhenUnchanged DEF local
  <2> QED BY <2>1, <2>2, <2>4 DEF DrainRow
<1> QED BY <1>1, <1>2

LEMMA DropEffect ==
  ASSUME Typed, NEW r \in Replicas, NEW w \in Workers, NEW job,
         DropLocal(r, w, job)
  PROVE  /\ running' = [running EXCEPT ![w] = Dropped(w, job)]
         /\ \A q \in Replicas, v \in Workers :
              v # w => local_active_jobs'[q][v] = local_active_jobs[q][v]
         /\ local_active_jobs'[r][w] = None
<1>1. running' = [running EXCEPT ![w] = Dropped(w, job)]
  BY SameSlot DEF DropLocal, Dropped
<1> QED BY <1>1, LocalEffect DEF DropLocal

LEMMA ReleaseRows ==
  ASSUME Typed, NEW c \in Callers, faults' = 0,
         \/ \E w \in Workers, kind \in {"checkpoint", "dead_letter"} :
              Release(c, w, kind)
         \/ /\ UNCHANGED outside
            /\ \/ InsertDeadLetter(c) \/ Hdel(c) \/ Decr(c)
               \/ DeleteLease(c) \/ RemoveDraining(c)
  PROVE  \E w \in Workers : ReleaseRow(c, w)
<1>0. ~Fault /\ ReplicaOf[c] \in Replicas
  BY FaultCounts, CallTypes
<1>1. ASSUME NEW w \in Workers, NEW kind \in {"checkpoint", "dead_letter"},
             Release(c, w, kind)
      PROVE  ReleaseRow(c, w)
  <2> DEFINE job == ActiveJob(ReplicaOf[c], w)
             rec == [worker |-> w, job |-> job, kind |-> kind]
  <2>1. /\ Alone(c) /\ pc[c] = "idle" /\ job \in Jobs
        /\ w \in Assigns[c] \cup Drains[c]
        /\ call'[c] = rec
        /\ \/ /\ kind = "checkpoint" /\ pc'[c] = "hdel"
              /\ DropLocal(ReplicaOf[c], w, job)
           \/ /\ kind = "dead_letter" /\ pc'[c] = "insert"
              /\ SetLocal(ReplicaOf[c], w, job)
              /\ UNCHANGED <<local_draining_workers, running>>
        /\ UNCHANGED <<redis, dead_letters, queue, faults>>
    BY <1>1, ReleaseEffect
  <2>2. Own(c, w)
    BY <1>1, OwnWhenCounted DEF Release
  <2>3. rec.worker = w
    OBVIOUS
  <2> HIDE DEF job, rec
  <2>4. CASE pc'[c] = "hdel" /\ DropLocal(ReplicaOf[c], w, job)
    <3>1. Effect(c, w, "hdel", rec, active_jobs[w], Dropped(w, job), None,
                 queue)
      BY <1>0, <2>1, <2>2, <2>3, <2>4, DropEffect, SameSlot DEF Effect, redis
    <3> QED BY <2>1, <3>1 DEF ReleaseRow, redis, rec, job
  <2>5. CASE /\ pc'[c] = "insert" /\ SetLocal(ReplicaOf[c], w, job)
             /\ UNCHANGED running
    <3>1. Effect(c, w, "insert", rec, active_jobs[w], running[w], job, queue)
      BY <1>0, <2>1, <2>2, <2>3, <2>5, LocalEffect, SameSlot
      DEF Effect, redis
    <3> QED BY <2>1, <3>1 DEF ReleaseRow, redis, rec, job
  <2> QED BY <2>1, <2>4, <2>5
<1>2. CASE InsertDeadLetter(c) /\ UNCHANGED outside
  <2> DEFINE w == call[c].worker
  <2>1. /\ pc[c] = "insert" /\ Goto(c, "hdel")
        /\ DropLocal(ReplicaOf[c], w, call[c].job)
        /\ UNCHANGED <<redis, queue>>
    BY <1>0, <1>2 DEF InsertDeadLetter
  <2>2. w \in Workers /\ Own(c, w)
    BY <1>2, <2>1, CallWorker
  <2>3. Alone(c) /\ pc'[c] = "hdel" /\ call'[c] = call[c]
    BY <2>1, EndAlone
  <2>4. Effect(c, w, "hdel", call[c], active_jobs[w],
               Dropped(w, call[c].job), None, queue)
    BY <1>0, <2>1, <2>2, <2>3, DropEffect, SameSlot DEF Effect, redis
  <2> QED BY <2>1, <2>2, <2>4 DEF ReleaseRow, redis
<1>3. CASE Hdel(c) /\ UNCHANGED outside
  <2> DEFINE w == call[c].worker
  <2>1. /\ pc[c] = "hdel" /\ Goto(c, "decr")
        /\ active_jobs' = [active_jobs EXCEPT ![w] = None]
        /\ UNCHANGED <<queue, local, running, in_flight>>
    BY <1>0, <1>3 DEF Hdel
  <2>2. w \in Workers /\ Own(c, w)
    BY <1>3, <2>1, CallWorker
  <2>3. Alone(c) /\ pc'[c] = "decr" /\ call'[c] = call[c]
    BY <2>1, EndAlone
  <2>4. Effect(c, w, "decr", call[c], None, running[w], Cached(c, w), queue)
    BY <2>1, <2>2, <2>3, SameSlot DEF Effect, Cached, local
  <2> QED BY <2>1, <2>2, <2>4 DEF ReleaseRow
<1>4. CASE Decr(c) /\ UNCHANGED outside
  <2> DEFINE w == call[c].worker
  <2>1. /\ pc[c] = "decr" /\ Goto(c, "del_lease")
        /\ in_flight' = [in_flight EXCEPT ![tenant_id[call[c].job]] = @ - 1]
        /\ UNCHANGED <<active_jobs, queue, local, running>>
    BY <1>0, <1>4 DEF Decr, SlotFreed
  <2>2. w \in Workers /\ Own(c, w)
    BY <1>4, <2>1, CallWorker
  <2>3. Alone(c) /\ pc'[c] = "del_lease" /\ call'[c] = call[c]
    BY <2>1, EndAlone
  <2>4. Passes(c, w, "del_lease", call[c], queue)
    BY <2>1, <2>2, <2>3, PassesWhenUnchanged DEF local
  <2> QED BY <2>1, <2>2, <2>4 DEF ReleaseRow
<1>5. CASE (DeleteLease(c) \/ RemoveDraining(c)) /\ UNCHANGED outside
  <2> DEFINE w == call[c].worker
  <2>1. /\ pc[c] \in {"del_lease", "srem"}
        /\ \/ Goto(c, "srem") /\ queue' = queue
           \/ Done(c) /\ queue' \in {queue, queue \cup {call[c].job}}
        /\ UNCHANGED <<active_jobs, local, running, in_flight>>
    BY <1>0, <1>5 DEF DeleteLease, RemoveDraining, Cleaned
  <2>2. w \in Workers /\ Own(c, w)
    BY <1>5, <2>1, CallWorker
  <2>3. /\ Alone(c)
        /\ \/ pc'[c] = "srem" /\ call'[c] = call[c] /\ queue' = queue
           \/ /\ pc'[c] = "idle" /\ call'[c] = NoCall
              /\ queue' \in {queue, queue \cup {call[c].job}}
    BY <2>1, EndAlone
  <2>4. \/ Passes(c, w, "srem", call[c], queue)
        \/ Passes(c, w, "idle", NoCall, queue)
        \/ Passes(c, w, "idle", NoCall, queue \cup {call[c].job})
    BY <2>1, <2>2, <2>3, PassesWhenUnchanged DEF local
  <2> QED BY <2>1, <2>2, <2>4 DEF ReleaseRow
<1> QED BY <1>1, <1>2, <1>3, <1>4, <1>5
-----------------------------------------------------------------------------
(* Without faults and crossed slots, where the call that changes a worker's *)
(* slot stands says what the hash and the worker itself hold.               *)

Stage(c, w) == IF call[c].worker = w THEN pc[c] ELSE "idle"

\* Thread c is in an assign or a release of worker w.
Holding(c, w) == Stage(c, w) \notin {"idle"} \cup Draining

\* What goes with a label: the entry of the hash and the executed job.
Fits(label, job, a, x) ==
  /\ label \in {"idle"} \cup Draining => x = a
  /\ label \in Checking \cup {"hset"} => a = None /\ x = None
  /\ label \in {"incr", "hdel"} => a = job /\ x = None
  /\ label = "insert" => a = job /\ x = job
  /\ label \in {"decr", "del_lease", "srem"} => a = None /\ x = None

SlotOk(c, w) ==
  Holding(c, w) => Fits(Stage(c, w), call[c].job, active_jobs[w], running[w])

Slots ==
  /\ \A c \in Callers, w \in Workers : SlotOk(c, w)
  /\ \A w \in Workers : (\A c \in Callers : ~Holding(c, w)) =>
       running[w] = active_jobs[w]

\* No other thread holds the worker.
Solo(c, w) == \A d \in Callers \ {c} : ~Holding(d, w)

\* A release that begins takes the job its worker executes.
Fresh(c, w) ==
  pc[c] = "idle" /\ pc'[c] \in {"hdel", "insert"} => call'[c].job = running[w]

Apart ==
  ~crossed => \A c, d \in Callers, w \in Workers :
                c # d => ~(Holds(c, w) /\ Holds(d, w))

LEMMA HoldsIsHolding ==
  ASSUME Typed, Calls, NEW c \in Callers, NEW w \in Workers
  PROVE  Holds(c, w) <=> Holding(c, w)
<1>1. pc[c] \in Labels /\ w # None
  BY CallTypes, WorkerAssumption
<1>2. CASE pc[c] = "idle"
  BY <1>1, <1>2 DEF Calls, CallOk, NoCall, Holds, Holding, Stage
<1>3. CASE pc[c] \in Draining
  BY <1>3 DEF Calls, CallOk, Holds, Holding, Stage
<1>4. CASE pc[c] \notin {"idle"} \cup Draining
  <2>1. call[c].kind \in {"assign", "checkpoint", "dead_letter"}
    BY <1>1, <1>4
    DEF Calls, CallOk, Labels, Assigning, Cleaning, Draining
  <2>2. Holding(c, w) <=> call[c].worker = w
    BY <1>4 DEF Holding, Stage
  <2> QED BY <2>1, <2>2 DEF Holds
<1> QED BY <1>2, <1>3, <1>4

\* What a row leaves at its own worker.
LEMMA EffectAt ==
  ASSUME Typed, NEW c \in Callers, NEW w \in Workers,
         NEW label, NEW rec, NEW a, NEW x, NEW l, NEW q,
         Effect(c, w, label, rec, a, x, l, q), label # "idle" => rec.worker = w
  PROVE  /\ Stage(c, w)' = label /\ call'[c] = rec
         /\ active_jobs'[w] = a /\ running'[w] = x /\ Cached(c, w)' = l
         /\ pc'[c] = label
         /\ pc[c] # "idle" => Stage(c, w) = pc[c] /\ call[c].worker = w
         /\ pc[c] = "idle" => Stage(c, w) = "idle"
<1>1. pc'[c] = label /\ call'[c] = rec /\ (pc[c] = "idle" \/ call[c].worker = w)
  BY DEF Effect
<1>2. Stage(c, w)' = label
  BY <1>1 DEF Stage
<1>3. active_jobs'[w] = a /\ running'[w] = x /\ Cached(c, w)' = l
  BY DEF Effect, Cached, Typed, TypeOK
<1> QED BY <1>1, <1>2, <1>3 DEF Stage, Effect

\* What it leaves alone.
LEMMA EffectElsewhere ==
  ASSUME Typed, NEW c \in Callers, NEW w \in Workers,
         NEW label, NEW rec, NEW a, NEW x, NEW l, NEW q,
         Effect(c, w, label, rec, a, x, l, q)
  PROVE  /\ \A d \in Callers, v \in Workers : d # c \/ v # w =>
              /\ Stage(d, v)' = Stage(d, v)
              /\ Stage(d, v) # "idle" => call'[d] = call[d]
         /\ \A v \in Workers : v # w =>
              /\ active_jobs'[v] = active_jobs[v] /\ running'[v] = running[v]
              /\ \A d \in Callers : Cached(d, v)' = Cached(d, v)
<1>0. None \notin Workers /\ \A d \in Callers : ReplicaOf[d] \in Replicas
  BY WorkerAssumption
<1>1. ASSUME NEW v \in Workers, v # w
      PROVE  Stage(c, v)' = Stage(c, v) /\ Stage(c, v) = "idle"
  <2>1. Stage(c, v) = "idle"
    BY <1>1 DEF Effect, Stage
  <2>2. call'[c] = rec /\ (rec = NoCall \/ rec.worker = w)
    BY DEF Effect
  <2>3. call'[c].worker # v
    BY <1>0, <1>1, <2>2 DEF NoCall
  <2> QED BY <2>1, <2>3 DEF Stage
<1>2. \A d \in Callers, v \in Workers : d # c =>
        Stage(d, v)' = Stage(d, v) /\ call'[d] = call[d]
  BY DEF Effect, Alone, Stage
<1>3. \A v \in Workers : v # w =>
        /\ active_jobs'[v] = active_jobs[v] /\ running'[v] = running[v]
        /\ \A d \in Callers : Cached(d, v)' = Cached(d, v)
  BY <1>0 DEF Effect, Cached, Typed, TypeOK
<1> QED BY <1>1, <1>2, <1>3

LEMMA SlotHere ==
  ASSUME Slots, NEW c \in Callers, NEW w \in Workers, Solo(c, w)
  PROVE  Fits(Stage(c, w), call[c].job, active_jobs[w], running[w])
<1>1. CASE Holding(c, w)
  BY <1>1 DEF Slots, SlotOk
<1>2. CASE ~Holding(c, w)
  <2>1. running[w] = active_jobs[w]
    BY <1>2 DEF Slots, Solo
  <2> QED BY <1>2, <2>1 DEF Holding, Fits, Draining, Checking
<1> QED BY <1>1, <1>2

\* A step for one worker that no other thread holds.
LEMMA SlotsFrame ==
  ASSUME Typed, Slots, NEW c \in Callers, NEW w \in Workers, Solo(c, w),
         NEW label, NEW rec, NEW a, NEW x, NEW l, NEW q,
         Effect(c, w, label, rec, a, x, l, q), label # "idle" => rec.worker = w,
         Fits(label, rec.job, a, x)
  PROVE  Slots'
<1>0. /\ \A d \in Callers, v \in Workers : d # c \/ v # w =>
           /\ Stage(d, v)' = Stage(d, v)
           /\ Stage(d, v) # "idle" => call'[d] = call[d]
      /\ \A v \in Workers : v # w =>
           active_jobs'[v] = active_jobs[v] /\ running'[v] = running[v]
  BY EffectElsewhere
<1>1. /\ Stage(c, w)' = label /\ active_jobs'[w] = a /\ running'[w] = x
      /\ call'[c] = rec
  BY EffectAt
<1>2. ASSUME NEW d \in Callers, NEW v \in Workers PROVE SlotOk(d, v)'
  <2>1. CASE v # w
    <3>1. SlotOk(d, v)
      BY DEF Slots
    <3> QED BY <1>0, <2>1, <3>1 DEF SlotOk, Holding
  <2>2. CASE v = w /\ d # c
    <3>1. ~Holding(d, v)'
      BY <1>0, <2>2 DEF Solo, Holding
    <3> QED BY <3>1 DEF SlotOk
  <2>3. CASE v = w /\ d = c
    BY <1>1, <2>3 DEF SlotOk
  <2> QED BY <2>1, <2>2, <2>3
<1>3. ASSUME NEW v \in Workers, \A d \in Callers : ~Holding(d, v)'
      PROVE  running'[v] = active_jobs'[v]
  <2>1. CASE v # w
    <3>1. \A d \in Callers : ~Holding(d, v)
      BY <1>0, <1>3, <2>1 DEF Holding
    <3> QED BY <1>0, <2>1, <3>1 DEF Slots
  <2>2. CASE v = w
    <3>1. label \in {"idle"} \cup Draining
      BY <1>1, <1>3, <2>2 DEF Holding
    <3> QED BY <1>1, <2>2, <3>1 DEF Fits
  <2> QED BY <2>1, <2>2
<1> QED BY <1>2, <1>3 DEF Slots

\* A drain changes no slot and holds none.
LEMMA DrainKeeps ==
  ASSUME Typed, NEW c \in Callers, NEW w \in Workers, DrainRow(c, w)
  PROVE  /\ active_jobs' = active_jobs /\ running' = running /\ queue' = queue
         /\ in_flight' = in_flight
         /\ \A v \in Workers : /\ Stage(c, v) \in {"idle"} \cup Draining
                               /\ Stage(c, v)' \in {"idle"} \cup Draining
         /\ \A d \in Callers \ {c}, v \in Workers : Stage(d, v)' = Stage(d, v)
         /\ Alone(c) /\ pc[c] \in {"idle"} \cup Draining
         /\ call'[c].job \in {None, call[c].job}
<1>1. PICK label, rec, l :
        /\ Effect(c, w, label, rec, active_jobs[w], running[w], l, queue)
        /\ label \in {"idle"} \cup Draining
        /\ rec.job \in {None, call[c].job}
  BY DEF DrainRow, Passes, Draining, NoCall
<1>2. pc[c] \in {"idle"} \cup Draining /\ in_flight' = in_flight
  BY DEF DrainRow
<1>3. /\ Alone(c) /\ pc'[c] = label /\ call'[c] = rec /\ queue' = queue
      /\ active_jobs' = active_jobs /\ running' = running
  BY <1>1, SameSlot DEF Effect
<1>4. \A v \in Workers : /\ Stage(c, v) \in {"idle"} \cup Draining
                         /\ Stage(c, v)' \in {"idle"} \cup Draining
  BY <1>1, <1>2, <1>3 DEF Stage
<1>5. \A d \in Callers \ {c}, v \in Workers : Stage(d, v)' = Stage(d, v)
  BY <1>3 DEF Alone, Stage
<1> QED BY <1>1, <1>2, <1>3, <1>4, <1>5

\* An assign or a release that crosses no other has its worker to itself.
LEMMA SoloRow ==
  ASSUME Typed, Calls, Typed', Calls', Apart, Apart', ~crossed, ~crossed',
         NEW c \in Callers, NEW w \in Workers,
         AssignRow(c, w) \/ ReleaseRow(c, w)
  PROVE  Solo(c, w)
<1> SUFFICES ASSUME NEW d \in Callers, d # c, Holding(d, w) PROVE FALSE
  BY DEF Solo
<1>1. /\ Alone(c) /\ pc[c] \notin Draining
      /\ pc[c] # "idle" => call[c].worker = w
      /\ pc[c] = "idle" =>
           /\ call'[c].worker = w
           /\ call'[c].kind \in {"assign", "checkpoint", "dead_letter"}
  <2>1. /\ \E label, rec, a, x, l, q : Effect(c, w, label, rec, a, x, l, q)
        /\ pc[c] \notin Draining
    <3>1. CASE AssignRow(c, w)
      BY <3>1 DEF AssignRow, Passes, Checking, Draining
    <3>2. CASE ReleaseRow(c, w)
      BY <3>2 DEF ReleaseRow, Passes, Draining
    <3> QED BY <3>1, <3>2
  <2>2. Alone(c) /\ (pc[c] # "idle" => call[c].worker = w)
    BY <2>1 DEF Effect
  <2>3. ASSUME pc[c] = "idle"
        PROVE  \E j, kind :
                 /\ kind \in {"assign", "checkpoint", "dead_letter"}
                 /\ call'[c] = [worker |-> w, job |-> j, kind |-> kind]
    <3>1. CASE AssignRow(c, w)
      BY <2>3, <3>1 DEF AssignRow, Passes, Effect, Checking
    <3>2. CASE ReleaseRow(c, w)
      BY <2>3, <3>2 DEF ReleaseRow, Effect
    <3> QED BY <3>1, <3>2
  <2>4. ASSUME pc[c] = "idle"
        PROVE  /\ call'[c].worker = w
               /\ call'[c].kind \in {"assign", "checkpoint", "dead_letter"}
    <3>1. PICK j, kind : /\ kind \in {"assign", "checkpoint", "dead_letter"}
                         /\ call'[c] = [worker |-> w, job |-> j, kind |-> kind]
      BY <2>3, <2>4
    <3> QED BY <3>1
  <2> QED BY <2>1, <2>2, <2>4
<1>2. Holds(d, w) /\ Holds(d, w)'
  <2>1. Holds(d, w)
    BY HoldsIsHolding
  <2> QED BY <1>1, <2>1 DEF Alone, Holds
<1>3. Holds(c, w) \/ Holds(c, w)'
  <2>1. CASE pc[c] # "idle"
    <3>1. Holding(c, w)
      BY <1>1, <2>1 DEF Holding, Stage
    <3> QED BY <3>1, HoldsIsHolding
  <2>2. CASE pc[c] = "idle"
    BY <1>1, <2>2 DEF Holds
  <2> QED BY <2>1, <2>2
<1> QED BY <1>2, <1>3 DEF Apart

\* A drain leaves the slots as they are.
LEMMA SlotsDrain ==
  ASSUME Typed, Slots, NEW c \in Callers, NEW w \in Workers, DrainRow(c, w)
  PROVE  Slots'
<1>1. \A d \in Callers, v \in Workers :
        /\ Holding(d, v)' <=> Holding(d, v)
        /\ Holding(d, v) => Stage(d, v)' = Stage(d, v) /\ call'[d] = call[d]
  BY DrainKeeps DEF Holding, Alone
<1>2. active_jobs' = active_jobs /\ running' = running
  BY DrainKeeps
<1>3. ASSUME NEW d \in Callers, NEW v \in Workers PROVE SlotOk(d, v)'
  <2>1. SlotOk(d, v)
    BY DEF Slots
  <2> QED BY <1>1, <1>2, <2>1 DEF SlotOk
<1>4. \A v \in Workers : (\A d \in Callers : ~Holding(d, v)') =>
        running'[v] = active_jobs'[v]
  BY <1>1, <1>2 DEF Slots
<1> QED BY <1>3, <1>4 DEF Slots

LEMMA SlotsAssign ==
  ASSUME Typed, Slots, NEW c \in Callers, NEW w \in Workers, Solo(c, w),
         AssignRow(c, w)
  PROVE  Slots'
<1>0. Fits(Stage(c, w), call[c].job, active_jobs[w], running[w])
  BY SlotHere
<1>1. ASSUME NEW j \in queue, pc[c] = "idle", running[w] = None,
             Passes(c, w, "check_draining",
               [worker |-> w, job |-> j, kind |-> "assign"], queue \ {j})
      PROVE  Slots'
  <2> DEFINE rec == [worker |-> w, job |-> j, kind |-> "assign"]
  <2>0. rec.worker = w
    OBVIOUS
  <2> HIDE DEF rec
  <2>1. Effect(c, w, "check_draining", rec, active_jobs[w], running[w],
               Cached(c, w), queue \ {j})
    BY <1>1 DEF Passes, rec
  <2>2. Fits("check_draining", rec.job, active_jobs[w], running[w])
    BY <1>0, <1>1, <2>0, <2>1, EffectAt DEF Fits, Draining, Checking
  <2> QED BY <2>0, <2>1, <2>2, SlotsFrame
<1>2. ASSUME pc[c] \in Checking,
             Passes(c, w, "idle", NoCall, queue \cup {call[c].job})
      PROVE  Slots'
  <2>1. Effect(c, w, "idle", NoCall, active_jobs[w], running[w],
               Cached(c, w), queue \cup {call[c].job})
    BY <1>2 DEF Passes
  <2>2. Fits("idle", NoCall.job, active_jobs[w], running[w])
    BY <1>0, <1>2, <2>1, EffectAt DEF Fits, Draining, Checking
  <2> QED BY <2>1, <2>2, SlotsFrame
<1>3. ASSUME pc[c] \in Checking, NEW label \in Checking \cup {"hset"}, NEW l,
             Effect(c, w, label, call[c], active_jobs[w], running[w], l, queue)
      PROVE  Slots'
  <2>1. call[c].worker = w
    BY <1>3 DEF Effect, Checking
  <2>2. Fits(label, call[c].job, active_jobs[w], running[w])
    BY <1>0, <1>3, <2>1, EffectAt DEF Fits, Draining, Checking
  <2> QED BY <1>3, <2>1, <2>2, SlotsFrame
<1>4. ASSUME pc[c] = "hset",
             Effect(c, w, "incr", call[c], call[c].job, running[w],
                    Cached(c, w), queue)
      PROVE  Slots'
  <2>1. call[c].worker = w
    BY <1>4 DEF Effect
  <2>2. Fits("incr", call[c].job, call[c].job, running[w])
    BY <1>0, <1>4, <2>1, EffectAt DEF Fits, Draining, Checking
  <2> QED BY <1>4, <2>1, <2>2, SlotsFrame
<1>5. ASSUME pc[c] = "incr",
             Effect(c, w, "idle", NoCall, active_jobs[w], call[c].job,
                    Cached(c, w), queue)
      PROVE  Slots'
  <2>1. Fits("idle", NoCall.job, active_jobs[w], call[c].job)
    BY <1>0, <1>5, EffectAt DEF Fits, Draining, Checking
  <2> QED BY <1>5, <2>1, SlotsFrame
<1> QED BY <1>1, <1>2, <1>3, <1>4, <1>5 DEF AssignRow, Passes, Checking

LEMMA SlotsRelease ==
  ASSUME Typed, Slots, NEW c \in Callers, NEW w \in Workers, Solo(c, w),
         Fresh(c, w), ReleaseRow(c, w)
  PROVE  Slots'
<1>0. Fits(Stage(c, w), call[c].job, active_jobs[w], running[w])
  BY SlotHere
<1>1. ASSUME NEW job \in Jobs, NEW kind \in {"checkpoint", "dead_letter"},
             pc[c] = "idle", NEW label \in {"hdel", "insert"}, NEW x, NEW l,
             Effect(c, w, label, [worker |-> w, job |-> job, kind |-> kind],
                    active_jobs[w], x, l, queue),
             label = "hdel" => x = Dropped(w, job),
             label = "insert" => x = running[w]
      PROVE  Slots'
  <2> DEFINE rec == [worker |-> w, job |-> job, kind |-> kind]
  <2>0. rec.worker = w /\ rec.job = job
    OBVIOUS
  <2> HIDE DEF rec
  <2>1. Effect(c, w, label, rec, active_jobs[w], x, l, queue)
    BY <1>1 DEF rec
  <2>2. running[w] = job
    BY <1>1, <2>0, <2>1 DEF Fresh, Effect
  <2>3. active_jobs[w] = job
    BY <1>0, <1>1, <2>0, <2>1, <2>2, EffectAt DEF Fits
  <2>4. Fits(label, rec.job, active_jobs[w], x)
    BY <1>1, <2>0, <2>2, <2>3 DEF Fits, Draining, Checking, Dropped
  <2> QED BY <2>0, <2>1, <2>4, SlotsFrame
<1>2. ASSUME pc[c] = "insert",
             Effect(c, w, "hdel", call[c], active_jobs[w],
                    Dropped(w, call[c].job), None, queue)
      PROVE  Slots'
  <2>1. call[c].worker = w
    BY <1>2 DEF Effect
  <2>2. Fits("hdel", call[c].job, active_jobs[w], Dropped(w, call[c].job))
    BY <1>0, <1>2, <2>1, EffectAt DEF Fits, Draining, Checking, Dropped
  <2> QED BY <1>2, <2>1, <2>2, SlotsFrame
<1>3. ASSUME pc[c] = "hdel",
             Effect(c, w, "decr", call[c], None, running[w], Cached(c, w), queue)
      PROVE  Slots'
  <2>1. call[c].worker = w
    BY <1>3 DEF Effect
  <2>2. Fits("decr", call[c].job, None, running[w])
    BY <1>0, <1>3, <2>1, EffectAt DEF Fits, Draining, Checking
  <2> QED BY <1>3, <2>1, <2>2, SlotsFrame
<1>4. ASSUME pc[c] \in {"decr", "del_lease", "srem"},
             NEW label \in {"del_lease", "srem"},
             Passes(c, w, label, call[c], queue)
      PROVE  Slots'
  <2>1. Effect(c, w, label, call[c], active_jobs[w], running[w],
               Cached(c, w), queue)
    BY <1>4 DEF Passes
  <2>2. call[c].worker = w
    BY <1>4, <2>1 DEF Effect
  <2>3. Fits(label, call[c].job, active_jobs[w], running[w])
    BY <1>0, <1>4, <2>1, <2>2, EffectAt DEF Fits, Draining, Checking
  <2> QED BY <2>1, <2>2, <2>3, SlotsFrame
<1>5. ASSUME pc[c] \in {"del_lease", "srem"},
             NEW q, Passes(c, w, "idle", NoCall, q)
      PROVE  Slots'
  <2>1. Effect(c, w, "idle", NoCall, active_jobs[w], running[w],
               Cached(c, w), q)
    BY <1>5 DEF Passes
  <2>2. Fits("idle", NoCall.job, active_jobs[w], running[w])
    BY <1>0, <1>5, <2>1, EffectAt DEF Fits, Draining, Checking
  <2> QED BY <2>1, <2>2, SlotsFrame
<1> QED BY <1>1, <1>2, <1>3, <1>4, <1>5 DEF ReleaseRow
-----------------------------------------------------------------------------
(* As long as no outsider is counted, a thread works for its own worker and *)
(* its replica's cache is right about it.                                   *)

CacheOk(c, w) ==
  /\ Stage(c, w) \in {"idle"} \cup Draining => Cached(c, w) = active_jobs[w]
  /\ Stage(c, w) \in {"hset", "incr", "insert"} => Cached(c, w) = call[c].job
  /\ Stage(c, w) \in Checking \cup Cleaning => Cached(c, w) = None

Caches ==
  outside = 0 =>
    \A c \in Callers : /\ pc[c] # "idle" => call[c].worker \in Assigns[c]
                       /\ \A w \in Assigns[c] : CacheOk(c, w)

\* A release that begins takes the job its worker executes: the cache is
\* right, or the history would record the slot as crossed.
LEMMA FreshRelease ==
  ASSUME Typed, Slots, Caches, RecordPast, ~crossed', outside' \in Nat,
         NEW c \in Callers, NEW w \in Workers, Solo(c, w), ReleaseRow(c, w)
  PROVE  Fresh(c, w)
<1> SUFFICES ASSUME pc[c] = "idle", pc'[c] \in {"hdel", "insert"}
             PROVE  call'[c].job = running[w]
  BY DEF Fresh
<1>1. PICK job, kind, label, x, l :
        /\ job = ActiveJob(ReplicaOf[c], w)
        /\ Effect(c, w, label, [worker |-> w, job |-> job, kind |-> kind],
                  active_jobs[w], x, l, queue)
  BY DEF ReleaseRow
<1>2. call'[c] = [worker |-> w, job |-> job, kind |-> kind] /\ Own(c, w)
  BY <1>1 DEF Effect
<1>3. call'[c].worker = w /\ call'[c].job = job
  BY <1>2
<1>4. CASE outside' = 0
  <2>1. CacheOk(c, w) /\ Stage(c, w) = "idle"
    BY <1>2, <1>4 DEF Own, Caches, Stage
  <2>2. running[w] = active_jobs[w]
    BY <2>1, SlotHere DEF Fits
  <2> QED BY <1>1, <1>3, <2>1, <2>2 DEF CacheOk, ActiveJob, Cached
<1>5. CASE outside' > 0
  BY <1>3, <1>5 DEF RecordPast
<1> QED BY <1>4, <1>5

\* A step of the worker's own thread.
LEMMA CachesFrame ==
  ASSUME Typed, Caches, NEW c \in Callers, NEW w \in Workers,
         NEW label, NEW rec, NEW a, NEW x, NEW l, NEW q,
         Effect(c, w, label, rec, a, x, l, q), label # "idle" => rec.worker = w,
         outside' = 0 =>
           /\ label \in {"idle"} \cup Draining => l = a
           /\ label \in {"hset", "incr", "insert"} => l = rec.job
           /\ label \in Checking \cup Cleaning => l = None
  PROVE  Caches'
<1> SUFFICES ASSUME outside' = 0, NEW d \in Callers
             PROVE  /\ pc'[d] # "idle" => call'[d].worker \in Assigns[d]
                    /\ \A v \in Assigns[d] : CacheOk(d, v)'
  BY DEF Caches
<1>0. outside = 0 /\ w \in Assigns[c] /\ Assigns[d] \subseteq Workers
  BY WorkerAssumption DEF Effect, Own, Caches
<1>1. /\ Stage(c, w)' = label /\ call'[c] = rec /\ pc'[c] = label
      /\ active_jobs'[w] = a /\ Cached(c, w)' = l
  BY EffectAt
<1>2. pc'[d] # "idle" => call'[d].worker \in Assigns[d]
  <2>1. CASE d = c
    BY <1>0, <1>1, <2>1
  <2>2. CASE d # c
    BY <1>0, <2>2 DEF Effect, Alone, Caches
  <2> QED BY <2>1, <2>2
<1>3. ASSUME NEW v \in Assigns[d] PROVE CacheOk(d, v)'
  <2>1. CASE v = w
    <3>1. d = c
      BY <1>0, <2>1, OneThreadPerWorker
    <3> QED BY <1>1, <2>1, <3>1 DEF CacheOk
  <2>2. CASE v # w
    <3>1. CacheOk(d, v) /\ v \in Workers
      BY <1>0 DEF Caches
    <3>2. /\ Stage(d, v)' = Stage(d, v)
          /\ Stage(d, v) # "idle" => call'[d] = call[d]
          /\ active_jobs'[v] = active_jobs[v] /\ Cached(d, v)' = Cached(d, v)
      BY <2>2, <3>1, EffectElsewhere
    <3> QED BY <3>1, <3>2 DEF CacheOk
  <2> QED BY <2>1, <2>2
<1> QED BY <1>2, <1>3

LEMMA CachesAssign ==
  ASSUME Typed, Slots, Caches, NEW c \in Callers, NEW w \in Workers,
         Solo(c, w), AssignRow(c, w)
  PROVE  Caches'
<1>0. Fits(Stage(c, w), call[c].job, active_jobs[w], running[w])
  BY SlotHere
<1>1. ASSUME Own(c, w), pc[c] = "idle" \/ call[c].worker = w, outside' = 0
      PROVE  CacheOk(c, w)
  BY <1>1 DEF Own, Caches
<1>2. ASSUME NEW j \in queue, pc[c] = "idle", running[w] = None,
             Passes(c, w, "check_draining",
               [worker |-> w, job |-> j, kind |-> "assign"], queue \ {j})
      PROVE  Caches'
  <2> DEFINE rec == [worker |-> w, job |-> j, kind |-> "assign"]
  <2>0. rec.worker = w
    OBVIOUS
  <2> HIDE DEF rec
  <2>1. Effect(c, w, "check_draining", rec, active_jobs[w], running[w],
               Cached(c, w), queue \ {j})
    BY <1>2 DEF Passes, rec
  <2>2. Stage(c, w) = "idle" /\ active_jobs[w] = None
    BY <1>0, <1>2, <2>0, <2>1, EffectAt DEF Fits
  <2>3. outside' = 0 => Cached(c, w) = None
    BY <1>1, <2>1, <2>2 DEF CacheOk, Effect
  <2> QED BY <2>0, <2>1, <2>3, CachesFrame DEF Checking, Cleaning, Draining
<1>3. ASSUME pc[c] \in Checking,
             Passes(c, w, "idle", NoCall, queue \cup {call[c].job})
      PROVE  Caches'
  <2>1. Effect(c, w, "idle", NoCall, active_jobs[w], running[w],
               Cached(c, w), queue \cup {call[c].job})
    BY <1>3 DEF Passes
  <2>2. Stage(c, w) \in Checking /\ active_jobs[w] = None
    BY <1>0, <1>3, <2>1, EffectAt DEF Fits, Checking
  <2>3. outside' = 0 => Cached(c, w) = None
    BY <1>1, <2>1, <2>2 DEF CacheOk, Effect
  <2> QED BY <2>1, <2>2, <2>3, CachesFrame DEF Checking, Cleaning
<1>4. ASSUME pc[c] \in Checking, NEW label \in Checking,
             Passes(c, w, label, call[c], queue)
      PROVE  Caches'
  <2>1. Effect(c, w, label, call[c], active_jobs[w], running[w],
               Cached(c, w), queue)
    BY <1>4 DEF Passes
  <2>2. call[c].worker = w /\ Stage(c, w) \in Checking
    BY <1>4, <2>1 DEF Effect, Stage, Checking
  <2>3. outside' = 0 => Cached(c, w) = None
    BY <1>1, <2>1, <2>2 DEF CacheOk, Effect
  <2>4. label \notin {"idle", "hset", "incr", "insert"} \cup Draining
    BY <1>4 DEF Checking, Draining
  <2> QED BY <2>1, <2>2, <2>3, <2>4, CachesFrame
<1>5. ASSUME pc[c] = "check_limit",
             Effect(c, w, "hset", call[c], active_jobs[w], running[w],
                    call[c].job, queue)
      PROVE  Caches'
  <2>1. call[c].worker = w
    BY <1>5 DEF Effect
  <2> QED BY <1>5, <2>1, CachesFrame DEF Checking, Cleaning, Draining
<1>6. ASSUME pc[c] = "hset",
             Effect(c, w, "incr", call[c], call[c].job, running[w],
                    Cached(c, w), queue)
      PROVE  Caches'
  <2>1. call[c].worker = w /\ Stage(c, w) = "hset"
    BY <1>6 DEF Effect, Stage
  <2>2. outside' = 0 => Cached(c, w) = call[c].job
    BY <1>1, <1>6, <2>1 DEF CacheOk, Effect
  <2> QED BY <1>6, <2>1, <2>2, CachesFrame DEF Checking, Cleaning, Draining
<1>7. ASSUME pc[c] = "incr",
             Effect(c, w, "idle", NoCall, active_jobs[w], call[c].job,
                    Cached(c, w), queue)
      PROVE  Caches'
  <2>1. Stage(c, w) = "incr" /\ active_jobs[w] = call[c].job
    BY <1>0, <1>7, EffectAt DEF Fits
  <2>2. outside' = 0 => Cached(c, w) = active_jobs[w]
    BY <1>1, <1>7, <2>1 DEF CacheOk, Effect
  <2> QED BY <1>7, <2>2, CachesFrame DEF Checking, Cleaning
<1> QED BY <1>2, <1>3, <1>4, <1>5, <1>6, <1>7 DEF AssignRow

LEMMA CachesDrain ==
  ASSUME Typed, Caches, NEW c \in Callers, NEW w \in Workers, DrainRow(c, w)
  PROVE  Caches'
<1>1. ASSUME Own(c, w), pc[c] = "idle" \/ call[c].worker = w, outside' = 0
      PROVE  CacheOk(c, w)
  BY <1>1 DEF Own, Caches
<1>2. ASSUME pc[c] = "idle", NEW rec \in CallRecord, rec.worker = w,
             Effect(c, w, "set_lease", rec, active_jobs[w], running[w],
                    ActiveJob(ReplicaOf[c], w), queue)
      PROVE  Caches'
  <2>1. Stage(c, w) = "idle"
    BY <1>2 DEF Stage
  <2>2. outside' = 0 => ActiveJob(ReplicaOf[c], w) = active_jobs[w]
    BY <1>1, <1>2, <2>1 DEF CacheOk, Cached, ActiveJob, Effect
  <2> QED BY <1>2, <2>2, CachesFrame DEF Checking, Cleaning
<1>3. ASSUME pc[c] \in Draining, NEW label \in {"sadd", "idle"},
             NEW rec \in {call[c], NoCall}, label = "sadd" => rec = call[c],
             Passes(c, w, label, rec, queue)
      PROVE  Caches'
  <2>1. Effect(c, w, label, rec, active_jobs[w], running[w], Cached(c, w),
               queue)
    BY <1>3 DEF Passes
  <2>2. call[c].worker = w /\ Stage(c, w) \in Draining
    BY <1>3, <2>1 DEF Effect, Stage, Draining
  <2>3. outside' = 0 => Cached(c, w) = active_jobs[w]
    BY <1>1, <2>1, <2>2 DEF CacheOk, Effect
  <2>4. label \notin {"hset", "incr", "insert"} \cup Checking \cup Cleaning
    BY <1>3 DEF Checking, Cleaning
  <2> QED BY <1>3, <2>1, <2>2, <2>3, <2>4, CachesFrame
<1> QED BY <1>2, <1>3 DEF DrainRow

LEMMA CachesRelease ==
  ASSUME Typed, Slots, Caches, NEW c \in Callers, NEW w \in Workers,
         Solo(c, w), ReleaseRow(c, w)
  PROVE  Caches'
<1>0. Fits(Stage(c, w), call[c].job, active_jobs[w], running[w])
  BY SlotHere
<1>1. ASSUME Own(c, w), pc[c] = "idle" \/ call[c].worker = w, outside' = 0
      PROVE  CacheOk(c, w)
  BY <1>1 DEF Own, Caches
<1>2. ASSUME NEW job \in Jobs, NEW kind \in {"checkpoint", "dead_letter"},
             NEW label \in {"hdel", "insert"}, NEW x, NEW l,
             Effect(c, w, label, [worker |-> w, job |-> job, kind |-> kind],
                    active_jobs[w], x, l, queue),
             label = "hdel" => l = None, label = "insert" => l = job
      PROVE  Caches'
  <2> DEFINE rec == [worker |-> w, job |-> job, kind |-> kind]
  <2>0. rec.worker = w /\ rec.job = job
    OBVIOUS
  <2> HIDE DEF rec
  <2>1. Effect(c, w, label, rec, active_jobs[w], x, l, queue)
    BY <1>2 DEF rec
  <2> QED BY <1>2, <2>0, <2>1, CachesFrame DEF Checking, Cleaning, Draining
<1>3. ASSUME pc[c] = "insert", NEW a, NEW x,
             Effect(c, w, "hdel", call[c], a, x, None, queue)
      PROVE  Caches'
  <2>1. call[c].worker = w
    BY <1>3 DEF Effect
  <2> QED BY <1>3, <2>1, CachesFrame DEF Checking, Cleaning, Draining
<1>4. ASSUME pc[c] \in Cleaning, NEW label \in {"decr", "del_lease", "srem"},
             NEW a,
             Effect(c, w, label, call[c], a, running[w], Cached(c, w), queue)
      PROVE  Caches'
  <2>1. call[c].worker = w /\ Stage(c, w) \in Cleaning
    BY <1>4 DEF Effect, Stage, Cleaning
  <2>2. outside' = 0 => Cached(c, w) = None
    BY <1>1, <1>4, <2>1 DEF CacheOk, Effect
  <2> QED BY <1>4, <2>1, <2>2, CachesFrame DEF Draining
<1>5. ASSUME pc[c] \in {"del_lease", "srem"},
             NEW q, Passes(c, w, "idle", NoCall, q)
      PROVE  Caches'
  <2>1. Effect(c, w, "idle", NoCall, active_jobs[w], running[w],
               Cached(c, w), q)
    BY <1>5 DEF Passes
  <2>2. Stage(c, w) \in {"del_lease", "srem"} /\ active_jobs[w] = None
    BY <1>0, <1>5, <2>1, EffectAt DEF Fits
  <2>3. outside' = 0 => Cached(c, w) = None
    BY <1>1, <2>1, <2>2 DEF CacheOk, Effect, Cleaning
  <2> QED BY <2>1, <2>2, <2>3, CachesFrame DEF Checking, Cleaning
<1> QED BY <1>2, <1>3, <1>4, <1>5 DEF ReleaseRow, Passes, Cleaning
-----------------------------------------------------------------------------
(* Without faults, a job is in one place: the queue, one call, one worker;  *)
(* only while its dead letter is written is it in a call and on the call's  *)
(* worker at once.                                                          *)

Exclusive ==
  /\ \A v, w \in Workers :
       v # w /\ running[v] # None => running[w] # running[v]
  /\ \A w \in Workers : running[w] \notin queue
  /\ \A c \in Callers : call[c].job \notin queue
  /\ \A c, d \in Callers :
       c # d /\ call[c].job # None => call[d].job # call[c].job
  /\ \A c \in Callers, w \in Workers :
       call[c].job # None /\ call[c].job = running[w] =>
         pc[c] = "insert" /\ call[c].worker = w

LEMMA ExclusiveFrame ==
  ASSUME Typed, Calls, Exclusive, NEW c \in Callers, NEW w \in Workers,
         Solo(c, w),
         NEW label, NEW rec, NEW a, NEW x, NEW l, NEW q,
         Effect(c, w, label, rec, a, x, l, q),
         q \subseteq queue \cup {call[c].job}, None \notin q,
         rec.job \in {None, call[c].job, running[w]} \cup queue,
         x \in {None, running[w], call[c].job},
         rec.job \notin q, x \notin q,
         rec.job # None /\ rec.job = x =>
           label = "insert" /\ rec.worker = w
  PROVE  Exclusive'
<1>0. /\ running' = [running EXCEPT ![w] = x]
      /\ running \in [Workers -> Jobs \cup {None}]
      /\ queue' = q /\ pc'[c] = label /\ call'[c] = rec
      /\ \A d \in Callers \ {c} : pc'[d] = pc[d] /\ call'[d] = call[d]
      /\ pc[c] = "idle" \/ call[c].worker = w
  BY DEF Effect, Alone, Typed, TypeOK
<1>1. /\ running'[w] = x
      /\ \A v \in Workers : v # w => running'[v] = running[v]
  BY <1>0
<1>2. ASSUME NEW v \in Workers, v # w, running[v] # None
      PROVE  running[v] \notin {call[c].job, running[w]} \cup queue
  <2>1. running[v] # call[c].job
    BY <1>0, <1>2 DEF Exclusive, Calls, CallOk, NoCall
  <2> QED BY <1>2, <2>1 DEF Exclusive
<1>3. ASSUME NEW d \in Callers, d # c, call[d].job # None
      PROVE  call[d].job \notin {call[c].job, running[w]} \cup queue
  <2>1. call[d].job # running[w]
    <3> SUFFICES ASSUME call[d].job = running[w] PROVE FALSE
      OBVIOUS
    <3>1. pc[d] = "insert" /\ call[d].worker = w
      BY <1>3 DEF Exclusive
    <3> QED BY <1>3, <3>1 DEF Solo, Holding, Stage, Draining
  <2> QED BY <1>3, <2>1 DEF Exclusive
<1>4. \A u, v \in Workers :
        u # v /\ running'[u] # None => running'[v] # running'[u]
  BY <1>1, <1>2 DEF Exclusive
<1>5. \A v \in Workers : running'[v] \notin q
  BY <1>1, <1>2
<1>6. \A d \in Callers : call'[d].job \notin q
  BY <1>0, <1>3
<1>7. \A d, e \in Callers :
        d # e /\ call'[d].job # None => call'[e].job # call'[d].job
  <2>1. \A d \in Callers \ {c} : call'[d].job # None => call'[d].job # rec.job
    BY <1>0, <1>3
  <2> QED BY <1>0, <2>1 DEF Exclusive
<1>8. ASSUME NEW d \in Callers, NEW v \in Workers,
             call'[d].job # None, call'[d].job = running'[v]
      PROVE  pc'[d] = "insert" /\ call'[d].worker = v
  <2>1. CASE d = c /\ v = w
    BY <1>0, <1>1, <1>8, <2>1
  <2>2. CASE d = c /\ v # w
    <3>1. running'[v] = running[v] /\ running[v] # None /\ rec.job = running[v]
      BY <1>0, <1>1, <1>8, <2>2
    <3> QED BY <1>2, <2>2, <3>1
  <2>3. CASE d # c /\ v = w
    <3>1. call'[d].job = call[d].job /\ running'[v] = x
      BY <1>0, <1>1, <2>3
    <3> QED BY <1>3, <1>8, <2>3, <3>1
  <2>4. CASE d # c /\ v # w
    <3>1. /\ call'[d] = call[d] /\ pc'[d] = pc[d]
          /\ running'[v] = running[v]
      BY <1>0, <1>1, <2>4
    <3> QED BY <1>8, <3>1 DEF Exclusive
  <2> QED BY <2>1, <2>2, <2>3, <2>4
<1> QED BY <1>0, <1>4, <1>5, <1>6, <1>7, <1>8 DEF Exclusive

LEMMA ExclusiveDrain ==
  ASSUME Typed, Exclusive, NEW c \in Callers, NEW w \in Workers, DrainRow(c, w)
  PROVE  Exclusive'
<1>1. /\ running' = running /\ queue' = queue /\ None \notin queue
      /\ call'[c].job \in {None, call[c].job} /\ pc[c] # "insert"
      /\ \A d \in Callers \ {c} : pc'[d] = pc[d] /\ call'[d] = call[d]
  BY DrainKeeps, WorkerAssumption DEF Alone, Draining, Typed, TypeOK
<1>2. \A d \in Callers : call'[d].job \in {None, call[d].job}
  BY <1>1
<1>3. \A d \in Callers : call'[d].job \notin queue
  BY <1>1, <1>2 DEF Exclusive
<1>4. \A d, e \in Callers :
        d # e /\ call'[d].job # None => call'[e].job # call'[d].job
  BY <1>2 DEF Exclusive
<1>5. ASSUME NEW d \in Callers, NEW v \in Workers,
             call'[d].job # None, call'[d].job = running[v]
      PROVE  pc'[d] = "insert" /\ call'[d].worker = v
  <2>1. pc[d] = "insert" /\ call[d].worker = v
    BY <1>2, <1>5 DEF Exclusive
  <2> QED BY <1>1, <2>1
<1> QED BY <1>1, <1>3, <1>4, <1>5 DEF Exclusive

LEMMA ExclusiveRow ==
  ASSUME Typed, Calls, Slots, Exclusive, NEW c \in Callers, NEW w \in Workers,
         Solo(c, w), Fresh(c, w), AssignRow(c, w) \/ ReleaseRow(c, w)
  PROVE  Exclusive'
<1>0. /\ queue \subseteq Jobs /\ None \notin queue
      /\ running[w] \notin queue /\ call[c].job \notin queue
      /\ pc[c] = "idle" => Stage(c, w) = "idle" /\ call[c] = NoCall
      /\ Fits(Stage(c, w), call[c].job, active_jobs[w], running[w])
      /\ pc[c] \notin Draining \cup {"idle"} => call[c].job \in Jobs
      /\ None \notin Jobs /\ NoCall.job = None
  BY CallTypes, SlotHere, WorkerAssumption
  DEF Typed, TypeOK, Exclusive, Stage, Calls, CallOk, NoCall
<1>1. CASE AssignRow(c, w)
  <2>1. ASSUME NEW j \in queue, pc[c] = "idle", running[w] = None,
               Passes(c, w, "check_draining",
                 [worker |-> w, job |-> j, kind |-> "assign"], queue \ {j})
        PROVE  Exclusive'
    <3> DEFINE rec == [worker |-> w, job |-> j, kind |-> "assign"]
    <3>0. rec.worker = w /\ rec.job = j
      OBVIOUS
    <3> HIDE DEF rec
    <3>1. Effect(c, w, "check_draining", rec, active_jobs[w], running[w],
                 Cached(c, w), queue \ {j})
      BY <2>1 DEF Passes, rec
    <3> QED BY <1>0, <2>1, <3>0, <3>1, ExclusiveFrame
  <2>2. ASSUME pc[c] \in Checking,
               Passes(c, w, "idle", NoCall, queue \cup {call[c].job})
        PROVE  Exclusive'
    <3>1. Effect(c, w, "idle", NoCall, active_jobs[w], running[w],
                 Cached(c, w), queue \cup {call[c].job})
      BY <2>2 DEF Passes
    <3>2. running[w] = None /\ call[c].job \in Jobs
      BY <1>0, <2>2, <3>1 DEF Effect, Stage, Fits, Checking, Draining
    <3> QED BY <1>0, <3>1, <3>2, ExclusiveFrame
  <2>3. ASSUME pc[c] \in Checking, NEW label \in Checking,
               Passes(c, w, label, call[c], queue)
        PROVE  Exclusive'
    <3>1. Effect(c, w, label, call[c], active_jobs[w], running[w],
                 Cached(c, w), queue)
      BY <2>3 DEF Passes
    <3>2. running[w] = None
      BY <1>0, <2>3, <3>1 DEF Effect, Stage, Fits, Checking
    <3> QED BY <1>0, <3>1, <3>2, ExclusiveFrame
  <2>4. ASSUME pc[c] = "check_limit",
               Effect(c, w, "hset", call[c], active_jobs[w], running[w],
                      call[c].job, queue)
        PROVE  Exclusive'
    <3>1. running[w] = None
      BY <1>0, <2>4 DEF Effect, Stage, Fits, Checking
    <3> QED BY <1>0, <2>4, <3>1, ExclusiveFrame
  <2>5. ASSUME pc[c] = "hset",
               Effect(c, w, "incr", call[c], call[c].job, running[w],
                      Cached(c, w), queue)
        PROVE  Exclusive'
    <3>1. running[w] = None
      BY <1>0, <2>5 DEF Effect, Stage, Fits
    <3> QED BY <1>0, <2>5, <3>1, ExclusiveFrame
  <2>6. ASSUME pc[c] = "incr",
               Effect(c, w, "idle", NoCall, active_jobs[w], call[c].job,
                      Cached(c, w), queue)
        PROVE  Exclusive'
    BY <1>0, <2>6, ExclusiveFrame
  <2> QED BY <1>1, <2>1, <2>2, <2>3, <2>4, <2>5, <2>6 DEF AssignRow
<1>2. CASE ReleaseRow(c, w)
  <2>1. ASSUME NEW job \in Jobs, NEW kind \in {"checkpoint", "dead_letter"},
               pc[c] = "idle",
               NEW label, NEW x, NEW l,
               Effect(c, w, label,
                    [worker |-> w, job |-> job, kind |-> kind],
                    active_jobs[w], x, l, queue),
               \/ label = "hdel" /\ x = Dropped(w, job)
               \/ label = "insert" /\ x = running[w]
        PROVE  Exclusive'
    <3> DEFINE rec == [worker |-> w, job |-> job, kind |-> kind]
    <3>0. rec.worker = w /\ rec.job = job
      OBVIOUS
    <3> HIDE DEF rec
    <3>1. Effect(c, w, label, rec, active_jobs[w], x, l, queue)
      BY <2>1 DEF rec
    <3>2. running[w] = job
      BY <2>1, <3>0, <3>1 DEF Fresh, Effect
    <3>3. \/ label = "hdel" /\ x = None
          \/ label = "insert" /\ x = job
      BY <2>1, <3>2 DEF Dropped
    <3>4. job \notin queue /\ x \notin queue /\ x \in {None, running[w]}
      BY <1>0, <3>2, <3>3
    <3>5. rec.job # None /\ rec.job = x => label = "insert"
      BY <3>0, <3>3
    <3> QED BY <1>0, <3>0, <3>1, <3>2, <3>4, <3>5, ExclusiveFrame
  <2>3. ASSUME pc[c] = "insert",
               Effect(c, w, "hdel", call[c], active_jobs[w],
                      Dropped(w, call[c].job), None, queue)
        PROVE  Exclusive'
    <3>1. running[w] = call[c].job /\ Dropped(w, call[c].job) = None
      BY <1>0, <2>3 DEF Effect, Stage, Fits, Dropped
    <3> QED BY <1>0, <2>3, <3>1, ExclusiveFrame
  <2>4. ASSUME pc[c] \in Cleaning, NEW label, NEW a,
               Effect(c, w, label, call[c], a, running[w], Cached(c, w), queue)
        PROVE  Exclusive'
    <3>1. running[w] = None
      BY <1>0, <2>4 DEF Effect, Stage, Fits, Cleaning
    <3> QED BY <1>0, <2>4, <3>1, ExclusiveFrame
  <2>5. ASSUME pc[c] \in Cleaning, NEW q \in {queue, queue \cup {call[c].job}},
               Passes(c, w, "idle", NoCall, q)
        PROVE  Exclusive'
    <3>1. Effect(c, w, "idle", NoCall, active_jobs[w], running[w],
                 Cached(c, w), q)
      BY <2>5 DEF Passes
    <3>2. running[w] = None /\ call[c].job \in Jobs
      BY <1>0, <2>5, <3>1 DEF Effect, Stage, Fits, Cleaning, Draining
    <3> QED BY <1>0, <2>5, <3>1, <3>2, ExclusiveFrame
  <2> QED BY <1>2, <2>1, <2>3, <2>4, <2>5 DEF ReleaseRow, Passes, Cleaning
<1> QED BY <1>1, <1>2
-----------------------------------------------------------------------------
(* Without faults, a tenant's counter is the number of workers whose job    *)
(* has been counted and not yet discounted.                                 *)

CountsFor(w, t) ==
  \/ \E c \in Callers : Stage(c, w) = "decr" /\ tenant_id[call[c].job] = t
  \/ /\ \A c \in Callers : Stage(c, w) # "incr"
     /\ active_jobs[w] # None /\ tenant_id[active_jobs[w]] = t

Counted(t) == {w \in Workers : CountsFor(w, t)}

Counters == \A t \in Tenants : in_flight[t] = Cardinality(Counted(t))

LEMMA CountedIsFinite ==
  \A t : IsFiniteSet(Counted(t)) /\ Cardinality(Counted(t)) \in Nat
  BY FS_Subset, FS_CardinalityType, WorkerAssumption DEF Counted

\* What the thread that has the worker to itself counts there.
CountedJob(c, w) ==
  CASE Stage(c, w) = "incr" -> None
    [] Stage(c, w) = "decr" -> call[c].job
    [] OTHER -> active_jobs[w]

\* A step for worker w changes no other worker's place in the count.
LEMMA CountedFrame ==
  ASSUME Typed, Typed', Slots, Slots', NEW c \in Callers, NEW w \in Workers,
         Solo(c, w),
         NEW label, NEW rec, NEW a, NEW x, NEW l, NEW q,
         Effect(c, w, label, rec, a, x, l, q), NEW t
  PROVE  /\ w \in Counted(t) <=>
              CountedJob(c, w) # None /\ tenant_id[CountedJob(c, w)] = t
         /\ w \in Counted(t)' <=>
              CountedJob(c, w)' # None /\ tenant_id[CountedJob(c, w)'] = t
         /\ \A v \in Workers : v # w => (v \in Counted(t)' <=> v \in Counted(t))
<1>0. /\ \A d \in Callers, v \in Workers : d # c \/ v # w =>
           /\ Stage(d, v)' = Stage(d, v)
           /\ Stage(d, v) # "idle" => call'[d] = call[d]
      /\ \A v \in Workers : v # w => active_jobs'[v] = active_jobs[v]
  BY EffectElsewhere
<1>1. \A d \in Callers \ {c} : /\ Stage(d, w) \notin {"incr", "decr"}
                                /\ Stage(d, w)' \notin {"incr", "decr"}
  BY <1>0 DEF Solo, Holding, Draining
<1>2. ASSUME NEW v \in Workers, v # w
      PROVE  v \in Counted(t)' <=> v \in Counted(t)
  <2>1. \A d \in Callers :
          /\ Stage(d, v)' = Stage(d, v)
          /\ Stage(d, v) = "decr" => call'[d] = call[d]
    BY <1>0, <1>2
  <2>2. active_jobs'[v] = active_jobs[v]
    BY <1>0, <1>2
  <2> QED BY <2>1, <2>2 DEF Counted, CountsFor
<1>3. Stage(c, w) = "decr" => active_jobs[w] = None /\ call[c].job # None
  BY DEF Slots, SlotOk, Holding, Fits, Draining, Stage, Typed, TypeOK
<1>4. ASSUME Stage(c, w)' = "decr"
      PROVE  active_jobs'[w] = None /\ call'[c].job # None
  <2>1. SlotOk(c, w)'
    BY DEF Slots
  <2>2. pc'[c] = "decr"
    BY <1>4 DEF Stage
  <2>3. call'[c].job # None
    BY <2>2 DEF Typed, TypeOK
  <2>4. Fits("decr", call'[c].job, active_jobs'[w], running'[w])
    BY <1>4, <2>1 DEF SlotOk, Holding, Draining
  <2> QED BY <2>3, <2>4 DEF Fits
<1>5. w \in Counted(t) <=>
        CountedJob(c, w) # None /\ tenant_id[CountedJob(c, w)] = t
  BY <1>1, <1>3 DEF Counted, CountsFor, CountedJob
<1>6. w \in Counted(t)' <=>
        CountedJob(c, w)' # None /\ tenant_id[CountedJob(c, w)'] = t
  BY <1>1, <1>4 DEF Counted, CountsFor, CountedJob
<1> QED BY <1>2, <1>5, <1>6

LEMMA CountedDrain ==
  ASSUME Typed, Counters, NEW c \in Callers, NEW w \in Workers, DrainRow(c, w)
  PROVE  Counters'
<1>1. /\ active_jobs' = active_jobs /\ in_flight' = in_flight
      /\ \A d \in Callers, v \in Workers :
           /\ Stage(d, v)' = "incr" <=> Stage(d, v) = "incr"
           /\ Stage(d, v)' = "decr" <=> Stage(d, v) = "decr"
           /\ Stage(d, v) = "decr" => call'[d] = call[d]
  BY DrainKeeps DEF Draining, Alone
<1>2. \A t : Counted(t)' = Counted(t)
  BY <1>1 DEF Counted, CountsFor
<1> QED BY <1>1, <1>2 DEF Counters

\* How a row moves the count: not at all, or by the slot it takes or frees.
Uncounted(c, w) ==
  in_flight' = in_flight /\ CountedJob(c, w)' = CountedJob(c, w)

Taken(c, w) ==
  /\ pc[c] = "incr"
  /\ in_flight' = [in_flight EXCEPT ![tenant_id[call[c].job]] = @ + 1]
  /\ CountedJob(c, w) = None /\ CountedJob(c, w)' = call[c].job

Freed(c, w) ==
  /\ pc[c] = "decr"
  /\ in_flight' = [in_flight EXCEPT ![tenant_id[call[c].job]] = @ - 1]
  /\ CountedJob(c, w) = call[c].job /\ CountedJob(c, w)' = None

LEMMA CountKept ==
  ASSUME Typed, NEW c \in Callers, NEW w \in Workers,
         NEW label, NEW rec, NEW x, NEW l, NEW q,
         Effect(c, w, label, rec, active_jobs[w], x, l, q),
         label # "idle" => rec.worker = w,
         label \notin {"incr", "decr"}, pc[c] \notin {"incr", "decr"},
         in_flight' = in_flight
  PROVE  Uncounted(c, w)
<1>1. Stage(c, w)' = label /\ active_jobs'[w] = active_jobs[w]
  BY EffectAt
<1>2. Stage(c, w) \notin {"incr", "decr"}
  BY DEF Stage
<1> QED BY <1>1, <1>2 DEF Uncounted, CountedJob

LEMMA CountRow ==
  ASSUME Typed, Slots, NEW c \in Callers, NEW w \in Workers,
         Solo(c, w), AssignRow(c, w) \/ ReleaseRow(c, w)
  PROVE  /\ Uncounted(c, w) \/ Taken(c, w) \/ Freed(c, w)
         /\ \E label, rec, a, x, l, q : Effect(c, w, label, rec, a, x, l, q)
<1>0. Fits(Stage(c, w), call[c].job, active_jobs[w], running[w])
  BY SlotHere
<1>1. CASE AssignRow(c, w)
  <2>1. ASSUME NEW j \in queue, pc[c] = "idle", in_flight' = in_flight,
               Passes(c, w, "check_draining",
                 [worker |-> w, job |-> j, kind |-> "assign"], queue \ {j})
        PROVE  Uncounted(c, w)
    <3> DEFINE rec == [worker |-> w, job |-> j, kind |-> "assign"]
               q == queue \ {j}
    <3>0. rec.worker = w
      OBVIOUS
    <3>1. Effect(c, w, "check_draining", rec, active_jobs[w], running[w],
                 Cached(c, w), q)
      BY <2>1 DEF Passes
    <3> HIDE DEF rec, q
    <3>2. "check_draining" \notin {"incr", "decr"} /\ pc[c] \notin {"incr", "decr"}
      BY <2>1
    <3> QED BY <2>1, <3>0, <3>1, <3>2, CountKept
  <2>2. ASSUME pc[c] \in Checking, in_flight' = in_flight, NEW q,
               Passes(c, w, "idle", NoCall, q)
        PROVE  Uncounted(c, w)
    BY <2>2, CountKept DEF Passes, Checking
  <2>3. ASSUME pc[c] \in Checking, in_flight' = in_flight,
               NEW label \in Checking \cup {"hset"}, NEW l,
               Effect(c, w, label, call[c], active_jobs[w], running[w], l,
                      queue)
        PROVE  Uncounted(c, w)
    <3>1. call[c].worker = w
      BY <2>3 DEF Effect, Checking
    <3> QED BY <2>3, <3>1, CountKept DEF Checking
  <2>4. ASSUME pc[c] = "hset", in_flight' = in_flight,
               Effect(c, w, "incr", call[c], call[c].job, running[w],
                      Cached(c, w), queue)
        PROVE  Uncounted(c, w)
    <3>1. call[c].worker = w
      BY <2>4 DEF Effect
    <3>2. Stage(c, w) = "hset" /\ active_jobs[w] = None
      BY <1>0, <2>4, <3>1 DEF Stage, Fits
    <3>3. Stage(c, w)' = "incr"
      BY <2>4, <3>1, EffectAt
    <3>4. CountedJob(c, w) = None
      BY <3>2 DEF CountedJob
    <3>5. CountedJob(c, w)' = None
      BY <3>3 DEF CountedJob
    <3> QED BY <2>4, <3>4, <3>5 DEF Uncounted
  <2>5. ASSUME pc[c] = "incr",
               in_flight' = [in_flight EXCEPT ![tenant_id[call[c].job]] = @ + 1],
               Effect(c, w, "idle", NoCall, active_jobs[w], call[c].job,
                      Cached(c, w), queue)
        PROVE  Taken(c, w)
    <3>1. call[c].worker = w
      BY <2>5 DEF Effect
    <3>2. Stage(c, w) = "incr" /\ active_jobs[w] = call[c].job
      BY <1>0, <2>5, <3>1 DEF Stage, Fits
    <3>3. Stage(c, w)' = "idle" /\ active_jobs'[w] = active_jobs[w]
      BY <2>5, EffectAt
    <3>4. CountedJob(c, w) = None
      BY <3>2 DEF CountedJob
    <3>5. CountedJob(c, w)' = call[c].job
      BY <3>2, <3>3 DEF CountedJob
    <3> QED BY <2>5, <3>4, <3>5 DEF Taken
  <2>6. \E label, rec, a, x, l, q : Effect(c, w, label, rec, a, x, l, q)
    BY <1>1 DEF AssignRow, Passes
  <2>7. Uncounted(c, w) \/ Taken(c, w)
    BY <1>1, <2>1, <2>2, <2>3, <2>4, <2>5 DEF AssignRow, Passes, Checking
  <2> QED BY <2>6, <2>7
<1>2. CASE ReleaseRow(c, w)
  <2>1. ASSUME NEW job \in Jobs, NEW kind \in {"checkpoint", "dead_letter"},
               pc[c] = "idle", in_flight' = in_flight,
               NEW label \in {"hdel", "insert"}, NEW x, NEW l,
               Effect(c, w, label,
                    [worker |-> w, job |-> job, kind |-> kind],
                    active_jobs[w], x, l, queue)
        PROVE  Uncounted(c, w)
    <3> DEFINE rec == [worker |-> w, job |-> job, kind |-> kind]
    <3>0. rec.worker = w
      OBVIOUS
    <3> HIDE DEF rec
    <3>1. Effect(c, w, label, rec, active_jobs[w], x, l, queue)
      BY <2>1 DEF rec
    <3> QED BY <2>1, <3>0, <3>1, CountKept
  <2>2. ASSUME pc[c] = "insert", in_flight' = in_flight,
               Effect(c, w, "hdel", call[c], active_jobs[w],
                      Dropped(w, call[c].job), None, queue)
        PROVE  Uncounted(c, w)
    <3> DEFINE x == Dropped(w, call[c].job)
    <3>1. call[c].worker = w
      BY <2>2 DEF Effect
    <3>2. Effect(c, w, "hdel", call[c], active_jobs[w], x, None, queue)
      BY <2>2
    <3> HIDE DEF x
    <3> QED BY <2>2, <3>1, <3>2, CountKept
  <2>3. ASSUME pc[c] = "hdel", in_flight' = in_flight,
               Effect(c, w, "decr", call[c], None, running[w], Cached(c, w),
                      queue)
        PROVE  Uncounted(c, w)
    <3>1. call[c].worker = w /\ call'[c] = call[c]
      BY <2>3 DEF Effect
    <3>2. Stage(c, w) = "hdel" /\ active_jobs[w] = call[c].job
      BY <1>0, <2>3, <3>1 DEF Stage, Fits
    <3>3. Stage(c, w)' = "decr"
      BY <2>3, <3>1, EffectAt
    <3>4. CountedJob(c, w) = call[c].job
      BY <3>2 DEF CountedJob
    <3>5. CountedJob(c, w)' = call[c].job
      BY <3>1, <3>3 DEF CountedJob
    <3> QED BY <2>3, <3>4, <3>5 DEF Uncounted
  <2>4. ASSUME pc[c] = "decr",
               in_flight' = [in_flight EXCEPT ![tenant_id[call[c].job]] = @ - 1],
               Passes(c, w, "del_lease", call[c], queue)
        PROVE  Freed(c, w)
    <3>0. Effect(c, w, "del_lease", call[c], active_jobs[w], running[w],
                 Cached(c, w), queue)
      BY <2>4 DEF Passes
    <3>1. call[c].worker = w
      BY <2>4, <3>0 DEF Effect
    <3>2. Stage(c, w) = "decr" /\ active_jobs[w] = None
      BY <1>0, <2>4, <3>1 DEF Stage, Fits
    <3>3. Stage(c, w)' = "del_lease" /\ active_jobs'[w] = active_jobs[w]
      BY <3>0, <3>1, EffectAt
    <3>4. CountedJob(c, w) = call[c].job
      BY <3>2 DEF CountedJob
    <3>5. CountedJob(c, w)' = None
      BY <3>2, <3>3 DEF CountedJob
    <3> QED BY <2>4, <3>4, <3>5 DEF Freed
  <2>5. ASSUME pc[c] \in {"del_lease", "srem"}, in_flight' = in_flight,
               NEW q, NEW label \in {"idle", "srem"},
               NEW rec \in {NoCall, call[c]},
               label = "srem" => rec = call[c],
               Passes(c, w, label, rec, q)
        PROVE  Uncounted(c, w)
    <3>1. Effect(c, w, label, rec, active_jobs[w], running[w],
                 Cached(c, w), q)
      BY <2>5 DEF Passes
    <3>2. call[c].worker = w
      BY <2>5, <3>1 DEF Effect
    <3> QED BY <2>5, <3>1, <3>2, CountKept
  <2>6. \E label, rec, a, x, l, q : Effect(c, w, label, rec, a, x, l, q)
    BY <1>2 DEF ReleaseRow, Passes
  <2>7. Uncounted(c, w) \/ Freed(c, w)
    BY <1>2, <2>1, <2>2, <2>3, <2>4, <2>5 DEF ReleaseRow
  <2> QED BY <2>6, <2>7
<1> QED BY <1>1, <1>2

LEMMA CountersRow ==
  ASSUME Typed, Typed', Slots, Slots', Counters,
         NEW c \in Callers, NEW w \in Workers,
         Solo(c, w), AssignRow(c, w) \/ ReleaseRow(c, w)
  PROVE  Counters'
<1> SUFFICES ASSUME NEW t \in Tenants
             PROVE  in_flight'[t] = Cardinality(Counted(t)')
  BY DEF Counters
<1> DEFINE Here == CountedJob(c, w) # None /\ tenant_id[CountedJob(c, w)] = t
           After == /\ CountedJob(c, w)' # None
                    /\ tenant_id[CountedJob(c, w)'] = t
<1>1. /\ w \in Counted(t) <=> Here
      /\ w \in Counted(t)' <=> After
      /\ \A v \in Workers : v # w => (v \in Counted(t)' <=> v \in Counted(t))
  <2>1. PICK label, rec, a, x, l, q : Effect(c, w, label, rec, a, x, l, q)
    BY CountRow
  <2> QED BY <2>1, CountedFrame
<1>2. /\ in_flight[t] = Cardinality(Counted(t)) /\ in_flight[t] \in Int
      /\ IsFiniteSet(Counted(t)) /\ Cardinality(Counted(t)) \in Nat
      /\ Counted(t) \subseteq Workers /\ Counted(t)' \subseteq Workers
      /\ in_flight \in [Tenants -> Int]
  BY CountedIsFinite DEF Counters, Counted, Typed, TypeOK
<1>3. CASE Uncounted(c, w)
  <2>1. After <=> Here
    BY <1>3 DEF Uncounted
  <2>2. Counted(t)' = Counted(t)
    BY <1>1, <1>2, <2>1
  <2> QED BY <1>2, <1>3, <2>2 DEF Uncounted
<1>4. CASE Taken(c, w)
  <2>0. call[c].job \in Jobs /\ tenant_id[call[c].job] \in Tenants
    BY <1>4, CallTypes, DispatcherAssumption DEF Taken, Draining
  <2>1. ~Here
    BY <1>4 DEF Taken
  <2>2. After <=> tenant_id[call[c].job] = t
    <3>1. CountedJob(c, w)' = call[c].job /\ call[c].job # None
      BY <1>4, <2>0, WorkerAssumption DEF Taken
    <3> QED BY <3>1
  <2>3. CASE tenant_id[call[c].job] = t
    <3>1. Counted(t)' = Counted(t) \cup {w} /\ w \notin Counted(t)
      BY <1>1, <1>2, <2>1, <2>2, <2>3
    <3>2. Cardinality(Counted(t)') = Cardinality(Counted(t)) + 1
      BY <1>2, <3>1, FS_AddElement
    <3>3. in_flight'[t] = in_flight[t] + 1
      BY <1>2, <1>4, <2>0, <2>3 DEF Taken
    <3> QED BY <1>2, <3>2, <3>3
  <2>4. CASE tenant_id[call[c].job] # t
    <3>1. Counted(t)' = Counted(t)
      BY SMTT(30), <1>1, <1>2, <2>1, <2>2, <2>4
    <3>2. in_flight'[t] = in_flight[t]
      BY <1>2, <1>4, <2>0, <2>4 DEF Taken
    <3> QED BY <1>2, <3>1, <3>2
  <2> QED BY <2>3, <2>4
<1>5. CASE Freed(c, w)
  <2>0. call[c].job \in Jobs /\ tenant_id[call[c].job] \in Tenants
    BY <1>5, CallTypes, DispatcherAssumption DEF Freed, Draining
  <2>1. ~After
    BY <1>5 DEF Freed
  <2>2. Here <=> tenant_id[call[c].job] = t
    <3>1. CountedJob(c, w) = call[c].job /\ call[c].job # None
      BY <1>5, <2>0, WorkerAssumption DEF Freed
    <3> QED BY <3>1
  <2>3. CASE tenant_id[call[c].job] = t
    <3>1. Counted(t)' = Counted(t) \ {w} /\ w \in Counted(t)
      BY <1>1, <1>2, <2>1, <2>2, <2>3
    <3>2. Cardinality(Counted(t)') = Cardinality(Counted(t)) - 1
      BY <1>2, <3>1, FS_RemoveElement
    <3>3. in_flight'[t] = in_flight[t] - 1
      BY <1>2, <1>5, <2>0, <2>3 DEF Freed
    <3> QED BY <1>2, <3>2, <3>3
  <2>4. CASE tenant_id[call[c].job] # t
    <3>1. Counted(t)' = Counted(t)
      BY <1>1, <1>2, <2>1, <2>2, <2>4
    <3>2. in_flight'[t] = in_flight[t]
      BY <1>2, <1>5, <2>0, <2>4 DEF Freed
    <3> QED BY <1>2, <3>1, <3>2
  <2> QED BY <2>3, <2>4
<1> QED BY <1>3, <1>4, <1>5, CountRow
-----------------------------------------------------------------------------
(* The limit: with one assign call at a time, a call that has passed the    *)
(* limit check finds its slot still free when it counts it.                 *)

Single ==
  ~overlapped =>
    \A c, d \in Callers : c # d => ~(pc[c] \in Assigning /\ pc[d] \in Assigning)

Room ==
  ~overlapped =>
    /\ \A t \in Tenants : in_flight[t] <= per_tenant_concurrency
    /\ \A c \in Callers : pc[c] \in {"hset", "incr"} =>
         in_flight[tenant_id[call[c].job]] < per_tenant_concurrency

LEMMA RoomMoves ==
  ASSUME NEW c \in Callers, NEW w \in Workers,
         AssignRow(c, w) \/ DrainRow(c, w) \/ ReleaseRow(c, w)
  PROVE  /\ Alone(c)
         /\ pc'[c] = "hset" =>
              /\ pc[c] = "check_limit" /\ call'[c] = call[c]
              /\ in_flight' = in_flight
              /\ ~AtLimit(in_flight[tenant_id[call[c].job]])
         /\ pc'[c] = "incr" =>
              /\ pc[c] = "hset" /\ call'[c] = call[c]
              /\ in_flight' = in_flight
<1>1. CASE AssignRow(c, w)
  BY <1>1 DEF AssignRow, Passes, Effect, Checking
<1>2. CASE DrainRow(c, w)
  BY <1>2 DEF DrainRow, Passes, Effect
<1>3. CASE ReleaseRow(c, w)
  BY <1>3 DEF ReleaseRow, Passes, Effect
<1> QED BY <1>1, <1>2, <1>3

LEMMA RoomRow ==
  ASSUME Typed, Slots, Single, Room, RecordPast,
         NEW c \in Callers, NEW w \in Workers,
         \/ DrainRow(c, w)
         \/ Solo(c, w) /\ (AssignRow(c, w) \/ ReleaseRow(c, w))
  PROVE  Room'
<1> SUFFICES ASSUME ~overlapped'
             PROVE  /\ \A t \in Tenants : in_flight'[t] <= per_tenant_concurrency
                    /\ \A d \in Callers : pc'[d] \in {"hset", "incr"} =>
                         in_flight'[tenant_id[call'[d].job]]
                           < per_tenant_concurrency
  BY DEF Room
<1>0. /\ ~overlapped /\ per_tenant_concurrency \in Nat
      /\ in_flight \in [Tenants -> Int]
      /\ \A d \in Callers : pc[d] \in {"hset", "incr"} \cup {"check_limit"} =>
           tenant_id[call[d].job] \in Tenants
  <2>1. \A d \in Callers : pc[d] \in {"hset", "incr"} \cup {"check_limit"} =>
          call[d].job \in Jobs
    BY CallTypes DEF Draining
  <2> QED BY <2>1, DispatcherAssumption DEF RecordPast, Typed, TypeOK
<1>1. /\ \A t \in Tenants : in_flight[t] <= per_tenant_concurrency
      /\ \A d \in Callers : pc[d] \in {"hset", "incr"} =>
           in_flight[tenant_id[call[d].job]] < per_tenant_concurrency
  BY <1>0 DEF Room
<1>2. \/ in_flight' = in_flight
      \/ /\ pc[c] = "incr"
         /\ in_flight' = [in_flight EXCEPT ![tenant_id[call[c].job]] = @ + 1]
      \/ in_flight' = [in_flight EXCEPT ![tenant_id[call[c].job]] = @ - 1]
  BY CountRow, DrainKeeps DEF Uncounted, Taken, Freed
<1>3. \A t \in Tenants : in_flight'[t] <= per_tenant_concurrency
  BY <1>0, <1>1, <1>2
<1>4. ASSUME NEW d \in Callers, pc'[d] \in {"hset", "incr"}
      PROVE  in_flight'[tenant_id[call'[d].job]] < per_tenant_concurrency
  <2>1. CASE d = c
    <3>1. /\ call'[d] = call[d] /\ in_flight' = in_flight
          /\ in_flight[tenant_id[call[d].job]] < per_tenant_concurrency
      BY <1>0, <1>1, <1>4, <2>1, RoomMoves DEF AtLimit
    <3> QED BY <3>1
  <2>2. CASE d # c
    <3>1. pc'[d] = pc[d] /\ call'[d] = call[d]
      BY <2>2, RoomMoves DEF Alone
    <3>2. pc[c] # "incr"
      BY <1>0, <1>4, <2>2, <3>1 DEF Single, Assigning
    <3>3. /\ in_flight[tenant_id[call[d].job]] < per_tenant_concurrency
          /\ tenant_id[call[d].job] \in Tenants
      BY <1>0, <1>1, <1>4, <3>1
    <3>4. in_flight'[tenant_id[call[d].job]]
            <= in_flight[tenant_id[call[d].job]]
      BY <1>0, <1>2, <3>2, <3>3
    <3>5. in_flight'[tenant_id[call[d].job]] \in Int
      BY <1>0, <1>2, <3>3
    <3> QED BY <1>0, <3>1, <3>3, <3>4, <3>5
  <2> QED BY <2>1, <2>2
<1> QED BY <1>3, <1>4

-----------------------------------------------------------------------------
(* The inductive invariant.                                                *)

FaultFree ==
  faults = 0 /\ ~crossed => Slots /\ Caches /\ Exclusive /\ Counters /\ Room

Inv == Typed /\ Calls /\ Kept /\ Single /\ Apart /\ FaultFree

LEMMA SingleStep == Typed /\ Single /\ [Next]_vars => Single'
<1> SUFFICES ASSUME Typed, Single, [Next]_vars PROVE Single'
  OBVIOUS
<1>1. ASSUME NEW c \in Callers, CallerStep(c) PROVE Single'
  BY <1>1 DEF CallerStep, RecordPast, Single
<1>2. ASSUME NEW r \in Replicas, Crash(r) PROVE Single'
  <2>1. /\ overlapped' = overlapped
        /\ \A c \in Callers : pc'[c] \in {"idle", pc[c]}
    BY <1>2, CrashEffect DEF past
  <2> QED BY <2>1 DEF Single, Assigning
<1>3. ASSUME NEW w \in Workers, LeaseExpires(w) PROVE Single'
  BY <1>3 DEF LeaseExpires, Single, past
<1>4. CASE UNCHANGED vars
  BY <1>4 DEF vars, Single, past
<1> QED BY <1>1, <1>2, <1>3, <1>4 DEF Next

LEMMA ApartStep == Typed /\ Apart /\ [Next]_vars => Apart'
<1> SUFFICES ASSUME Typed, Apart, [Next]_vars PROVE Apart'
  OBVIOUS
<1>1. ASSUME NEW c \in Callers, CallerStep(c) PROVE Apart'
  BY <1>1 DEF CallerStep, RecordPast, Apart
<1>2. ASSUME NEW r \in Replicas, Crash(r) PROVE Apart'
  <2>1. /\ crossed' = crossed
        /\ \A c \in Callers : call'[c] \in {NoCall, call[c]}
    BY <1>2, CrashEffect DEF past
  <2>2. \A c \in Callers, w \in Workers : Holds(c, w)' => Holds(c, w)
    BY <2>1 DEF Holds, NoCall
  <2> QED BY <2>1, <2>2 DEF Apart
<1>3. ASSUME NEW w \in Workers, LeaseExpires(w) PROVE Apart'
  BY <1>3 DEF LeaseExpires, Apart, Holds, past
<1>4. CASE UNCHANGED vars
  BY <1>4 DEF vars, Apart, Holds, past
<1> QED BY <1>1, <1>2, <1>3, <1>4 DEF Next

LEMMA CrossedStays ==
  ASSUME [Next]_vars, ~crossed' PROVE ~crossed
<1>1. ASSUME NEW c \in Callers, CallerStep(c) PROVE ~crossed
  BY <1>1 DEF CallerStep, RecordPast
<1> QED BY <1>1 DEF Next, LeaseExpires, Crash, vars, past

\* Faults are counted, never forgotten.
LEMMA FaultsGrow ==
  ASSUME Typed, [Next]_vars, faults' = 0 PROVE faults = 0
<1>1. NoFault \/ Fault
  <2>1. ASSUME NEW c \in Callers, CallerStep(c) PROVE NoFault \/ Fault
    <3>1. ASSUME \/ \E w \in Workers, now \in Times : SelectNextJob(c, w, now)
                 \/ CheckDraining(c) \/ CheckLease(c) \/ CheckLimit(c)
                 \/ AssignHset(c) \/ AssignIncr(c)
          PROVE  NoFault \/ Fault
      BY <3>1 DEF SelectNextJob, CheckDraining, CheckLease, CheckLimit,
         AssignHset, AssignIncr
    <3>2. ASSUME \/ \E w \in Workers : BeginDrain(c, w)
                 \/ SetLease(c) \/ AddDraining(c)
          PROVE  NoFault \/ Fault
      BY <3>2 DEF BeginDrain, SetLease, AddDraining
    <3>3. ASSUME \/ \E w \in Workers, kind \in {"checkpoint", "dead_letter"} :
                      Release(c, w, kind)
                 \/ InsertDeadLetter(c)
                 \/ Hdel(c) \/ Decr(c) \/ DeleteLease(c) \/ RemoveDraining(c)
          PROVE  NoFault \/ Fault
      BY <3>3 DEF Release, InsertDeadLetter, Hdel, Decr, DeleteLease,
         RemoveDraining, NoFault
    <3> QED BY <2>1, <3>1, <3>2, <3>3 DEF CallerStep, ControllerStep
  <2> QED BY <2>1 DEF Next, LeaseExpires, Crash, NoFault, vars
<1>2. faults \in Nat
  BY WorkerAssumption DEF Typed, TypeOK
<1> QED BY <1>1, <1>2 DEF NoFault, Fault

LEMMA SameSlots ==
  ASSUME Slots, Caches, Exclusive, Counters, Room,
         UNCHANGED <<active_jobs, in_flight, local_active_jobs, pc, call,
                     running, queue, overlapped, outside>>
  PROVE  Slots' /\ Caches' /\ Exclusive' /\ Counters' /\ Room'
<1>1. \A c, w : Stage(c, w)' = Stage(c, w) /\ Cached(c, w)' = Cached(c, w)
  BY DEF Stage, Cached
<1>2. Slots' /\ Caches'
  <2>1. \A c, w : SlotOk(c, w)' <=> SlotOk(c, w)
    BY <1>1 DEF SlotOk, Holding
  <2>2. \A c, w : CacheOk(c, w)' <=> CacheOk(c, w)
    BY <1>1 DEF CacheOk
  <2> QED BY <1>1, <2>1, <2>2 DEF Slots, Caches, Holding
<1>3. Exclusive' /\ Room'
  BY DEF Exclusive, Room
<1>4. \A t : Counted(t)' = Counted(t)
  BY <1>1 DEF Counted, CountsFor
<1> QED BY <1>2, <1>3, <1>4 DEF Counters

\* What a row of an assign, a drain or a release preserves.
LEMMA RowStep ==
  ASSUME Typed, Calls, Typed', Calls', Apart, Apart', ~crossed, ~crossed',
         Single, Slots, Caches, Exclusive, Counters, Room, RecordPast,
         NEW c \in Callers, NEW w \in Workers,
         AssignRow(c, w) \/ DrainRow(c, w) \/ ReleaseRow(c, w)
  PROVE  Slots' /\ Caches' /\ Exclusive' /\ Counters' /\ Room'
<1>1. CASE DrainRow(c, w)
  <2>1. Slots' /\ Caches'
    BY <1>1, SlotsDrain, CachesDrain
  <2>2. Exclusive'
    BY <1>1, ExclusiveDrain
  <2>4. Counters'
    BY <1>1, CountedDrain
  <2>3. Room'
    <3>1. \/ DrainRow(c, w)
          \/ Solo(c, w) /\ (AssignRow(c, w) \/ ReleaseRow(c, w))
      BY <1>1
    <3> QED BY <3>1, RoomRow
  <2> QED BY <2>1, <2>2, <2>3, <2>4
<1>2. ASSUME AssignRow(c, w) \/ ReleaseRow(c, w), Fresh(c, w), Slots', Caches'
      PROVE  Exclusive' /\ Counters' /\ Room'
  <2>1. Solo(c, w)
    BY <1>2, SoloRow
  <2> QED BY <1>2, <2>1, ExclusiveRow, CountersRow, RoomRow
<1>3. CASE AssignRow(c, w)
  <2>1. Solo(c, w)
    BY <1>3, SoloRow
  <2>2. Fresh(c, w)
    BY <1>3 DEF Fresh, AssignRow, Passes, Effect, Checking
  <2> QED BY <1>2, <1>3, <2>1, <2>2, SlotsAssign, CachesAssign
<1>4. CASE ReleaseRow(c, w)
  <2>1. Solo(c, w)
    BY <1>4, SoloRow
  <2>2. outside' \in Nat
    BY WorkerAssumption DEF Typed, TypeOK
  <2>3. Fresh(c, w)
    BY <1>4, <2>1, <2>2, FreshRelease
  <2> QED BY <1>2, <1>4, <2>1, <2>3, SlotsRelease, CachesRelease
<1> QED BY <1>1, <1>3, <1>4

LEMMA FaultFreeStep == Inv /\ [Next]_vars => FaultFree'
<1> SUFFICES ASSUME Inv, [Next]_vars, faults' = 0, ~crossed'
             PROVE  Slots' /\ Caches' /\ Exclusive' /\ Counters' /\ Room'
  BY DEF FaultFree
<1>0. /\ Typed /\ Calls /\ Single /\ Apart /\ ~crossed
      /\ Slots /\ Caches /\ Exclusive /\ Counters /\ Room
  BY FaultsGrow, CrossedStays DEF Inv, FaultFree
<1>1. ASSUME NEW c \in Callers, CallerStep(c)
      PROVE  Slots' /\ Caches' /\ Exclusive' /\ Counters' /\ Room'
  <2>1. PICK w \in Workers : AssignRow(c, w) \/ DrainRow(c, w) \/ ReleaseRow(c, w)
    BY <1>0, <1>1, AssignRows, DrainRows, ReleaseRows
    DEF CallerStep, ControllerStep
  <2>2. RecordPast
    BY <1>1 DEF CallerStep
  <2>3. Typed' /\ Calls' /\ Apart'
    BY <1>0, TypeStep, CallsStep, ApartStep
  <2> QED BY <1>0, <2>1, <2>2, <2>3, RowStep
<1>2. ASSUME NEW r \in Replicas, Crash(r) PROVE FALSE
  BY <1>0, <1>2, FaultCounts DEF Crash
<1>3. ASSUME NEW w \in Workers, LeaseExpires(w)
      PROVE  Slots' /\ Caches' /\ Exclusive' /\ Counters' /\ Room'
  BY <1>0, <1>3, SameSlots DEF LeaseExpires, local, world, past
<1>4. CASE UNCHANGED vars
  BY <1>0, <1>4, SameSlots DEF vars, redis, local, world, past
<1> QED BY <1>1, <1>2, <1>3, <1>4 DEF Next

LEMMA InitInv == Init => Inv
<1> SUFFICES ASSUME Init PROVE Inv
  OBVIOUS
<1>1. Typed /\ Calls /\ Kept
  BY InitTyped, InitCalls DEF Init, Kept, InHand
<1>2. Single /\ Apart
  BY DEF Init, Single, Assigning, Apart, Holds, NoCall
<1>3. /\ \A c \in Callers : pc[c] = "idle" /\ call[c] = NoCall
      /\ \A w \in Workers : active_jobs[w] = None /\ running[w] = None
      /\ queue = Jobs /\ None \notin Jobs
      /\ \A c \in Callers : Assigns[c] \subseteq Workers
                            /\ ReplicaOf[c] \in Replicas
  BY WorkerAssumption DEF Init
<1>4. \A c \in Callers, w \in Workers : Stage(c, w) = "idle"
  BY <1>3 DEF Stage
<1>5. \A c \in Callers, w \in Workers : Cached(c, w) = None
  BY <1>3 DEF Init, Cached
<1>6. Slots
  BY <1>3, <1>4 DEF Slots, SlotOk, Holding
<1>7. Exclusive
  BY <1>3 DEF Exclusive, NoCall
<1>8. Counters
  <2> SUFFICES ASSUME NEW t \in Tenants
               PROVE  in_flight[t] = Cardinality(Counted(t))
    BY DEF Counters
  <2>2. Counted(t) = {}
    BY <1>3, <1>4 DEF Counted, CountsFor
  <2> QED BY <2>2, FS_EmptySet DEF Init
<1>9. Room
  BY DispatcherAssumption DEF Init, Room
<1>10. Caches
  BY <1>3, <1>4, <1>5 DEF Caches, CacheOk, Checking, Cleaning
<1> QED BY <1>1, <1>2, <1>6, <1>7, <1>8, <1>9, <1>10 DEF Inv, FaultFree

LEMMA InvHolds == Spec => []Inv
<1>1. Inv /\ [Next]_vars => Inv'
  BY TypeStep, CallsStep, KeptStep, SingleStep, ApartStep, FaultFreeStep
  DEF Inv
<1> QED BY <1>1, InitInv, PTL DEF Spec

\* For every fleet: calls know what they work on, and while no command has
\* failed and no slot was crossed, the counters of a quiet system are the
\* entries of the hash, whichever threads drained and released the workers.
THEOREM SlotsAreCounted == Spec => []SlotInvariant
<1>1. ASSUME Inv, faults = 0, ~crossed, \A c \in Callers : pc[c] = "idle",
             NEW t \in Tenants
      PROVE  in_flight[t] =
               Cardinality({w \in Workers :
                              /\ active_jobs[w] # None
                              /\ tenant_id[active_jobs[w]] = t})
  <2>0. Counters
    BY <1>1 DEF Inv, FaultFree
  <2>1. \A c \in Callers, w \in Workers : Stage(c, w) = "idle"
    BY <1>1 DEF Stage
  <2>2. Counted(t) = {w \in Workers : /\ active_jobs[w] # None
                                      /\ tenant_id[active_jobs[w]] = t}
    BY <2>1 DEF Counted, CountsFor
  <2> QED BY <2>0, <2>2 DEF Counters
<1>2. Inv => SlotInvariant
  BY <1>1 DEF Inv, Typed, SlotInvariant, CountersMatchWhenQuiet
<1> QED BY <1>2, InvHolds, PTL

\* A worker that executes a job is counted for the job's tenant.
LEMMA RunningIsCounted ==
  ASSUME Typed, Calls, Apart, ~crossed, Slots, NEW t, NEW w \in RunningOf(t)
  PROVE  w \in Counted(t)
<1>1. w \in Workers /\ running[w] # None /\ tenant_id[running[w]] = t
  BY DEF RunningOf
<1>2. CASE \A c \in Callers : ~Holding(c, w)
  <2>1. \A c \in Callers : Stage(c, w) # "incr"
    BY <1>2 DEF Holding, Draining
  <2>2. active_jobs[w] = running[w]
    BY <1>1, <1>2 DEF Slots
  <2> QED BY <1>1, <2>1, <2>2 DEF Counted, CountsFor
<1>3. ASSUME NEW c \in Callers, Holding(c, w) PROVE w \in Counted(t)
  <2>1. Fits(Stage(c, w), call[c].job, active_jobs[w], running[w])
    BY <1>1, <1>3 DEF Slots, SlotOk
  <2>2. Stage(c, w) = "insert" /\ active_jobs[w] = running[w]
    BY <1>1, <1>3, <2>1, CallTypes
    DEF Fits, Holding, Stage, Labels, Checking, Draining
  <2>3. ASSUME NEW d \in Callers, Stage(d, w) = "incr" PROVE FALSE
    <3>1. Holding(d, w) /\ d # c
      BY <2>2, <2>3 DEF Holding, Draining
    <3>2. Holds(c, w) /\ Holds(d, w)
      BY <1>1, <1>3, <3>1, HoldsIsHolding
    <3> QED BY <1>1, <3>1, <3>2 DEF Apart
  <2> QED BY <1>1, <2>2, <2>3 DEF Counted, CountsFor
<1> QED BY <1>2, <1>3

\* For every fleet and every limit: as long as no two assign calls overlap,
\* no command fails and no slot is crossed, no tenant occupies more workers
\* than its limit, however releases and drains by any thread interleave.
THEOREM LimitIsKept == Spec => []LimitHolds
<1>1. ASSUME Inv, faults = 0, ~crossed, ~overlapped, NEW t \in Tenants
      PROVE  Cardinality(RunningOf(t)) <= per_tenant_concurrency
  <2>0. Slots /\ Counters /\ Room
    BY <1>1 DEF Inv, FaultFree
  <2>2. RunningOf(t) \subseteq Counted(t)
    BY <1>1, <2>0, RunningIsCounted DEF Inv
  <2>3. Cardinality(RunningOf(t)) <= Cardinality(Counted(t))
    BY <2>2, CountedIsFinite, FS_Subset
  <2>4. in_flight[t] = Cardinality(Counted(t))
    BY <2>0 DEF Counters
  <2>5. in_flight[t] <= per_tenant_concurrency
    BY <1>1, <2>0 DEF Room
  <2>6. /\ Cardinality(RunningOf(t)) \in Nat /\ Cardinality(Counted(t)) \in Nat
        /\ per_tenant_concurrency \in Nat
    BY <2>2, CountedIsFinite, FS_Subset, FS_CardinalityType,
       DispatcherAssumption
  <2> QED BY <2>3, <2>4, <2>5, <2>6
<1>2. Inv => LimitHolds
  BY <1>1 DEF LimitHolds, LimitAlwaysHolds
<1> QED BY <1>2, InvHolds, PTL

\* For every fleet: until a command fails or a slot is crossed, a job is
\* executed by one worker only, and a queued job by none.
THEOREM JobsRunOnce == Spec => []JobRunsOnce
<1>1. Inv => JobRunsOnce
  BY DEF Inv, FaultFree, Exclusive, JobRunsOnce
<1> QED BY <1>1, InvHolds, PTL
=============================================================================
