------------------------- MODULE WebhookGuardProofs -------------------------
(* Proofs about WebhookGuard, for every set of replicas, deliveries and    *)
(* limits.                                                                 *)
EXTENDS WebhookGuard, TLAPS, FiniteSetTheorems, FunctionTheorems,
        SequenceTheorems

-----------------------------------------------------------------------------
(* Types *)

LEMMA WindowType ==
  ASSUME NEW times \in Seq(Nat), NEW now \in Nat
  PROVE  InWindow(times, now) \in Seq(Nat)
<1> DEFINE expired == {i \in DOMAIN times : ~ (now - times[i] < RateWindow)}
<1>1. IsFiniteSet(DOMAIN times)
  BY FS_Interval
<1>2. Cardinality(expired) \in Nat
  BY <1>1, FS_Subset, FS_CardinalityType
<1>3. \A i \in Cardinality(expired) + 1 .. Len(times) : times[i] \in Nat
  BY <1>2
<1> QED
  BY <1>2, <1>3, SubSeqProperties DEF InWindow

LEMMA DeliveryTypes ==
  ASSUME NEW d \in Deliveries
  PROVE  /\ d.event \in Events /\ d.tenant \in Tenants /\ d.addr \in Addrs
         /\ d.secret \in {"old", "new"} /\ IdempotencyKey(d) \in Keys
  BY WebhookAssumption DEF Events, Tenants, Addrs, Keys

LEMMA NewGuardType ==
  ASSUME TypeOK
  PROVE  NewGuard(secret, rotation) \in
           [secret : {"old", "new"}, previous : {"none", "hash"},
            until : Nat \cup {Never}, windows : [Addrs -> Seq(Nat)]]
  BY DEF NewGuard, TypeOK

\* A call in progress carries a delivery and the time it arrived.
LEMMA CallTypes ==
  ASSUME TypeOK, NEW r \in Replicas, call[r] # Idle
  PROVE  /\ call[r].delivery \in Deliveries /\ call[r].now \in Nat
         /\ call[r].step # "idle"
         /\ call[r].step = "remember" =>
              call[r] \in [step : {"remember"}, delivery : Deliveries, now : Nat, new : BOOLEAN]
         /\ call[r].step # "remember" =>
              call[r] \in [step : {"flood", "reject", "seen", "insert"},
                           delivery : Deliveries, now : Nat]
<1>1. call[r] \in CallType
  BY DEF TypeOK
<1>2. ASSUME call[r] \in [step : {"idle"}] PROVE FALSE
  BY <1>2 DEF Idle
<1> QED BY <1>1, <1>2 DEF CallType

LEMMA IdleStep == Idle \in CallType /\ Idle.step = "idle"
  BY DEF Idle, CallType

LEMMA RateLimitType ==
  ASSUME TypeOK, NEW r \in Replicas, call[r].step = "flood", RateLimit(r)
  PROVE  /\ guard' \in [Replicas -> [secret : {"old", "new"}, previous : {"none", "hash"},
                                     until : Nat \cup {Never}, windows : [Addrs -> Seq(Nat)]]]
         /\ call' \in [Replicas -> CallType]
         /\ \A q \in Replicas : call'[q] = IF q = r THEN call'[r] ELSE call[q]
         /\ call'[r] = Idle \/ call'[r] = [call[r] EXCEPT !.step = "seen"]
<1> DEFINE c == call[r]
           times == InWindow(guard[r].windows[c.delivery.addr], c.now)
           limited == Len(times) >= PerMinuteLimit
           new == IF limited THEN times ELSE Append(times, c.now)
<1>1. /\ c.delivery \in Deliveries /\ c.now \in Nat /\ c.delivery.addr \in Addrs
      /\ c \in [step : {"flood", "reject", "seen", "insert"},
                delivery : Deliveries, now : Nat]
  BY CallTypes, DeliveryTypes DEF Idle
<1>2. times \in Seq(Nat)
  BY <1>1, WindowType DEF TypeOK
<1>3. new \in Seq(Nat)
  BY <1>1, <1>2
<1>4. guard' = [guard EXCEPT ![r].windows[c.delivery.addr] = new]
  BY DEF RateLimit
<1>5. call' = [call EXCEPT ![r] = IF limited THEN Idle ELSE [c EXCEPT !.step = "seen"]]
  BY DEF RateLimit
<1>6. [c EXCEPT !.step = "seen"] \in CallType
  BY <1>1 DEF CallType
<1> HIDE DEF c, times, limited, new
<1>7. guard' \in [Replicas -> [secret : {"old", "new"}, previous : {"none", "hash"},
                               until : Nat \cup {Never}, windows : [Addrs -> Seq(Nat)]]]
  <2> DEFINE G == [secret : {"old", "new"}, previous : {"none", "hash"},
                   until : Nat \cup {Never}, windows : [Addrs -> Seq(Nat)]]
             w == [guard[r].windows EXCEPT ![c.delivery.addr] = new]
             g == [guard[r] EXCEPT !.windows = w]
  <2>1. guard \in [Replicas -> G] /\ guard[r] \in G
    BY DEF TypeOK
  <2>2. w \in [Addrs -> Seq(Nat)]
    BY <1>1, <1>3, <2>1
  <2>3. guard' = [guard EXCEPT ![r] = g]
    BY <1>4
  <2> HIDE DEF w
  <2>4. g \in G
    BY <2>1, <2>2
  <2> HIDE DEF g, G
  <2>5. guard' \in [Replicas -> G]
    BY <2>1, <2>3, <2>4
  <2> QED BY <2>5 DEF G
<1>8. /\ call' \in [Replicas -> CallType]
      /\ \A q \in Replicas : call'[q] = IF q = r THEN call'[r] ELSE call[q]
      /\ call'[r] = Idle \/ call'[r] = [c EXCEPT !.step = "seen"]
  BY <1>5, <1>6, IdleStep DEF TypeOK
<1> QED
  BY <1>7, <1>8 DEF c

LEMMA PassType ==
  ASSUME TypeOK, IsFiniteSet(passed), NEW c, c.delivery \in Deliveries, c.now \in Nat, Pass(c)
  PROVE  passed' \subseteq Tenants \X Nat \X Nat /\ IsFiniteSet(passed')
<1> DEFINE before == {p \in passed : p[1] = c.delivery.tenant /\ p[2] = c.now}
           new == <<c.delivery.tenant, c.now, Cardinality(before) + 1>>
<1>1. Cardinality(before) \in Nat
  BY FS_Subset, FS_CardinalityType
<1>2. new \in Tenants \X Nat \X Nat
  BY <1>1, DeliveryTypes
<1>3. passed' = {} \/ passed' = passed \cup {new}
  BY DEF Pass
<1>4. IsFiniteSet({}) /\ IsFiniteSet(passed \cup {new})
  BY FS_AddElement, FS_EmptySet
<1>5. passed \subseteq Tenants \X Nat \X Nat
  BY DEF TypeOK
<1> HIDE DEF new
<1> QED BY <1>2, <1>3, <1>4, <1>5

LEMMA FaultType == TypeOK /\ Fault => faults' \in 0 .. MaxFaults /\ faults' > 0
  BY WebhookAssumption DEF TypeOK, Fault

\* Every step keeps every table, key, window and call in its type.
LEMMA TypeStep ==
  ASSUME TypeOK, IsFiniteSet(passed), [Next]_vars
  PROVE  TypeOK' /\ IsFiniteSet(passed')
<1>1. CASE Tick
  BY <1>1, WebhookAssumption DEF Tick, TypeOK, store, redis, past
<1>2. CASE RotateSecret
  BY SMTT(30), <1>2, WebhookAssumption DEF RotateSecret, TypeOK, redis, past, HashOf
<1>3. CASE DeploySecret
  BY <1>3 DEF DeploySecret, TypeOK, redis, past
<1>4. ASSUME NEW r \in Replicas, NEW d \in Deliveries, Receive(r, d)
      PROVE  TypeOK' /\ IsFiniteSet(passed')
  <2>1. [step |-> "flood", delivery |-> d, now |-> clock] \in CallType
    BY DEF CallType, TypeOK
  <2> QED BY <1>4, <2>1 DEF Receive, TypeOK, store, redis, past
<1>5. ASSUME NEW r \in Replicas, CheckFlood(r)
      PROVE  TypeOK' /\ IsFiniteSet(passed')
  <2> DEFINE c == call[r]
             members == Recent(flood[c.delivery.tenant], c.now)
  <2>1. /\ c.step = "flood" /\ c.delivery \in Deliveries /\ c.now \in Nat
        /\ c \in [step : {"flood", "reject", "seen", "insert"},
                  delivery : Deliveries, now : Nat]
        /\ c.delivery.tenant \in Tenants
    BY <1>5, CallTypes, DeliveryTypes DEF CheckFlood, Idle
  <2>2. members \subseteq Nat \X Suffixes
    BY <2>1 DEF Recent, TypeOK
  <2>3. UNCHANGED <<clock, store, cache, news, duplicates, faults>>
    BY <1>5 DEF CheckFlood
  <2>4. CASE /\ flood' = [flood EXCEPT ![c.delivery.tenant] = members]
             /\ call' = [call EXCEPT ![r].step = "reject"]
             /\ UNCHANGED <<guard, passed, collided>>
    <3>1. call' = [call EXCEPT ![r] = [c EXCEPT !.step = "reject"]]
      BY <2>4
    <3>2. [c EXCEPT !.step = "reject"] \in CallType
      BY <2>1 DEF CallType
    <3>3. call' \in [Replicas -> CallType]
      BY <3>1, <3>2 DEF TypeOK
    <3>4. flood' \in [Tenants -> SUBSET (Nat \X Suffixes)]
      BY <2>2, <2>4 DEF TypeOK
    <3> QED BY <2>3, <2>4, <3>3, <3>4 DEF TypeOK, store
  <2>5. ASSUME NEW x \in Suffixes,
               flood' = [flood EXCEPT ![c.delivery.tenant] = members \cup {<<c.now, x>>}],
               collided' = (collided \/ <<c.now, x>> \in members),
               Pass(c), RateLimit(r)
        PROVE  TypeOK' /\ IsFiniteSet(passed')
    <3>1. flood' \in [Tenants -> SUBSET (Nat \X Suffixes)]
      BY <2>1, <2>2, <2>5 DEF TypeOK
    <3>2. passed' \subseteq Tenants \X Nat \X Nat /\ IsFiniteSet(passed')
      BY <2>1, <2>5, PassType
    <3>3. /\ guard' \in [Replicas -> [secret : {"old", "new"}, previous : {"none", "hash"},
                              until : Nat \cup {Never}, windows : [Addrs -> Seq(Nat)]]]
          /\ call' \in [Replicas -> CallType]
      BY <2>1, <2>5, RateLimitType
    <3>4. collided' \in BOOLEAN
      BY <2>5
    <3> QED BY <2>3, <3>1, <3>2, <3>3, <3>4 DEF TypeOK, store
  <2> QED BY <1>5, <2>4, <2>5 DEF CheckFlood
<1>6. ASSUME NEW r \in Replicas, FloodFailsOpen(r)
      PROVE  TypeOK' /\ IsFiniteSet(passed')
  <2>1. call[r].delivery \in Deliveries /\ call[r].now \in Nat
    BY <1>6, CallTypes DEF FloodFailsOpen, Idle
  <2>2. passed' \subseteq Tenants \X Nat \X Nat /\ IsFiniteSet(passed')
    BY <1>6, <2>1, PassType DEF FloodFailsOpen
  <2>3. /\ guard' \in [Replicas -> [secret : {"old", "new"}, previous : {"none", "hash"},
                            until : Nat \cup {Never}, windows : [Addrs -> Seq(Nat)]]]
        /\ call' \in [Replicas -> CallType]
    BY <1>6, RateLimitType DEF FloodFailsOpen
  <2>4. faults' \in 0 .. MaxFaults
    BY <1>6, FaultType DEF FloodFailsOpen
  <2> QED BY <1>6, <2>2, <2>3, <2>4 DEF FloodFailsOpen, TypeOK, store, redis
<1>7. ASSUME NEW r \in Replicas, RecordRejection(r)
      PROVE  TypeOK' /\ IsFiniteSet(passed')
  <2>1. call[r].delivery.tenant \in Tenants
    BY <1>7, CallTypes, DeliveryTypes DEF RecordRejection, Idle
  <2> QED BY <1>7, <2>1, IdleStep DEF RecordRejection, TypeOK, redis, past
<1>8. ASSUME NEW r \in Replicas, SeenInCache(r)
      PROVE  TypeOK' /\ IsFiniteSet(passed')
  <2>1. call[r].delivery.event \in Events
    BY <1>8, CallTypes, DeliveryTypes DEF SeenInCache, Idle
  <2> QED BY <1>8, <2>1, IdleStep DEF SeenInCache, TypeOK, store, redis
<1>9. ASSUME NEW r \in Replicas, NotInCache(r)
      PROVE  TypeOK' /\ IsFiniteSet(passed')
  <2>1. call[r] \in [step : {"flood", "reject", "seen", "insert"},
                     delivery : Deliveries, now : Nat]
    BY <1>9, CallTypes DEF NotInCache, Idle
  <2>2. [call[r] EXCEPT !.step = "insert"] \in CallType
    BY <2>1 DEF CallType
  <2>3. call' = [call EXCEPT ![r] = [call[r] EXCEPT !.step = "insert"]]
    BY <1>9 DEF NotInCache
  <2>4. call' \in [Replicas -> CallType]
    BY <2>2, <2>3 DEF TypeOK
  <2>5. faults' \in 0 .. MaxFaults
    BY <1>9, FaultType DEF NotInCache, TypeOK
  <2> QED BY <1>9, <2>4, <2>5 DEF NotInCache, TypeOK, store, redis, past
<1>10. ASSUME NEW r \in Replicas, InsertDelivery(r)
       PROVE  TypeOK' /\ IsFiniteSet(passed')
  <2>1. /\ call[r].delivery \in Deliveries /\ call[r].now \in Nat
        /\ call[r].delivery.event \in Events
    BY <1>10, CallTypes, DeliveryTypes DEF InsertDelivery, Idle
  <2>2. records' \in [Events -> SUBSET Deliveries]
    BY <1>10, <2>1 DEF InsertDelivery, TypeOK
  <2>3. [step |-> "remember", delivery |-> call[r].delivery, now |-> call[r].now,
         new |-> ~ DuplicateKey(call[r].delivery.event)] \in CallType
    BY <2>1 DEF CallType, DuplicateKey
  <2>4. call' \in [Replicas -> CallType]
    BY <1>10, <2>3 DEF InsertDelivery, TypeOK
  <2> QED BY <1>10, <2>2, <2>4 DEF InsertDelivery, TypeOK, redis, past
<1>11. ASSUME NEW r \in Replicas, InsertFails(r)
       PROVE  TypeOK' /\ IsFiniteSet(passed')
  BY <1>11, IdleStep, FaultType DEF InsertFails, TypeOK, store, redis, past
<1>12. ASSUME NEW r \in Replicas, Remember(r)
       PROVE  TypeOK' /\ IsFiniteSet(passed')
  <2>1. /\ call[r].delivery \in Deliveries /\ call[r].new \in BOOLEAN
        /\ call[r].delivery.event \in Events /\ IdempotencyKey(call[r].delivery) \in Keys
    BY <1>12, CallTypes, DeliveryTypes DEF Remember, Idle
  <2>2. cache' \in [Keys -> Nat \cup {Never}]
    BY SMTT(30), <1>12, <2>1, WebhookAssumption DEF Remember, TypeOK
  <2>3. faults' \in 0 .. MaxFaults
    BY <1>12, FaultType DEF Remember, TypeOK
  <2>4. news' \in [Events -> Nat] /\ duplicates' \subseteq Events
    BY <1>12, <2>1 DEF Remember, Answer, TypeOK
  <2>5. call' \in [Replicas -> CallType]
    BY <1>12, IdleStep DEF Remember, Answer, TypeOK
  <2> QED BY <1>12, <2>2, <2>3, <2>4, <2>5 DEF Remember, TypeOK, store
<1>13. ASSUME NEW r \in Replicas, Redeploy(r)
       PROVE  TypeOK' /\ IsFiniteSet(passed')
  BY <1>13, NewGuardType DEF Redeploy, TypeOK, store, redis, past
<1>14. ASSUME NEW r \in Replicas, Crash(r)
       PROVE  TypeOK' /\ IsFiniteSet(passed')
  BY <1>14, NewGuardType, IdleStep, FaultType DEF Crash, TypeOK, store, redis, past
<1>15. CASE UNCHANGED vars
  BY <1>15 DEF vars, TypeOK, store, redis, past
<1> QED
  BY <1>1, <1>2, <1>3, <1>4, <1>5, <1>6, <1>7, <1>8, <1>9, <1>10, <1>11, <1>12,
     <1>13, <1>14, <1>15 DEF Next, VerifyStep

-----------------------------------------------------------------------------
(* Deduplication *)

\* Replica r has inserted the row of e and is about to answer e as new.
Answering(r, e) ==
  call[r].step = "remember" /\ call[r].new /\ call[r].delivery.event = e

\* Between the insert and the answer the row is ahead of the count of answers:
\* one replica at most stands there, and until a fault it does answer.
Dedupe ==
  /\ CacheImpliesRecord
  /\ \A r \in Replicas : call[r].step = "remember" => Recorded(call[r].delivery.event)
  /\ \A e \in Events : news[e] = 0 \/ (news[e] = 1 /\ Recorded(e))
  /\ \A e \in Events, r \in Replicas :
       Answering(r, e) => news[e] = 0 /\ \A q \in Replicas : Answering(q, e) => q = r
  /\ \A e \in Events :
       faults = 0 /\ Recorded(e) => news[e] = 1 \/ \E r \in Replicas : Answering(r, e)

\* A step that leaves rows, keys and counts alone and begins no answer.
LEMMA DedupeFrame ==
  ASSUME TypeOK, Dedupe, UNCHANGED <<records, cache, news>>,
         faults' = 0 => faults = 0,
         \A q \in Replicas : call'[q].step = "remember" => call'[q] = call[q],
         \A q \in Replicas : faults' = 0 /\ call[q].step = "remember" => call'[q] = call[q]
  PROVE  Dedupe'
<1>1. \A e \in Events : Recorded(e)' <=> Recorded(e)
  BY DEF Recorded
<1>2. \A e \in Events, q \in Replicas : Answering(q, e)' => Answering(q, e)
  BY DEF Answering
<1>3. \A e \in Events, q \in Replicas : faults' = 0 /\ Answering(q, e) => Answering(q, e)'
  BY DEF Answering
<1>4. CacheImpliesRecord'
  BY <1>1, DeliveryTypes DEF Dedupe, CacheImpliesRecord
<1>5. (\A r \in Replicas : call[r].step = "remember" => Recorded(call[r].delivery.event))'
  <2> SUFFICES ASSUME NEW r \in Replicas, call'[r].step = "remember"
               PROVE  Recorded(call[r].delivery.event)
    BY DEF Recorded
  <2>1. call[r].delivery.event \in Events
    BY CallTypes, DeliveryTypes DEF Idle
  <2> QED BY <1>1, <2>1 DEF Dedupe
<1> QED BY <1>1, <1>2, <1>3, <1>4, <1>5 DEF Dedupe

\* Setting the call of one replica
LEMMA OneCall ==
  ASSUME TypeOK, NEW r \in Replicas, NEW v, call' = [call EXCEPT ![r] = v]
  PROVE  call'[r] = v /\ \A q \in Replicas : q # r => call'[q] = call[q]
  BY DEF TypeOK

\* No interleaving of deliveries on the replicas breaks the agreement.
LEMMA DedupeStep ==
  ASSUME TypeOK, Dedupe, [Next]_vars
  PROVE  Dedupe'
<1>1. CASE Tick \/ RotateSecret \/ DeploySecret
  BY <1>1, DedupeFrame DEF Tick, RotateSecret, DeploySecret, store, redis, past
<1>4. ASSUME NEW r \in Replicas, NEW d \in Deliveries, Receive(r, d)
      PROVE  Dedupe'
  <2>1. call' = [call EXCEPT ![r] = [step |-> "flood", delivery |-> d, now |-> clock]]
    BY <1>4 DEF Receive
  <2>2. call[r].step = "idle"
    BY <1>4 DEF Receive, Idle
  <2> QED BY <1>4, <2>1, <2>2, OneCall, DedupeFrame DEF Receive, store, redis, past
<1>5. ASSUME NEW r \in Replicas, CheckFlood(r)
      PROVE  Dedupe'
  <2>1. call[r].step = "flood" /\ UNCHANGED <<records, cache, news, faults>>
    BY <1>5 DEF CheckFlood, store
  <2>2. CASE call' = [call EXCEPT ![r].step = "reject"]
    <3>1. call' = [call EXCEPT ![r] = [call[r] EXCEPT !.step = "reject"]]
      BY <2>2
    <3>2. call[r] \in [step : {"flood", "reject", "seen", "insert"},
                       delivery : Deliveries, now : Nat]
      BY <2>1, CallTypes DEF Idle
    <3>3. [call[r] EXCEPT !.step = "reject"].step = "reject"
      BY <3>2
    <3> QED BY <2>1, <3>1, <3>3, OneCall, DedupeFrame
  <2>3. CASE RateLimit(r)
    <3>1. call[r] \in [step : {"flood", "reject", "seen", "insert"},
                       delivery : Deliveries, now : Nat]
      BY <2>1, CallTypes DEF Idle
    <3>2. call'[r].step \in {"idle", "seen"}
      BY <2>1, <2>3, <3>1, RateLimitType, IdleStep
    <3>3. \A q \in Replicas : q # r => call'[q] = call[q]
      BY <2>1, <2>3, RateLimitType
    <3> QED BY <2>1, <3>2, <3>3, DedupeFrame
  <2> QED BY <1>5, <2>2, <2>3 DEF CheckFlood
<1>6. ASSUME NEW r \in Replicas, FloodFailsOpen(r)
      PROVE  Dedupe'
  <2>1. call[r].step = "flood" /\ UNCHANGED <<records, cache, news>> /\ faults' > 0 /\ RateLimit(r)
    BY <1>6, FaultType DEF FloodFailsOpen, store, redis
  <2>2. call[r] \in [step : {"flood", "reject", "seen", "insert"},
                     delivery : Deliveries, now : Nat]
    BY <2>1, CallTypes DEF Idle
  <2>3. call'[r].step \in {"idle", "seen"}
    BY <2>1, <2>2, RateLimitType, IdleStep
  <2>4. \A q \in Replicas : q # r => call'[q] = call[q]
    BY <2>1, RateLimitType
  <2> QED BY <2>1, <2>3, <2>4, DedupeFrame
<1>7. ASSUME NEW r \in Replicas, RecordRejection(r)
      PROVE  Dedupe'
  BY <1>7, OneCall, IdleStep, DedupeFrame DEF RecordRejection, redis, past
<1>8. ASSUME NEW r \in Replicas, SeenInCache(r)
      PROVE  Dedupe'
  BY <1>8, OneCall, IdleStep, DedupeFrame DEF SeenInCache, store, redis
<1>9. ASSUME NEW r \in Replicas, NotInCache(r)
      PROVE  Dedupe'
  <2>1. call[r] \in [step : {"flood", "reject", "seen", "insert"},
                     delivery : Deliveries, now : Nat]
    BY <1>9, CallTypes DEF NotInCache, Idle
  <2>2. [call[r] EXCEPT !.step = "insert"].step = "insert"
    BY <2>1
  <2>3. call' = [call EXCEPT ![r] = [call[r] EXCEPT !.step = "insert"]]
    BY <1>9 DEF NotInCache
  <2>4. call[r].step = "seen" /\ UNCHANGED <<records, cache, news>> /\ (faults' = 0 => faults = 0)
    BY <1>9, FaultType DEF NotInCache, store, redis, past
  <2> QED BY <2>2, <2>3, <2>4, OneCall, DedupeFrame
<1>10. ASSUME NEW r \in Replicas, InsertDelivery(r)
       PROVE  Dedupe'
  <2> DEFINE e == call[r].delivery.event
  <2>1. call[r].delivery \in Deliveries /\ e \in Events /\ call[r].step = "insert"
    BY <1>10, CallTypes, DeliveryTypes DEF InsertDelivery, Idle
  <2>2. /\ call' = [call EXCEPT ![r] = [step |-> "remember", delivery |-> call[r].delivery,
                              now |-> call[r].now, new |-> ~ DuplicateKey(e)]]
        /\ UNCHANGED <<cache, news, faults>>
    BY <1>10 DEF InsertDelivery, redis, past
  <2>3. /\ call'[r].step = "remember" /\ call'[r].delivery = call[r].delivery
        /\ call'[r].new = ~ Recorded(e)
        /\ \A q \in Replicas : q # r => call'[q] = call[q]
    BY SMTT(30), <2>2, OneCall DEF DuplicateKey, Recorded
  <2>4. \A f \in Events : Recorded(f)' <=> Recorded(f) \/ f = e
    BY <1>10, <2>1 DEF InsertDelivery, Recorded, DuplicateKey, TypeOK
  <2>5. \A f \in Events, q \in Replicas :
          Answering(q, f)' <=> Answering(q, f) \/ (q = r /\ f = e /\ ~ Recorded(e))
    BY <2>1, <2>3 DEF Answering
  <2>6. ~ Recorded(e) => news[e] = 0 /\ \A q \in Replicas : ~ Answering(q, e)
    BY <2>1 DEF Dedupe, Answering
  <2>7. CacheImpliesRecord'
    BY <2>2, <2>4, DeliveryTypes DEF Dedupe, CacheImpliesRecord
  <2>8. (\A q \in Replicas : call[q].step = "remember" => Recorded(call[q].delivery.event))'
    <3> SUFFICES ASSUME NEW q \in Replicas, call'[q].step = "remember"
                 PROVE  records'[call'[q].delivery.event] # {}
      BY DEF Recorded
    <3>1. CASE q = r
      BY <2>1, <2>3, <2>4, <3>1 DEF Recorded
    <3>2. CASE q # r
      <4>1. call[q].delivery.event \in Events
        BY <2>3, <3>2, CallTypes, DeliveryTypes DEF Idle
      <4> QED BY <2>3, <2>4, <3>2, <4>1 DEF Dedupe, Recorded
    <3> QED BY <3>1, <3>2
  <2> HIDE DEF e
  <2>9. \A f \in Events : news'[f] = 0 \/ (news'[f] = 1 /\ Recorded(f)')
    BY <2>2, <2>4 DEF Dedupe
  <2>10. \A f \in Events, p \in Replicas :
           Answering(p, f)' => news'[f] = 0 /\ \A q \in Replicas : Answering(q, f)' => q = p
    BY <2>1, <2>2, <2>5, <2>6 DEF Dedupe
  <2>11. \A f \in Events :
           faults' = 0 /\ Recorded(f)' => news'[f] = 1 \/ \E q \in Replicas : Answering(q, f)'
    BY <2>2, <2>4, <2>5 DEF Dedupe
  <2> QED BY <2>7, <2>8, <2>9, <2>10, <2>11 DEF Dedupe
<1>11. ASSUME NEW r \in Replicas, InsertFails(r)
       PROVE  Dedupe'
  <2>1. call' = [call EXCEPT ![r] = Idle] /\ UNCHANGED <<records, cache, news>> /\ faults' > 0
    BY <1>11, FaultType DEF InsertFails, store, redis, past
  <2> QED BY <2>1, OneCall, IdleStep, DedupeFrame
<1>12. ASSUME NEW r \in Replicas, Remember(r)
       PROVE  Dedupe'
  <2> DEFINE e == call[r].delivery.event
  <2>1. /\ call[r].step = "remember" /\ call[r].delivery \in Deliveries
        /\ call[r].new \in BOOLEAN /\ e \in Events
    BY <1>12, CallTypes, DeliveryTypes DEF Remember, Idle
  <2>2. Recorded(e) /\ \A f \in Events : Recorded(f)' <=> Recorded(f)
    BY <1>12, <2>1 DEF Dedupe, Remember, store, Recorded
  <2>3. call'[r] = Idle /\ \A q \in Replicas : q # r => call'[q] = call[q]
    BY <1>12, OneCall DEF Remember, Answer
  <2>4. \A f \in Events : news'[f] = IF call[r].new /\ f = e THEN news[e] + 1 ELSE news[f]
    BY <1>12, <2>1 DEF Remember, Answer, TypeOK
  <2>5. \A f \in Events, q \in Replicas : Answering(q, f)' <=> Answering(q, f) /\ q # r
    BY <2>3, IdleStep DEF Answering
  <2>6. call[r].new <=> Answering(r, e)
    BY <2>1 DEF Answering
  <2>7. CacheImpliesRecord'
    <3> SUFFICES ASSUME NEW d \in Deliveries, cache'[IdempotencyKey(d)] # Never
                 PROVE  Recorded(d.event)'
      BY DEF CacheImpliesRecord
    <3>1. cache'[IdempotencyKey(d)] = cache[IdempotencyKey(d)]
            \/ IdempotencyKey(d) = IdempotencyKey(call[r].delivery)
      BY <1>12, DeliveryTypes, <2>1 DEF Remember, TypeOK
    <3>2. CASE cache'[IdempotencyKey(d)] = cache[IdempotencyKey(d)]
      BY <2>2, <3>2, DeliveryTypes DEF Dedupe, CacheImpliesRecord
    <3>3. CASE IdempotencyKey(d) = IdempotencyKey(call[r].delivery)
      BY <2>1, <2>2, <3>3, DeliveryTypes DEF IdempotencyKey
    <3> QED BY <3>1, <3>2, <3>3
  <2>8. (\A q \in Replicas : call[q].step = "remember" => Recorded(call[q].delivery.event))'
    <3> SUFFICES ASSUME NEW q \in Replicas, call'[q].step = "remember"
                 PROVE  records'[call'[q].delivery.event] # {}
      BY DEF Recorded
    <3>1. q # r /\ call'[q] = call[q]
      BY <2>3, IdleStep
    <3>2. call[q].delivery.event \in Events
      BY <3>1, CallTypes, DeliveryTypes DEF Idle
    <3> QED BY <2>2, <3>1, <3>2 DEF Dedupe, Recorded
  <2>9. \A f \in Events : faults' = 0 => faults = 0
    BY <1>12, FaultType DEF Remember
  <2> HIDE DEF e
  <2>10. \A f \in Events : news'[f] = 0 \/ (news'[f] = 1 /\ Recorded(f)')
    BY <2>1, <2>2, <2>4, <2>6 DEF Dedupe
  <2>11. \A f \in Events, p \in Replicas :
           Answering(p, f)' => news'[f] = 0 /\ \A q \in Replicas : Answering(q, f)' => q = p
    BY <2>1, <2>4, <2>5, <2>6 DEF Dedupe
  <2>12. \A f \in Events :
           faults' = 0 /\ Recorded(f)' => news'[f] = 1 \/ \E q \in Replicas : Answering(q, f)'
    <3> SUFFICES ASSUME NEW f \in Events, faults' = 0, Recorded(f)', news'[f] # 1
                 PROVE  \E q \in Replicas : Answering(q, f)'
      OBVIOUS
    <3>1. news[f] # 1
      BY <2>1, <2>4, <2>6 DEF Dedupe
    <3>2. PICK q \in Replicas : Answering(q, f)
      BY <2>2, <2>9, <3>1 DEF Dedupe
    <3>3. q # r
      <4> SUFFICES ASSUME q = r PROVE FALSE
        OBVIOUS
      <4>1. f = e /\ call[r].new
        BY <3>2 DEF Answering, e
      <4>2. news[e] = 0
        BY <2>1, <2>6, <4>1 DEF Dedupe
      <4> QED BY <2>4, <4>1, <4>2
    <3> QED BY <2>5, <3>2, <3>3
  <2> QED BY <2>7, <2>8, <2>10, <2>11, <2>12 DEF Dedupe
<1>13. ASSUME NEW r \in Replicas, Redeploy(r)
       PROVE  Dedupe'
  BY <1>13, DedupeFrame DEF Redeploy, store, redis, past
<1>14. ASSUME NEW r \in Replicas, Crash(r)
       PROVE  Dedupe'
  <2>1. call' = [call EXCEPT ![r] = Idle] /\ UNCHANGED <<records, cache, news>> /\ faults' > 0
    BY <1>14, FaultType DEF Crash, store, redis, past
  <2> QED BY <2>1, OneCall, IdleStep, DedupeFrame
<1>15. CASE UNCHANGED vars
  BY <1>15, DedupeFrame DEF vars, store, redis, past
<1> QED
  BY <1>1, <1>4, <1>5, <1>6, <1>7, <1>8, <1>9, <1>10, <1>11, <1>12,
     <1>13, <1>14, <1>15 DEF Next, VerifyStep

-----------------------------------------------------------------------------
(* The flood limiter *)

\* What FloodLimitHolds counts for a tenant
PassedNow(t) == {p \in passed : p[1] = t /\ p[2] > clock - RateWindow}

Injective(f) == \A p, q \in DOMAIN f : f[p] = f[q] => p = q

\* Each request that passed in the last window has a member of the sorted set
\* of its own, with its time as the score.
Accounted(t) ==
  \E f \in [PassedNow(t) -> Recent(flood[t], clock)] :
    Injective(f) /\ \A p \in PassedNow(t) : f[p][1] = p[2]

\* The time a call carries is not ahead of the clock; the set of a tenant never
\* holds more members of the last window than the limit, and without a fault or
\* a collision it holds one for each request that passed.
Flood ==
  /\ \A r \in Replicas : call[r].step # "idle" => call[r].now <= clock
  /\ \A t \in Tenants :
       IsFiniteSet(flood[t]) /\ Cardinality(Recent(flood[t], clock)) <= FloodLimit
  /\ faults = 0 /\ ~ collided => \A t \in Tenants : Accounted(t)

LEMMA FloodFrame ==
  ASSUME TypeOK, Flood, UNCHANGED <<clock, flood, passed, collided>>,
         faults' = 0 => faults = 0,
         \A q \in Replicas : call'[q].step # "idle" => call'[q] = call[q] \/ call'[q].now <= clock
  PROVE  Flood'
<1>1. \A t \in Tenants : Accounted(t) => Accounted(t)'
  BY ZenonT(40) DEF Accounted, PassedNow, Recent
<1> QED BY <1>1 DEF Flood, Recent

\* Members that leave the window make room.
LEMMA FewerRecent ==
  ASSUME NEW S, NEW T, IsFiniteSet(S), T \subseteq S
  PROVE  IsFiniteSet(T) /\ Cardinality(T) <= Cardinality(S)
         /\ Cardinality(S) \in Nat /\ Cardinality(T) \in Nat
  BY FS_Subset, FS_CardinalityType

LEMMA TickFlood ==
  ASSUME TypeOK, Flood, Tick
  PROVE  Flood'
<1>1. /\ clock' = clock + 1 /\ clock \in Nat /\ FloodLimit \in Nat /\ RateWindow \in Nat
      /\ UNCHANGED <<flood, passed, collided, call, faults>>
  BY WebhookAssumption DEF Tick, TypeOK, redis, past
<1>2. ASSUME NEW t \in Tenants
      PROVE  Recent(flood[t], clock + 1) \subseteq Recent(flood[t], clock)
  BY <1>1 DEF TypeOK, Recent
<1>3. ASSUME NEW t \in Tenants
      PROVE  IsFiniteSet(flood[t]) /\ Cardinality(Recent(flood[t], clock + 1)) <= FloodLimit
  <2>1. Recent(flood[t], clock) \subseteq flood[t]
    BY DEF Recent
  <2>2. IsFiniteSet(Recent(flood[t], clock))
    BY <2>1, FewerRecent DEF Flood
  <2> QED BY <1>1, <1>2, <2>2, FewerRecent DEF Flood
<1>4. ASSUME NEW t \in Tenants, Accounted(t)
      PROVE  Accounted(t)'
  <2> DEFINE late == {p \in passed : p[1] = t /\ p[2] > (clock + 1) - RateWindow}
  <2>1. late \subseteq PassedNow(t)
    BY <1>1 DEF PassedNow, TypeOK
  <2>2. PICK f \in [PassedNow(t) -> Recent(flood[t], clock)] :
               Injective(f) /\ \A p \in PassedNow(t) : f[p][1] = p[2]
    BY <1>4 DEF Accounted
  <2> DEFINE g == [p \in late |-> f[p]]
  <2>3. g \in [late -> Recent(flood[t], clock + 1)]
    BY <2>1, <2>2 DEF Recent
  <2>4. Injective(g) /\ \A p \in late : g[p][1] = p[2]
    BY <2>1, <2>2 DEF Injective
  <2>5. PassedNow(t)' = late /\ Recent(flood[t], clock)' = Recent(flood[t], clock + 1)
    BY <1>1 DEF PassedNow, Recent
  <2> HIDE DEF g, late
  <2> QED BY <2>3, <2>4, <2>5 DEF Accounted
<1>5. \A r \in Replicas : call[r].step # "idle" => call[r].now <= clock + 1
  <2> SUFFICES ASSUME NEW r \in Replicas, call[r].step # "idle" PROVE call[r].now <= clock + 1
    OBVIOUS
  <2>1. call[r].now \in Nat
    BY CallTypes, IdleStep
  <2> QED BY <1>1, <2>1 DEF Flood
<1>6. \A t \in Tenants : Recent(flood[t], clock)' = Recent(flood[t], clock + 1)
  BY <1>1 DEF Recent
<1> QED BY <1>1, <1>3, <1>4, <1>5, <1>6 DEF Flood

\* What the script leaves of the tenant's set: the members recent at the time
\* the call arrived hold all that are recent now.
LEMMA ScriptPrunes ==
  ASSUME TypeOK, Flood, NEW t \in Tenants, NEW now \in Nat, now <= clock
  PROVE  /\ Recent(flood[t], clock) \subseteq Recent(flood[t], now)
         /\ Recent(Recent(flood[t], now), clock) = Recent(flood[t], clock)
         /\ IsFiniteSet(Recent(flood[t], now))
<1>1. Recent(flood[t], clock) \subseteq Recent(flood[t], now)
  BY WebhookAssumption DEF TypeOK, Recent
<1>2. Recent(Recent(flood[t], now), clock) = Recent(flood[t], clock)
  BY <1>1 DEF Recent
<1>3. Recent(flood[t], now) \subseteq flood[t]
  BY DEF Recent
<1> QED BY <1>1, <1>2, <1>3, FewerRecent DEF Flood

LEMMA CheckFloodFlood ==
  ASSUME TypeOK, Flood, NEW r \in Replicas, CheckFlood(r)
  PROVE  Flood'
<1>0. PICK c, t : c = call[r] /\ t = c.delivery.tenant
  OBVIOUS
<1> DEFINE members == Recent(flood[t], c.now)
<1>1. /\ c.step = "flood" /\ c.delivery \in Deliveries /\ c.now \in Nat /\ t \in Tenants
      /\ c.now <= clock /\ clock \in Nat /\ FloodLimit \in Nat
      /\ c \in [step : {"flood", "reject", "seen", "insert"}, delivery : Deliveries, now : Nat]
      /\ UNCHANGED <<clock, faults>>
  <2>1. call[r].step = "flood" /\ call[r] # Idle /\ UNCHANGED <<clock, faults>>
    BY DEF CheckFlood, Idle
  <2>2. clock \in Nat /\ FloodLimit \in Nat
    BY WebhookAssumption DEF TypeOK
  <2>3. call[r].now <= clock
    BY <2>1 DEF Flood
  <2> QED BY <1>0, <2>1, <2>2, <2>3, CallTypes, DeliveryTypes
<1>2. /\ Recent(flood[t], clock) \subseteq members /\ IsFiniteSet(members)
      /\ Recent(members, clock) = Recent(flood[t], clock)
  BY <1>1, ScriptPrunes
<1>3. CASE /\ flood' = [flood EXCEPT ![t] = members]
           /\ call' = [call EXCEPT ![r].step = "reject"]
           /\ UNCHANGED <<passed, collided>>
  <2>1. \A u \in Tenants : flood'[u] = IF u = t THEN members ELSE flood[u]
    BY <1>1, <1>3 DEF TypeOK
  <2>2. \A u \in Tenants : Recent(flood'[u], clock) = Recent(flood[u], clock)
    BY <1>2, <2>1
  <2>3. \A u \in Tenants : Recent(flood[u], clock)' = Recent(flood[u], clock)
    BY <1>1, <2>2 DEF Recent
  <2>4. \A u \in Tenants : Accounted(u) => Accounted(u)'
    <3>1. \A u : PassedNow(u)' = PassedNow(u)
      BY <1>1, <1>3 DEF PassedNow
    <3> QED BY <2>3, <3>1 DEF Accounted
  <2>5. call' = [call EXCEPT ![r] = [c EXCEPT !.step = "reject"]]
    BY <1>0, <1>3
  <2>6. [c EXCEPT !.step = "reject"].now = c.now
    BY <1>1
  <2>7. \A q \in Replicas : call'[q].step # "idle" => call'[q].now <= clock'
    BY <1>1, <2>5, <2>6, OneCall DEF Flood
  <2> QED BY <1>1, <1>2, <1>3, <2>1, <2>3, <2>4, <2>7 DEF Flood
<1>4. ASSUME NEW x \in Suffixes, ~ FloodFull(members),
             flood' = [flood EXCEPT ![t] = members \cup {<<c.now, x>>}],
             collided' = (collided \/ <<c.now, x>> \in members),
             Pass(c), RateLimit(r)
      PROVE  Flood'
  <2> DEFINE m == <<c.now, x>>
             all == members \cup {m}
  <2>1. \A u \in Tenants : flood'[u] = IF u = t THEN all ELSE flood[u]
    BY <1>1, <1>4 DEF TypeOK
  <2>2. IsFiniteSet(all) /\ Cardinality(all) \in Nat /\ Cardinality(all) <= FloodLimit
    <3>1. Cardinality(members) \in Nat /\ Cardinality(members) < FloodLimit
      BY <1>1, <1>2, <1>4, FS_CardinalityType DEF FloodFull
    <3>2. IsFiniteSet(all) /\ Cardinality(all) <= Cardinality(members) + 1
      <4>1. IsFiniteSet(all) /\ Cardinality(all) =
              IF m \in members THEN Cardinality(members) ELSE Cardinality(members) + 1
        BY <1>2, FS_AddElement
      <4> HIDE DEF members, all, m
      <4> QED BY <3>1, <4>1
    <3>3. Cardinality(all) \in Nat
      BY <3>2, FS_CardinalityType
    <3> QED BY <1>1, <3>1, <3>2, <3>3
  <2>3. Recent(all, clock) \subseteq all
    BY DEF Recent
  <2>4. Cardinality(Recent(all, clock)) <= FloodLimit
    <3> DEFINE recent == Recent(all, clock)
    <3>1. recent \subseteq all
      BY <2>3
    <3> HIDE DEF all, recent
    <3>2. Cardinality(recent) <= Cardinality(all) /\ Cardinality(recent) \in Nat
      BY <2>2, <3>1, FewerRecent
    <3>3. Cardinality(recent) <= FloodLimit
      BY <1>1, <2>2, <3>2
    <3> QED BY <3>3 DEF recent
  <2>5. \A q \in Replicas : call'[q].step # "idle" => call'[q].now <= clock'
    <3>1. [c EXCEPT !.step = "seen"].now = c.now
      BY <1>1
    <3>2. call'[r] = Idle \/ call'[r] = [c EXCEPT !.step = "seen"]
      BY <1>0, <1>1, <1>4, RateLimitType
    <3>3. \A q \in Replicas : q # r => call'[q] = call[q]
      BY <1>0, <1>1, <1>4, RateLimitType
    <3> QED BY <1>1, <3>1, <3>2, <3>3, IdleStep DEF Flood
  <2>6. ASSUME faults' = 0, ~ collided', NEW u \in Tenants
        PROVE  Accounted(u)'
    <3> DEFINE p == <<t, c.now, Cardinality({q \in passed : q[1] = t /\ q[2] = c.now}) + 1>>
    <3>1. faults = 0 /\ ~ collided /\ m \notin members
      BY <1>1, <1>4, <2>6 DEF TypeOK
    <3>2. passed' = passed \cup {p}
      BY <1>0, <1>1, <1>4, <2>6 DEF Pass, TypeOK
    <3>3. PICK f \in [PassedNow(u) -> Recent(flood[u], clock)] :
                 Injective(f) /\ \A q \in PassedNow(u) : f[q][1] = q[2]
      BY <3>1 DEF Flood, Accounted
    <3>4. p[1] = t /\ p[2] = c.now
      OBVIOUS
    <3> HIDE DEF p
    <3>5. CASE u # t
      <4>1. PassedNow(u)' = PassedNow(u)
        BY <1>1, <3>2, <3>4, <3>5 DEF PassedNow
      <4>2. Recent(flood[u], clock)' = Recent(flood[u], clock)
        BY <1>1, <2>1, <3>5 DEF Recent
      <4> QED BY <3>3, <4>1, <4>2 DEF Accounted
    <3>6. CASE u = t
      <4> DEFINE now == PassedNow(t)'
                 g == [q \in now |-> IF q = p THEN m ELSE f[q]]
      <4>1. now \subseteq PassedNow(t) \cup {p}
        BY <1>1, <3>2 DEF PassedNow
      <4>2. Recent(flood[t], clock)' = Recent(all, clock)
        BY <1>1, <2>1 DEF Recent
      <4>3. p \in now => m \in Recent(all, clock)
        BY <1>1, <3>4 DEF PassedNow, Recent
      <4>4. \A q \in now : q # p => q \in PassedNow(t) /\ f[q] \in Recent(all, clock) /\ f[q] # m
        BY <1>2, <3>1, <3>3, <3>6, <4>1 DEF Recent
      <4>5. g \in [now -> Recent(all, clock)]
        BY <4>3, <4>4
      <4>6. Injective(g)
        BY <3>3, <3>6, <4>4 DEF Injective
      <4>7. \A q \in now : g[q][1] = q[2]
        BY <3>3, <3>4, <3>6, <4>4
      <4> HIDE DEF g
      <4> QED BY <3>6, <4>2, <4>5, <4>6, <4>7 DEF Accounted
    <3> QED BY <3>5, <3>6
  <2>7. \A u \in Tenants : Recent(flood[u], clock)' =
                            IF u = t THEN Recent(all, clock) ELSE Recent(flood[u], clock)
    BY <1>1, <2>1 DEF Recent
  <2> HIDE DEF all
  <2> QED BY <2>1, <2>2, <2>4, <2>5, <2>6, <2>7 DEF Flood
<1> QED BY <1>0, <1>3, <1>4 DEF CheckFlood

LEMMA FloodStep ==
  ASSUME TypeOK, Flood, [Next]_vars
  PROVE  Flood'
<1> DEFINE Callers(r) == \A q \in Replicas : q # r => call'[q] = call[q]
<1>1. CASE Tick
  BY <1>1, TickFlood
<1>2. CASE RotateSecret \/ DeploySecret
  BY <1>2, FloodFrame DEF RotateSecret, DeploySecret, redis, past
<1>3. ASSUME NEW r \in Replicas, NEW d \in Deliveries, Receive(r, d)
      PROVE  Flood'
  <2>1. call' = [call EXCEPT ![r] = [step |-> "flood", delivery |-> d, now |-> clock]]
    BY <1>3 DEF Receive
  <2>2. clock \in Nat
    BY DEF TypeOK
  <2> QED BY <1>3, <2>1, <2>2, OneCall, FloodFrame DEF Receive, redis, past
<1>4. ASSUME NEW r \in Replicas, FloodFailsOpen(r)
      PROVE  Flood'
  <2>1. call[r].step = "flood" /\ UNCHANGED <<clock, flood, collided>> /\ faults' > 0 /\ RateLimit(r)
    BY <1>4, FaultType DEF FloodFailsOpen, redis
  <2>2. call[r] \in [step : {"flood", "reject", "seen", "insert"},
                     delivery : Deliveries, now : Nat]
    BY <2>1, CallTypes DEF Idle
  <2>3. [call[r] EXCEPT !.step = "seen"].now = call[r].now
    BY <2>2
  <2>4. Callers(r) /\ (call'[r] = Idle \/ call'[r] = [call[r] EXCEPT !.step = "seen"])
    BY <2>1, RateLimitType
  <2>5. \A q \in Replicas : call'[q].step # "idle" => call'[q].now <= clock'
    BY <2>1, <2>3, <2>4, IdleStep DEF Flood
  <2>6. \A t \in Tenants : Recent(flood[t], clock)' = Recent(flood[t], clock)
    BY <2>1 DEF Recent
  <2> QED BY <2>1, <2>5, <2>6 DEF Flood
<1>5. ASSUME NEW r \in Replicas, NotInCache(r)
      PROVE  Flood'
  <2>1. call[r] \in [step : {"flood", "reject", "seen", "insert"},
                     delivery : Deliveries, now : Nat]
    BY <1>5, CallTypes DEF NotInCache, Idle
  <2>2. [call[r] EXCEPT !.step = "insert"].now = call[r].now /\ call[r].step # "idle"
    BY <2>1
  <2>3. call' = [call EXCEPT ![r] = [call[r] EXCEPT !.step = "insert"]]
    BY <1>5 DEF NotInCache
  <2>4. UNCHANGED <<clock, flood, passed, collided>> /\ (faults' = 0 => faults = 0)
    BY <1>5, FaultType DEF NotInCache, redis, past
  <2>5. call[r].now <= clock
    BY <2>2 DEF Flood
  <2> QED BY <2>2, <2>3, <2>4, <2>5, OneCall, FloodFrame
<1>6. ASSUME NEW r \in Replicas, InsertDelivery(r)
      PROVE  Flood'
  <2>1. call[r].step = "insert" /\ UNCHANGED <<clock, flood, passed, collided, faults>>
    BY <1>6 DEF InsertDelivery, redis, past
  <2>2. call[r].now <= clock
    BY <2>1 DEF Flood
  <2>3. call'[r].now = call[r].now /\ Callers(r)
    BY <1>6, OneCall DEF InsertDelivery
  <2> QED BY <2>1, <2>2, <2>3, FloodFrame
<1>7. ASSUME NEW r \in Replicas,
             RecordRejection(r) \/ SeenInCache(r) \/ InsertFails(r) \/ Remember(r) \/ Crash(r)
      PROVE  Flood'
  <2>1. call' = [call EXCEPT ![r] = Idle]
    BY <1>7 DEF RecordRejection, SeenInCache, InsertFails, Remember, Answer, Crash
  <2>2. UNCHANGED <<clock, flood, passed, collided>>
    BY <1>7 DEF RecordRejection, SeenInCache, InsertFails, Remember, Crash, redis, past
  <2>3. faults' = 0 => faults = 0
    BY <1>7, FaultType DEF RecordRejection, SeenInCache, InsertFails, Remember, Crash
  <2> QED BY <2>1, <2>2, <2>3, OneCall, IdleStep, FloodFrame
<1>8. ASSUME NEW r \in Replicas, Redeploy(r)
      PROVE  Flood'
  BY <1>8, FloodFrame DEF Redeploy, redis, past
<1>9. CASE UNCHANGED vars
  BY <1>9, FloodFrame DEF vars, redis, past
<1> QED
  BY <1>1, <1>2, <1>3, <1>4, <1>5, <1>6, <1>7, <1>8, <1>9, CheckFloodFlood
  DEF Next, VerifyStep

-----------------------------------------------------------------------------
(* The theorems *)

\* The inductive invariant
Inv == TypeOK /\ IsFiniteSet(passed) /\ Dedupe /\ Flood

LEMMA InitInv == ASSUME Init PROVE Inv
<1> USE DEF Init
<1>1. \A r \in Replicas : call[r].step = "idle"
  BY DEF Idle
<1>2. TypeOK
  <2>1. NewGuard("old", NoRotation) \in
          [secret : {"old", "new"}, previous : {"none", "hash"},
           until : Nat \cup {Never}, windows : [Addrs -> Seq(Nat)]]
    BY DEF NewGuard, NoRotation
  <2>2. NoRotation \in [previous : {"none", "hash"}, until : Nat \cup {Never}]
    BY DEF NoRotation
  <2>3. 0 \in 0 .. MaxTime /\ 0 \in 0 .. MaxFaults
    BY WebhookAssumption
  <2>4. /\ guard \in [Replicas -> [secret : {"old", "new"}, previous : {"none", "hash"},
                            until : Nat \cup {Never}, windows : [Addrs -> Seq(Nat)]]]
        /\ call \in [Replicas -> CallType]
        /\ passed \subseteq Tenants \X Nat \X Nat
    BY <2>1, IdleStep
  <2> QED BY <2>2, <2>3, <2>4 DEF TypeOK
<1>3. IsFiniteSet(passed)
  BY FS_EmptySet
<1>4. Dedupe
  <2>1. \A e \in Events : ~ Recorded(e)
    BY DEF Recorded
  <2>2. CacheImpliesRecord
    BY DeliveryTypes DEF CacheImpliesRecord
  <2> QED BY <1>1, <2>1, <2>2 DEF Dedupe, Answering
<1>5. Flood
  <2>1. \A t \in Tenants : flood[t] = {} /\ Recent(flood[t], clock) = {}
    BY DEF Recent
  <2>2. FloodLimit \in Nat
    BY WebhookAssumption
  <2>3. \A t \in Tenants : PassedNow(t) = {}
    BY DEF PassedNow
  <2>4. ASSUME NEW t \in Tenants PROVE Accounted(t)
    <3> DEFINE f == [p \in {} |-> p]
    <3>1. f \in [PassedNow(t) -> Recent(flood[t], clock)] /\ Injective(f)
      BY <2>3 DEF Injective
    <3> QED BY <2>3, <3>1 DEF Accounted
  <2>5. \A t \in Tenants :
          IsFiniteSet(flood[t]) /\ Cardinality(Recent(flood[t], clock)) <= FloodLimit
    <3>1. IsFiniteSet({}) /\ Cardinality({}) = 0
      BY FS_EmptySet
    <3> HIDE DEF Init
    <3> TAKE t \in Tenants
    <3>2. IsFiniteSet(flood[t]) /\ Cardinality(Recent(flood[t], clock)) = 0
      BY <2>1, <3>1
    <3> QED BY <2>2, <3>2
  <2> QED BY <1>1, <2>4, <2>5 DEF Flood
<1> QED BY <1>2, <1>3, <1>4, <1>5 DEF Inv

LEMMA NextInv == Inv /\ [Next]_vars => Inv'
  BY TypeStep, DedupeStep, FloodStep DEF Inv

LEMMA InvHolds == Spec => []Inv
  BY InitInv, NextInv, PTL DEF Spec

\* For every number of replicas, deliveries and faults: an event is answered as
\* new at most once, exactly once when nothing fails, and the cache knows no
\* event that the table of PostgresRedisWebhookGuard does not.
THEOREM DedupeCorrect == Spec => []DedupeInvariant
<1>1. ASSUME Inv PROVE DedupeInvariant
  <2>1. TypeOK /\ CacheImpliesRecord
    BY <1>1 DEF Inv, Dedupe
  <2>2. ASSUME NEW e \in Events PROVE news[e] <= 1
    BY <1>1 DEF Inv, Dedupe
  <2>3. ASSUME NEW e \in Events, faults = 0, Recorded(e),
               \A r \in Replicas : call[r].step # "remember"
        PROVE  news[e] = 1
    BY <1>1, <2>3 DEF Inv, Dedupe, Answering
  <2> QED BY <2>1, <2>2, <2>3 DEF DedupeInvariant, NewExactlyOnce
<1> QED BY <1>1, InvHolds, PTL

\* For every limit, window and number of replicas: the requests of a tenant that
\* got past _check_ticket_flood in the last window are within the limit, unless
\* Redis failed or the script drew one member twice.
THEOREM FloodLimitCorrect == Spec => []FloodLimitHolds
<1>1. ASSUME Inv PROVE FloodLimitHolds
  <2> SUFFICES ASSUME faults = 0, ~ collided, NEW t \in Tenants
               PROVE  Cardinality(PassedNow(t)) <= FloodLimit
    BY DEF FloodLimitHolds, PassedNow
  <2> DEFINE recent == Recent(flood[t], clock)
  <2>1. PICK f \in [PassedNow(t) -> recent] : Injective(f)
    BY <1>1 DEF Inv, Flood, Accounted
  <2>2. recent \subseteq flood[t] /\ IsFiniteSet(flood[t]) /\ Cardinality(recent) <= FloodLimit
    BY <1>1 DEF Inv, Flood, Recent
  <2> HIDE DEF recent
  <2>3. IsFiniteSet(recent) /\ Cardinality(recent) \in Nat
    BY <2>2, FewerRecent
  <2>4. f \in Injection(PassedNow(t), recent)
    BY <2>1, Fun_IsInj DEF Injective
  <2>5. /\ IsFiniteSet(PassedNow(t))
        /\ Cardinality(PassedNow(t)) <= Cardinality(recent)
    BY <2>3, <2>4, FS_Injection
  <2>6. Cardinality(PassedNow(t)) \in Nat /\ FloodLimit \in Nat
    BY <2>5, FS_CardinalityType, WebhookAssumption
  <2> QED BY <2>2, <2>3, <2>5, <2>6
<1> QED BY <1>1, InvHolds, PTL

-----------------------------------------------------------------------------
(* The refinement *)

LEMMA InboxInit == Init => Inbox!Init
  BY DEF Init, Inbox!Init, Recorded

\* A step that adds no row and answers no duplicate stutters.
LEMMA InboxStutter ==
  ASSUME UNCHANGED <<records, duplicates>>
  PROVE  UNCHANGED Inbox!vars
  BY DEF Inbox!vars, Recorded

LEMMA InboxStep == Inv /\ [Next]_vars => [Inbox!Next]_(Inbox!vars)
<1> SUFFICES ASSUME Inv, [Next]_vars
             PROVE  [Inbox!Next]_(Inbox!vars)
  OBVIOUS
<1> DEFINE recorded == {e \in Events : Recorded(e)}
<1>1. CASE Tick \/ RotateSecret \/ DeploySecret
  BY <1>1, InboxStutter DEF Tick, RotateSecret, DeploySecret, store, past
<1>2. ASSUME NEW r \in Replicas,
             \/ \E d \in Deliveries : Receive(r, d)
             \/ CheckFlood(r) \/ FloodFailsOpen(r) \/ RecordRejection(r) \/ NotInCache(r)
             \/ InsertFails(r) \/ Redeploy(r) \/ Crash(r)
      PROVE  [Inbox!Next]_(Inbox!vars)
  <2>1. UNCHANGED <<records, duplicates>>
    BY <1>2 DEF Receive, CheckFlood, FloodFailsOpen, RecordRejection, NotInCache,
                InsertFails, Redeploy, Crash, store, past
  <2> QED BY <2>1, InboxStutter
<1>3. ASSUME NEW r \in Replicas, SeenInCache(r)
      PROVE  [Inbox!Next]_(Inbox!vars)
  <2>1. PICK d \in Deliveries : d = call[r].delivery
    BY <1>3, CallTypes DEF Inv, SeenInCache, Idle
  <2>2. d.event \in Events /\ IdempotencyKey(d) \in Keys
    BY DeliveryTypes
  <2>3. cache[IdempotencyKey(d)] # Never
    BY <1>3, <2>1, <2>2 DEF Inv, TypeOK, SeenInCache, CacheSeen, Never
  <2>4. Recorded(d.event)
    BY <2>3 DEF Inv, Dedupe, CacheImpliesRecord
  <2>5. UNCHANGED records /\ duplicates' = duplicates \cup {d.event}
    BY <1>3, <2>1 DEF SeenInCache, store
  <2>6. Inbox!AnswerDuplicate(d.event)
    BY <2>2, <2>4, <2>5 DEF Inbox!AnswerDuplicate, Recorded
  <2> QED BY <2>2, <2>6 DEF Inbox!Next
<1>4. ASSUME NEW r \in Replicas, InsertDelivery(r)
      PROVE  [Inbox!Next]_(Inbox!vars)
  <2>1. PICK d \in Deliveries : d = call[r].delivery
    BY <1>4, CallTypes DEF Inv, InsertDelivery, Idle
  <2>2. d.event \in Events /\ UNCHANGED duplicates
    BY <1>4, DeliveryTypes DEF InsertDelivery, past
  <2>3. CASE Recorded(d.event)
    BY <1>4, <2>1, <2>2, <2>3, InboxStutter DEF InsertDelivery, DuplicateKey, Recorded
  <2>4. CASE ~ Recorded(d.event)
    <3>1. \A f \in Events : Recorded(f)' <=> Recorded(f) \/ f = d.event
      BY <1>4, <2>1, <2>2, <2>4 DEF InsertDelivery, Recorded, DuplicateKey, Inv, TypeOK
    <3>2. recorded' = recorded \cup {d.event} /\ d.event \notin recorded
      BY <2>2, <2>4, <3>1
    <3>3. Inbox!Take(d.event)
      BY <2>2, <3>2 DEF Inbox!Take
    <3> QED BY <2>2, <3>3 DEF Inbox!Next
  <2> QED BY <2>3, <2>4
<1>5. ASSUME NEW r \in Replicas, Remember(r)
      PROVE  [Inbox!Next]_(Inbox!vars)
  <2>1. PICK d \in Deliveries : d = call[r].delivery
    BY <1>5, CallTypes DEF Inv, Remember, Idle
  <2>2. d.event \in Events /\ UNCHANGED records /\ Recorded(d.event)
    BY <1>5, <2>1, DeliveryTypes DEF Remember, store, Inv, Dedupe
  <2>3. CASE call[r].new
    BY <1>5, <2>2, <2>3, InboxStutter DEF Remember, Answer
  <2>4. CASE ~ call[r].new
    <3>1. duplicates' = duplicates \cup {d.event}
      BY <1>5, <2>1, <2>4 DEF Remember, Answer
    <3>2. Inbox!AnswerDuplicate(d.event)
      BY <2>2, <3>1 DEF Inbox!AnswerDuplicate, Recorded
    <3> QED BY <2>2, <3>2 DEF Inbox!Next
  <2> QED BY <2>3, <2>4
<1>6. CASE UNCHANGED vars
  BY <1>6, InboxStutter DEF vars, store, past
<1> QED
  BY <1>1, <1>2, <1>3, <1>4, <1>5, <1>6 DEF Next, VerifyStep

\* All replicas together behave as one inbox: the unique constraint on source
\* and delivery_id takes an event in once, and whatever verify answers as a
\* duplicate was taken in before.
THEOREM GuardImplementsInbox == Spec => ImplementsInbox
<1>1. Spec => Inbox!Init /\ [][Inbox!Next]_(Inbox!vars)
  BY InvHolds, InboxInit, InboxStep, PTL DEF Spec
<1> QED BY <1>1 DEF ImplementsInbox, Inbox!Spec
=============================================================================
