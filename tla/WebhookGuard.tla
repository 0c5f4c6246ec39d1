---------------------------- MODULE WebhookGuard ----------------------------
(***************************************************************************)
(* PostgresRedisWebhookGuard (persistence/webhook.py) behind POST          *)
(* /webhooks/jira (platform/api.py), on several replicas that share one    *)
(* PostgreSQL table and one Redis, and the secret rotation of              *)
(* webhook/admin.py.                                                       *)
(*                                                                         *)
(* The handler is a coroutine that calls verify without awaiting, so a     *)
(* replica verifies one request at a time.  A step is one Redis command,   *)
(* script or insert with the local code after it; `now` is read when the   *)
(* request arrives.  The network may deliver any request any number of     *)
(* times to any replica.                                                   *)
(***************************************************************************)
EXTENDS Integers, FiniteSets, Sequences

CONSTANTS
  Replicas,
  Deliveries,        \* requests that may arrive, each with its fixed fields
  Allowlist,         \* addresses the ip_allowlist covers; {} when it is empty
  FreshnessWindow,   \* freshness_window_seconds
  RateWindow,        \* the 60 seconds of both limiters
  PerMinuteLimit, FloodLimit,
  Overlap,           \* overlap_hours of a rotation
  Suffixes,          \* what math.random returns in the script
  MaxTime,           \* bound on the clock
  MaxFaults          \* bound on failing commands, inserts and dying processes

ASSUME WebhookAssumption ==
  /\ Deliveries \subseteq [event : Nat, body : Nat, tenant : STRING, addr : STRING,
                           timestamp : Int, secret : {"old", "new"}]
  /\ {FreshnessWindow, RateWindow, PerMinuteLimit, FloodLimit, Overlap,
      MaxTime, MaxFaults} \subseteq Nat
  /\ Suffixes # {}

Events  == {d.event : d \in Deliveries}
Tenants == {d.tenant : d \in Deliveries}
Addrs   == {d.addr : d \in Deliveries}

\* _idempotency_key
IdempotencyKey(d) == <<d.event, d.body>>
Keys == {IdempotencyKey(d) : d \in Deliveries}
Never   == -1

VARIABLES
  clock,
  records,      \* webhook_idempotency_records: event -> its deliveries
  rejections,   \* webhook_rate_limit_rejections: the tenants with a row
  rotation,     \* the latest row of webhook_secret_rotations
  secret,       \* BACKEND_WEBHOOK_SHARED_SECRET of new processes
  cache,        \* Redis: idempotency key -> expiry
  flood,        \* Redis: tenant -> members of the sorted set
  guard,        \* per replica: configuration and _request_windows
  call,         \* per replica: the verify in progress
  \* history
  news,         \* event -> how often it was answered as new
  duplicates,   \* events answered as duplicates
  passed,       \* requests that passed the flood limiter: <<tenant, now, n>>
  collided,     \* two members of a sorted set were the same
  faults

store  == <<records, rejections, rotation, secret>>
redis  == <<cache, flood>>
past   == <<news, duplicates, passed, collided>>
vars   == <<clock, store, redis, guard, call, past, faults>>

Idle == [step |-> "idle"]

\* build_webhook_guard reads the latest rotation when the process starts;
\* previous_secret_hash of a rotation that still overlaps is used as a secret.
NewGuard(s, r) ==
  [secret |-> s,
   previous |-> IF r.until # Never /\ r.until > clock THEN r.previous ELSE "none",
   until |-> r.until,
   windows |-> [a \in Addrs |-> << >>]]

NoRotation == [previous |-> "none", until |-> Never]

Init ==
  /\ clock = 0
  /\ records = [e \in Events |-> {}] /\ rejections = {}
  /\ rotation = NoRotation /\ secret = "old"
  /\ cache = [k \in Keys |-> Never] /\ flood = [t \in Tenants |-> {}]
  /\ guard = [r \in Replicas |-> NewGuard("old", NoRotation)]
  /\ call = [r \in Replicas |-> Idle]
  /\ news = [e \in Events |-> 0] /\ duplicates = {}
  /\ passed = {} /\ collided = FALSE
  /\ faults = 0

Tick ==
  /\ clock < MaxTime
  /\ clock' = clock + 1
  /\ UNCHANGED <<store, redis, guard, call, past, faults>>

Fault == faults < MaxFaults /\ faults' = faults + 1

-----------------------------------------------------------------------------
(* The checks before the first command *)

IpAllowed(d) == Allowlist = {} \/ d.addr \in Allowlist

\* _verify_signature and _is_within_overlap
SignatureMatches(r, d) ==
  \/ d.secret = guard[r].secret
  \/ /\ guard[r].previous # "none" /\ clock <= guard[r].until
     /\ d.secret = guard[r].previous

Fresh(d, now) == now - d.timestamp <= FreshnessWindow

\* A request that fails one of these is answered 401/403 without a trace.
Receive(r, d) ==
  /\ call[r] = Idle
  /\ IpAllowed(d) /\ SignatureMatches(r, d) /\ Fresh(d, clock)
  /\ call' = [call EXCEPT ![r] = [step |-> "flood", delivery |-> d, now |-> clock]]
  /\ UNCHANGED <<clock, store, redis, guard, past, faults>>

-----------------------------------------------------------------------------
(* The limiters *)

\* ZREMRANGEBYSCORE key -inf now - window
Recent(members, now) == {m \in members : m[1] > now - RateWindow}

\* Mutant: one too many.
FullAfterLimit(members) == Cardinality(members) > FloodLimit

FloodFull(members) == Cardinality(members) >= FloodLimit

\* The timestamps with now - timestamp < 60.  A replica appends the times of
\* its calls in order, so the list comprehension drops a prefix.
InWindow(times, now) ==
  LET expired == {i \in DOMAIN times : ~ (now - times[i] < RateWindow)}
  IN  SubSeq(times, Cardinality(expired) + 1, Len(times))

\* _rate_limited: the process-local window of the remote address.
RateLimit(r) ==
  LET c == call[r]
      times == InWindow(guard[r].windows[c.delivery.addr], c.now)
      limited == Len(times) >= PerMinuteLimit
  IN  /\ guard' = [guard EXCEPT ![r].windows[c.delivery.addr] =
                     IF limited THEN times ELSE Append(times, c.now)]
      /\ call' = [call EXCEPT ![r] = IF limited THEN Idle ELSE [c EXCEPT !.step = "seen"]]

\* Once Redis failed or a member was drawn twice the limit says nothing.
Pass(c) ==
  LET before == {p \in passed : p[1] = c.delivery.tenant /\ p[2] = c.now}
  IN  passed' = IF collided' \/ faults' > 0 THEN {}
                ELSE passed \cup {<<c.delivery.tenant, c.now, Cardinality(before) + 1>>}

\* _check_ticket_flood.  The API passes no ticket key, so the window is the
\* tenant's.  The script counts, adds a member and sets the expiry at once.
CheckFlood(r) ==
  /\ call[r].step = "flood"
  /\ LET c == call[r]
         members == Recent(flood[c.delivery.tenant], c.now)
     IN  \/ /\ FloodFull(members)
            /\ flood' = [flood EXCEPT ![c.delivery.tenant] = members]
            /\ call' = [call EXCEPT ![r].step = "reject"]
            /\ UNCHANGED <<guard, passed, collided>>
         \/ /\ ~ FloodFull(members)
            /\ \E x \in Suffixes :
                 /\ flood' = [flood EXCEPT ![c.delivery.tenant] = members \cup {<<c.now, x>>}]
                 /\ collided' = (collided \/ <<c.now, x>> \in members)
            /\ UNCHANGED faults /\ Pass(c) /\ RateLimit(r)
  /\ UNCHANGED <<clock, store, cache, news, duplicates, faults>>

\* check_sliding_window swallows a RedisError: the limiter fails open.
FloodFailsOpen(r) ==
  /\ call[r].step = "flood" /\ Fault
  /\ UNCHANGED <<clock, store, redis, news, duplicates, collided>>
  /\ Pass(call[r]) /\ RateLimit(r)

\* record_rate_limit_rejection, then 429
RecordRejection(r) ==
  /\ call[r].step = "reject"
  /\ rejections' = rejections \cup {call[r].delivery.tenant}
  /\ call' = [call EXCEPT ![r] = Idle]
  /\ UNCHANGED <<clock, records, rotation, secret, redis, guard, past, faults>>

-----------------------------------------------------------------------------
(* Deduplication.  The idempotency key holds source, event and a hash of the  *)
(* body; the unique constraint is on source and event.                        *)

CacheSeen(d) == cache[IdempotencyKey(d)] > clock

SeenInCache(r) ==
  /\ call[r].step = "seen" /\ CacheSeen(call[r].delivery)
  /\ duplicates' = duplicates \cup {call[r].delivery.event}
  /\ call' = [call EXCEPT ![r] = Idle]
  /\ UNCHANGED <<clock, store, redis, guard, news, passed, collided, faults>>

NotInCache(r) ==
  /\ call[r].step = "seen"
  /\ \/ ~ CacheSeen(call[r].delivery) /\ UNCHANGED faults
     \/ Fault
  /\ call' = [call EXCEPT ![r].step = "insert"]
  /\ UNCHANGED <<clock, store, redis, guard, past>>

\* Mutant: no unique constraint on (source, delivery_id).
NoConstraint(e) == FALSE

DuplicateKey(e) == records[e] # {}

\* insert_delivery; IntegrityError of the unique constraint means duplicate.
InsertDelivery(r) ==
  /\ call[r].step = "insert"
  /\ LET d == call[r].delivery
     IN  records' = IF DuplicateKey(d.event) THEN records
                    ELSE [records EXCEPT ![d.event] = @ \cup {d}]
  /\ call' = [call EXCEPT ![r] = [step |-> "remember", delivery |-> @.delivery, now |-> @.now,
                                  new |-> ~ DuplicateKey(@.delivery.event)]]
  /\ UNCHANGED <<clock, rejections, rotation, secret, redis, guard, past, faults>>

\* Mutant: every failed insert counts as a duplicate.
InsertFailureIsDuplicate(r) ==
  /\ call[r].step = "insert" /\ Fault
  /\ call' = [call EXCEPT ![r] = [step |-> "remember", delivery |-> @.delivery,
                                  now |-> @.now, new |-> FALSE]]
  /\ UNCHANGED <<clock, store, redis, guard, past>>

\* Any other database error propagates: 500, nothing is remembered.
InsertFails(r) ==
  /\ call[r].step = "insert" /\ Fault
  /\ call' = [call EXCEPT ![r] = Idle]
  /\ UNCHANGED <<clock, store, redis, guard, past>>

\* _remember_best_effort and the answer
Answer(r) ==
  /\ call' = [call EXCEPT ![r] = Idle]
  /\ news' = IF call[r].new THEN [news EXCEPT ![call[r].delivery.event] = @ + 1] ELSE news
  /\ duplicates' = IF call[r].new THEN duplicates
                   ELSE duplicates \cup {call[r].delivery.event}

Remember(r) ==
  /\ call[r].step = "remember" /\ Answer(r)
  /\ \/ /\ cache' = [cache EXCEPT ![IdempotencyKey(call[r].delivery)] = clock + FreshnessWindow]
        /\ UNCHANGED faults
     \/ UNCHANGED cache /\ Fault
  /\ UNCHANGED <<clock, store, flood, guard, passed, collided>>

-----------------------------------------------------------------------------
(* Processes and secrets *)

\* A deployment restarts the process with the secret of its environment.
Redeploy(r) ==
  /\ call[r] = Idle /\ guard[r].secret # secret
  /\ guard' = [guard EXCEPT ![r] = NewGuard(secret, rotation)]
  /\ UNCHANGED <<clock, store, redis, call, past, faults>>

\* The process dies in the middle of a request and is started again.
Crash(r) ==
  /\ call[r] # Idle /\ Fault
  /\ guard' = [guard EXCEPT ![r] = NewGuard(secret, rotation)]
  /\ call' = [call EXCEPT ![r] = Idle]
  /\ UNCHANGED <<clock, store, redis, past>>

\* hashlib.sha256(secret).hexdigest()[:16], which is no secret of a sender
HashOf(s) == "hash"

\* rotate_secret stores a hash of the new secret as previous_secret_hash;
\* the operator then changes the environment of new processes.
RotateSecret ==
  /\ rotation = NoRotation
  /\ rotation' = [previous |-> HashOf("new"), until |-> clock + Overlap]
  /\ UNCHANGED <<clock, records, rejections, secret, redis, guard, call, past, faults>>

DeploySecret ==
  /\ rotation # NoRotation /\ secret = "old"
  /\ secret' = "new"
  /\ UNCHANGED <<clock, records, rejections, rotation, redis, guard, call, past, faults>>

-----------------------------------------------------------------------------
VerifyStep(r) ==
  \/ CheckFlood(r) \/ FloodFailsOpen(r) \/ RecordRejection(r) \/ SeenInCache(r)
  \/ NotInCache(r) \/ InsertDelivery(r) \/ InsertFails(r) \/ Remember(r)

Next ==
  \/ Tick \/ RotateSecret \/ DeploySecret
  \/ \E r \in Replicas : VerifyStep(r) \/ Redeploy(r) \/ Crash(r) \/ \E d \in Deliveries : Receive(r, d)

Spec == Init /\ [][Next]_vars

-----------------------------------------------------------------------------
(* Properties *)

CallType ==
  [step : {"idle"}]
  \cup [step : {"flood", "reject", "seen", "insert"}, delivery : Deliveries, now : Nat]
  \cup [step : {"remember"}, delivery : Deliveries, now : Nat, new : BOOLEAN]

\* Rows, keys, windows and the calls in progress have their shapes.
TypeOK ==
  /\ clock \in 0 .. MaxTime
  /\ records \in [Events -> SUBSET Deliveries] /\ rejections \subseteq Tenants
  /\ rotation \in [previous : {"none", "hash"}, until : Nat \cup {Never}]
  /\ secret \in {"old", "new"}
  /\ cache \in [Keys -> Nat \cup {Never}]
  /\ flood \in [Tenants -> SUBSET (Nat \X Suffixes)]
  /\ guard \in [Replicas -> [secret : {"old", "new"}, previous : {"none", "hash"},
                             until : Nat \cup {Never}, windows : [Addrs -> Seq(Nat)]]]
  /\ call \in [Replicas -> CallType]
  /\ news \in [Events -> Nat] /\ duplicates \subseteq Events
  /\ passed \subseteq Tenants \X Nat \X Nat /\ collided \in BOOLEAN
  /\ faults \in 0 .. MaxFaults

Recorded(e) == records[e] # {}

\* However often and wherever an event is delivered, with caches that expire or
\* fail, it is answered as new at most once; and without a fault every recorded
\* event that no replica is still working on was.
NewExactlyOnce ==
  \A e \in Events :
    /\ news[e] <= 1
    /\ faults = 0 /\ Recorded(e) /\ (\A r \in Replicas : call[r].step # "remember")
         => news[e] = 1

\* The cache is only ever a shortcut: what it knows is in the table, so a
\* delivery whose insert failed is taken in by the retry.
CacheImpliesRecord == \A d \in Deliveries : cache[IdempotencyKey(d)] # Never => Recorded(d.event)

\* Deduplication across replicas, cache and table: in every state the rows, the
\* cached keys and the answers given so far agree.
DedupeInvariant == TypeOK /\ NewExactlyOnce /\ CacheImpliesRecord

\* In the last window no tenant got more requests past the flood limiter than
\* the limit, on all replicas together, unless Redis failed or the script drew
\* the same member twice.
FloodLimitHolds ==
  faults = 0 /\ ~ collided =>
    \A t \in Tenants :
      Cardinality({p \in passed : p[1] = t /\ p[2] > clock - RateWindow}) <= FloodLimit

\* The replicas implement one inbox.
Inbox == INSTANCE DeliveryInbox
           WITH recorded <- {e \in Events : Recorded(e)}

ImplementsInbox == Inbox!Spec
=============================================================================
