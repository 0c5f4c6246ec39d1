--------------------------- MODULE ProviderRouting ---------------------------
(***************************************************************************)
(* RuleBasedProviderRouter (governance/routing.py) over the model catalog  *)
(* in PostgreSQL and the circuit breakers in Redis                         *)
(* (persistence/governance.py): concurrent callers choose a model, call    *)
(* its provider and report the outcome, operators move a breaker to half   *)
(* open, processes seed the catalog from the bundle they ship.             *)
(*                                                                         *)
(* A step is one Redis script or one transaction.  An answer of a script   *)
(* becomes known to the caller only after its event row is inserted.       *)
(***************************************************************************)
EXTENDS Integers, FiniteSets

CONSTANTS
  Models, Providers,
  Bundles,            \* catalogs of the deployed images: model -> entry
  Assignments,        \* role assignments: primary and fallback model
  RouteCallers,
  FailureThreshold, RecoveryProbeLimit,
  MaxFailures,        \* bound on consecutive_failures
  MaxRouteFaults      \* bound on failing scripts and inserts

NoModel == "none"

ASSUME RoutingAssumption ==
  /\ NoModel \notin Models
  /\ \A b \in Bundles :
       /\ DOMAIN b \subseteq Models
       /\ \A m \in DOMAIN b : b[m] \in [provider : Providers, allowed : SUBSET Models]
  /\ Assignments \subseteq [primary : Models, fallback : Models \cup {NoModel}]
  /\ FailureThreshold \in Int /\ {RecoveryProbeLimit, MaxFailures, MaxRouteFaults} \subseteq Nat

VARIABLES
  airGapped,     \* deployment_profile: fail_closed_without_redis
  catalog,       \* model_catalog_entries: model -> entry
  catalogAudit,  \* whether a catalog_reconcile audit row was written
  health,        \* Redis hash of every provider; an absent one reads as Closed
  healthEvents,  \* provider_health_events: the providers with a row of state open
  caller,        \* per caller: the select_model or report in progress
  probed,        \* history: probes granted since the breaker went half open
  routeFaults

routingVars == <<airGapped, catalog, catalogAudit, health, healthEvents, caller, probed, routeFaults>>
stored == <<airGapped, catalog, catalogAudit>>

Closed == [state |-> "closed", failures |-> 0, probes |-> 0]
NotCalling == [step |-> "idle"]

RoutingInit ==
  /\ airGapped \in BOOLEAN
  /\ catalog = [m \in {} |-> Closed] /\ catalogAudit = FALSE
  /\ health = [p \in Providers |-> Closed] /\ healthEvents = {}
  /\ caller = [c \in RouteCallers |-> NotCalling]
  /\ probed = [p \in Providers |-> 0]
  /\ routeFaults = 0

RouteFault == routeFaults < MaxRouteFaults /\ routeFaults' = routeFaults + 1

Goto(c, s) == caller' = [caller EXCEPT ![c].step = s]
Finish(c) == caller' = [caller EXCEPT ![c] = NotCalling]

-----------------------------------------------------------------------------
(* The catalog *)

\* The upserts: rows the bundle does not name stay.
UpsertRows(b) == [m \in DOMAIN catalog \cup DOMAIN b |-> IF m \in DOMAIN b THEN b[m] ELSE catalog[m]]

\* reconcile_bundle, at start or when a reader finds the tables empty; an audit
\* row is written when the sets of keys differ.
ReconcileBundle(b) ==
  /\ catalog' = UpsertRows(b)
  /\ catalogAudit' = (catalogAudit \/ DOMAIN catalog # DOMAIN b)
  /\ UNCHANGED <<airGapped, health, healthEvents, caller, probed, routeFaults>>

\* One resolve_model: a KeyError ends the selection with a ValueError.
Read(c, m, found) ==
  /\ DOMAIN catalog # {}
  /\ IF m \in DOMAIN catalog THEN found ELSE Finish(c)
  /\ UNCHANGED <<stored, health, healthEvents, probed, routeFaults>>

StartSelection(c, a) ==
  /\ caller[c] = NotCalling
  /\ Read(c, a.primary,
          LET p == catalog[a.primary].provider
          IN  caller' = [caller EXCEPT ![c] =
                IF a.fallback = NoModel THEN [step |-> "ask", provider |-> p, second |-> NoModel]
                ELSE [step |-> "check", provider |-> p, primary |-> a.primary, fallback |-> a.fallback]])

\* validate_fallback resolves both models again.
CheckPrimary(c) ==
  /\ caller[c].step = "check"
  /\ Read(c, caller[c].primary,
          IF caller[c].fallback \in catalog[caller[c].primary].allowed
          THEN Goto(c, "resolve") ELSE Finish(c))

\* The fallback is resolved twice, by validate_fallback and by select_model.
ResolveFallback(c) ==
  /\ caller[c].step = "resolve"
  /\ Read(c, caller[c].fallback,
          caller' = [caller EXCEPT ![c] =
            [step |-> "ask", provider |-> @.provider, second |-> catalog[@.fallback].provider]])

-----------------------------------------------------------------------------
(* The breakers *)

\* _persist_event
Event(p, state) == healthEvents' = IF state = "open" THEN healthEvents \cup {p} ELSE healthEvents

TakeProbe(h) == [h EXCEPT !.probes = @ - 1]

Allowed(h) == h.state = "closed" \/ (h.state = "half_open" /\ h.probes > 0)

Asked(c) == IF caller[c].step = "ask" THEN caller[c].provider ELSE caller[c].second

\* allow_request: the script, then the event; only then the caller goes on.
AllowRequest(c) ==
  /\ caller[c].step \in {"ask", "ask_second"}
  /\ LET p == Asked(c)
         h == health[p]
         probe == Allowed(h) /\ h.state = "half_open"
     IN  /\ health' = IF probe THEN [health EXCEPT ![p] = TakeProbe(h)] ELSE health
         /\ probed' = IF probe THEN [probed EXCEPT ![p] = @ + 1] ELSE probed
         /\ caller' = [caller EXCEPT ![c] =
              [step |-> "asked", provider |-> p, state |-> h.state, allowed |-> Allowed(h),
               second |-> IF caller[c].step = "ask" THEN caller[c].second ELSE NoModel]]
  /\ UNCHANGED <<stored, healthEvents, routeFaults>>

\* Redis fails: open when air-gapped, else as if closed.
AllowRequestFallsBack(c) ==
  /\ caller[c].step \in {"ask", "ask_second"} /\ RouteFault
  /\ caller' = [caller EXCEPT ![c] =
       [step |-> "asked", provider |-> Asked(c),
        state |-> IF airGapped THEN "open" ELSE "closed", allowed |-> ~ airGapped,
        second |-> IF caller[c].step = "ask" THEN caller[c].second ELSE NoModel]]
  /\ UNCHANGED <<stored, health, healthEvents, probed>>

\* The event is stored and the router goes on: call the provider, ask for the
\* fallback, or raise ProviderRoutingError.
Answered(c) ==
  /\ caller[c].step = "asked"
  /\ Event(caller[c].provider, caller[c].state)
  /\ caller' = [caller EXCEPT ![c] =
       IF @.allowed THEN [step |-> "call", provider |-> @.provider]
       ELSE IF @.second # NoModel THEN [step |-> "ask_second", second |-> @.second]
       ELSE NotCalling]
  /\ UNCHANGED <<stored, health, probed, routeFaults>>

\* The insert fails and the exception ends the call: a granted probe is lost.
EventLost(c) ==
  /\ caller[c].step \in {"asked", "report"} /\ RouteFault
  /\ Finish(c)
  /\ UNCHANGED <<stored, health, healthEvents, probed>>

AfterSuccess(h) == Closed

\* Mutant: off by one.
OpenLate(h) ==
  LET n == h.failures + 1
  IN  IF n > FailureThreshold THEN [state |-> "open", failures |-> n, probes |-> 0]
      ELSE [h EXCEPT !.failures = n]

AfterFailure(h) ==
  LET n == h.failures + 1
  IN  IF n >= FailureThreshold THEN [state |-> "open", failures |-> n, probes |-> 0]
      ELSE [h EXCEPT !.failures = n]

\* record_success and record_failure: the script, then the event.
Report(c, kind) ==
  /\ caller[c].step = "call"
  /\ kind = "failure" => health[caller[c].provider].failures < MaxFailures
  /\ LET p == caller[c].provider
         h == IF kind = "success" THEN AfterSuccess(health[p]) ELSE AfterFailure(health[p])
     IN  /\ health' = [health EXCEPT ![p] = h]
         /\ probed' = [probed EXCEPT ![p] = IF h.state = "half_open" THEN @ ELSE 0]
         /\ caller' = [caller EXCEPT ![c] =
              [step |-> "report", provider |-> p, state |-> h.state]]
  /\ UNCHANGED <<stored, healthEvents, routeFaults>>

\* The script fails: the outcome is not counted, its event is stored twice.
ReportUncounted(c) ==
  /\ caller[c].step = "call" /\ RouteFault
  /\ LET s == IF airGapped THEN "open" ELSE "closed"
     IN  /\ Event(caller[c].provider, s)
         /\ caller' = [caller EXCEPT ![c] =
              [step |-> "report", provider |-> @.provider, state |-> s]]
  /\ UNCHANGED <<stored, health, probed>>

Reported(c) ==
  /\ caller[c].step = "report"
  /\ Event(caller[c].provider, caller[c].state)
  /\ Finish(c)
  /\ UNCHANGED <<stored, health, probed, routeFaults>>

\* move_to_half_open, by an operator, in any state of the breaker.
MoveToHalfOpen(p) ==
  /\ health' = [health EXCEPT ![p].state = "half_open", ![p].probes = RecoveryProbeLimit]
  /\ Event(p, "half_open")
  /\ probed' = [probed EXCEPT ![p] = 0]
  /\ UNCHANGED <<stored, caller, routeFaults>>

\* The script fails: only the event of the fallback state is stored, twice.
MoveToHalfOpenFails(p) ==
  /\ RouteFault
  /\ Event(p, IF airGapped THEN "open" ELSE "closed")
  /\ UNCHANGED <<stored, health, caller, probed>>

\* A day after the last script that sets the expiry the hash is gone.
HealthExpires(p) ==
  /\ health[p] # Closed
  /\ health' = [health EXCEPT ![p] = Closed]
  /\ probed' = [probed EXCEPT ![p] = 0]
  /\ UNCHANGED <<stored, healthEvents, caller, routeFaults>>

-----------------------------------------------------------------------------
RoutingNext ==
  \/ \E b \in Bundles : ReconcileBundle(b)
  \/ \E p \in Providers : MoveToHalfOpen(p) \/ MoveToHalfOpenFails(p) \/ HealthExpires(p)
  \/ \E c \in RouteCallers :
       \/ \E a \in Assignments : StartSelection(c, a)
       \/ CheckPrimary(c) \/ ResolveFallback(c) \/ AllowRequest(c)
       \/ AllowRequestFallsBack(c) \/ Answered(c) \/ EventLost(c) \/ Reported(c)
       \/ ReportUncounted(c)
       \/ \E kind \in {"success", "failure"} : Report(c, kind)

RoutingSpec == RoutingInit /\ [][RoutingNext]_routingVars

-----------------------------------------------------------------------------
(* Properties *)

\* Whatever the order of reports, probes, operators and expiries of the callers
\* on all replicas, a closed breaker has fewer failures than the threshold, an
\* open one has at least that many, and only a half-open one has probes left.
BreakerIsConsistent ==
  \A p \in Providers :
    /\ health[p].state = "closed" => health[p].failures < FailureThreshold \/ health[p] = Closed
    /\ health[p].state = "open" => health[p].failures >= FailureThreshold
    /\ health[p].probes > 0 => health[p].state = "half_open"

\* A half-open breaker lets no more probes through than recovery_probe_limit,
\* however many replicas ask at the same time.
ProbesAreBounded ==
  \A p \in Providers :
    health[p].state = "half_open" => probed[p] + health[p].probes <= RecoveryProbeLimit

\* The breaker a caller tripped is in the event log once nobody is still about
\* to write, unless a script or an insert failed.
OpenIsRecorded ==
  routeFaults = 0 /\ (\A c \in RouteCallers : caller[c].step # "report") =>
    \A p \in Providers :
      health[p].state = "open" => p \in healthEvents

\* The breakers under concurrent callers on all replicas, operators, failing
\* scripts and expiries.
BreakerInvariant == BreakerIsConsistent /\ ProbesAreBounded /\ OpenIsRecorded
=============================================================================
