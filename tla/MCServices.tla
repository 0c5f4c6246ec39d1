------------------------------ MODULE MCServices ------------------------------
(***************************************************************************)
(* The services of the platform beside the ticket's own way, checked       *)
(* together: a behaviour is one of a single service, chosen at the start,  *)
(* while the variables of the others keep their initial values.  No action *)
(* reads or writes a variable of another service, so each service goes     *)
(* through exactly the states of its own specification, and the run        *)
(* explores their sum where a conjunction would explore their product.     *)
(* Two services that meet in a table have the other's actions on it as     *)
(* their own: the deletions of compliance/admin.py in Metering, the rows   *)
(* and bindings of other components in ComplianceAdmin.                    *)
(*                                                                         *)
(* The grants, keys and schedule of CredentialAdmin have no common         *)
(* variable but the clock; nor do the agreements of ComplianceAdmin and    *)
(* the rest of it, the reports of Metering and its rollups.  Retention     *)
(* runs and erasures, which meet in the rows, are two of the choices, each *)
(* with the writers of the rows.                                           *)
(***************************************************************************)
EXTENDS WebhookGuard, ProviderRouting, Metering, RateCards, CredentialAdmin,
        ComplianceAdmin, KnowledgeBase, EnvelopeRotation, RunStore, GraphValidator, TLC

VARIABLE focus      \* the service that runs

\* Two images: the second ships without m1.
MCBundles ==
  {[m \in {"m1", "m2"} |-> IF m = "m1" THEN [provider |-> "p1", allowed |-> {"m2"}]
                           ELSE [provider |-> "p2", allowed |-> {}]],
   [m \in {"m2"} |-> [provider |-> "p2", allowed |-> {}]]}
MCAssignments == {[primary |-> "m1", fallback |-> "m2"], [primary |-> "m2", fallback |-> NoModel]}

\* The same event with two bodies, the second later and signed with the secret
\* to come.
Request(body, time, key) ==
  [event |-> 1, body |-> body, tenant |-> "a", addr |-> "10.0.0.1",
   timestamp |-> time, secret |-> key]
MCDeliveries == {Request(1, 0, "old"), Request(2, 1, "new")}

\* Two tenants with a team of the same name, a tenant with two teams.
Usage(i, tenant, team, time) ==
  [id |-> i, tenant |-> tenant, team |-> team, provider |-> "p", time |-> time]
MCUsages == {Usage(1, "a", "x", 0), Usage(2, "a", "x", 1), Usage(3, "b", "x", 0), Usage(4, "a", "y", 1)}
MCPeriods == {<<0, 0>>, <<0, 1>>}

MCDataRows ==
  {[tenant |-> "a", table |-> "runs", time |-> 0], [tenant |-> "a", table |-> "dlq", time |-> 0],
   [tenant |-> "b", table |-> "audit", time |-> 0]}
MCPolicies ==
  {[tenant |-> "b", table |-> "dlq", days |-> 0], [tenant |-> "b", table |-> "audit", days |-> 0]}
MCEvents == [e1 |-> "a"]

\* The same two model values play all the interchangeable pairs, so that the
\* symmetry group has two members.
MCSymmetry == Permutations(Threads)

-----------------------------------------------------------------------------
ServicesInit ==
  /\ Init /\ RoutingInit /\ MeteringInit /\ CardInit /\ CredentialInit /\ ComplianceInit
  /\ KnowledgeInit /\ EnvelopeInit /\ RunInit /\ GraphInit
  /\ focus \in {"webhook", "routing", "metering", "reports", "cards", "grants", "keks",
                "schedule", "retention", "erasure", "dpa", "knowledge", "envelopes",
                "runs", "graph"}
  \* The roles and the profile vary only for the service that reads them.
  /\ focus # "routing" => ~ airGapped
  /\ focus # "metering" => ~ bypassesRls
  /\ focus \notin {"retention", "erasure"} => ~ rlsBypassed

WebhookStep ==
  /\ focus = "webhook"
  /\ Next
  /\ UNCHANGED <<routingVars, meteringVars, cardVars, credentialVars, complianceVars,
                knowledgeVars, envelopeVars, runVars, edges>>

RoutingStep ==
  /\ focus = "routing"
  /\ RoutingNext
  /\ UNCHANGED <<vars, meteringVars, cardVars, credentialVars, complianceVars,
                knowledgeVars, envelopeVars, runVars, edges>>

MeteringStep ==
  /\ \/ focus = "metering" /\ RollupNext
     \/ focus = "reports" /\ RunReconciliation
  /\ UNCHANGED <<vars, routingVars, cardVars, credentialVars, complianceVars,
                knowledgeVars, envelopeVars, runVars, edges>>

CardStep ==
  /\ focus = "cards"
  /\ CardNext
  /\ UNCHANGED <<vars, routingVars, meteringVars, credentialVars, complianceVars,
                knowledgeVars, envelopeVars, runVars, edges>>

CredentialStep ==
  /\ \/ focus = "grants" /\ (AdminTick \/ GrantNext)
     \/ focus = "keks" /\ KekNext
     \/ focus = "schedule" /\ (AdminTick \/ ScheduleNext)
  /\ UNCHANGED <<vars, routingVars, meteringVars, cardVars, complianceVars,
                knowledgeVars, envelopeVars, runVars, edges>>

ComplianceStep ==
  /\ \/ focus = "retention" /\ (NextDay \/ DataNext)
     \/ /\ focus = "erasure"
        /\ ErasureNext \/ \E r \in DataRows : InsertRow(r) \/ PinRun(r) \/ UnpinRun(r)
     \/ focus = "dpa" /\ (NextDay \/ DpaNext)
  /\ UNCHANGED <<vars, routingVars, meteringVars, cardVars, credentialVars,
                knowledgeVars, envelopeVars, runVars, edges>>

KnowledgeStep ==
  /\ focus = "knowledge"
  /\ KnowledgeNext
  /\ UNCHANGED <<vars, routingVars, meteringVars, cardVars, credentialVars,
                complianceVars, envelopeVars, runVars, edges>>

EnvelopeStep ==
  /\ focus = "envelopes"
  /\ EnvelopeNext
  /\ UNCHANGED <<vars, routingVars, meteringVars, cardVars, credentialVars,
                complianceVars, knowledgeVars, runVars, edges>>

RunStep ==
  /\ focus = "runs"
  /\ RunNext
  /\ UNCHANGED <<vars, routingVars, meteringVars, cardVars, credentialVars,
                complianceVars, knowledgeVars, envelopeVars, edges>>

GraphStep ==
  /\ focus = "graph"
  /\ GraphNext
  /\ UNCHANGED <<vars, routingVars, meteringVars, cardVars, credentialVars,
                complianceVars, knowledgeVars, envelopeVars, runVars>>

ServicesNext ==
  /\ UNCHANGED focus
  /\ \/ WebhookStep \/ RoutingStep \/ MeteringStep \/ CardStep \/ CredentialStep
     \/ ComplianceStep \/ KnowledgeStep \/ EnvelopeStep \/ RunStep \/ GraphStep

servicesVars == <<focus, vars, routingVars, meteringVars, cardVars, credentialVars,
                  complianceVars, knowledgeVars, envelopeVars, runVars, edges>>

ServicesSpec == ServicesInit /\ [][ServicesNext]_servicesVars
=============================================================================
