------------------------- MODULE ControlPlaneProofs -------------------------
(* Proofs about ControlPlane, for every set of operators, threads and runs *)
(* and every bound.                                                        *)
EXTENDS ControlPlane, TLAPS, FiniteSetTheorems

-----------------------------------------------------------------------------
(* Open transactions *)

\* What each step of a transaction carries
LEMMA TxFields ==
  ASSUME TypeOK, NEW o \in Operators
  PROVE  /\ tx[o].step = "version" => tx[o].kind \in Kinds /\ tx[o].number \in Nat
         /\ tx[o].step \in {"previous", "insert", "commit"} =>
              tx[o].id \in SnapshotIds /\ tx[o].graph \in Nat
              /\ tx[o].expected \in SnapshotIds \cup {None}
         /\ tx[o].step \in {"insert", "commit"} =>
              tx[o] \in [step : {"insert", "commit"}, id : SnapshotIds, graph : Nat,
                         expected : SnapshotIds \cup {None},
                         previous : SnapshotIds \cup {None}]
         /\ tx[o].step \in {"load", "publish"} =>
              tx[o] \in [step : {"load", "publish"}, id : SnapshotIds]
         /\ tx[o].step = "retired" => tx[o].active \in SnapshotIds \cup {None}
         /\ tx[o].step = "delete" => tx[o].retired \subseteq SnapshotIds
<1>1. tx[o] \in TxType
  BY DEF TypeOK
<1> QED BY <1>1 DEF TxType

LEMMA IdleType == Idle \in TxType /\ Idle.step = "idle"
  BY DEF Idle, TxType

LEMMA OneTx ==
  ASSUME TypeOK, NEW o \in Operators, NEW v, tx' = [tx EXCEPT ![o] = v]
  PROVE  /\ tx'[o] = v /\ \A p \in Operators : p # o => tx'[p] = tx[p]
         /\ v \in TxType => tx' \in [Operators -> TxType]
  BY DEF TypeOK

LEMMA NoneIsNoId == None \notin SnapshotIds
  BY DEF None, SnapshotIds

LEMMA NumbersOf ==
  ASSUME TypeOK, VersionsAreNumbered, NEW k \in Kinds
  PROVE  Numbers(k) = 1 .. Len(versions[k]) /\ Len(versions[k]) \in Nat
<1>1. versions[k] \in Seq(Nat)
  BY DEF TypeOK
<1>2. \A i \in 1 .. Len(versions[k]) : versions[k][i] = i
  BY <1>1 DEF VersionsAreNumbered
<1> QED BY <1>1, <1>2 DEF Numbers

\* Numbered rows make the next number one more than their count.
LEMMA NextNumber ==
  ASSUME TypeOK, VersionsAreNumbered, NEW k \in Kinds
  PROVE  NextVersionNumber(k) = Len(versions[k]) + 1
<1>1. Numbers(k) = 1 .. Len(versions[k]) /\ Len(versions[k]) \in Nat
  BY NumbersOf
<1> DEFINE L == Len(versions[k])
           P(n) == (\A m \in Numbers(k) : m < n) /\ (n = 1 \/ n - 1 \in Numbers(k))
<1>2. L + 1 \in 1 .. L + 1 /\ P(L + 1)
  BY <1>1
<1>3. \A n \in 1 .. L + 1 : P(n) => n = L + 1
  BY <1>1
<1>4. NextVersionNumber(k) = CHOOSE n \in 1 .. L + 1 : P(n)
  BY DEF NextVersionNumber
<1> HIDE DEF P, L
<1>5. NextVersionNumber(k) \in 1 .. L + 1 /\ P(NextVersionNumber(k))
  BY <1>2, <1>4
<1>6. NextVersionNumber(k) = L + 1
  BY <1>3, <1>5
<1> QED BY <1>6 DEF L

-----------------------------------------------------------------------------
(* Types *)

\* Steps of an operator that only move its transaction
LEMMA TypeTxOnly ==
  ASSUME TypeOK, UNCHANGED <<tables, issued, registry, faults>>,
         tx' \in [Operators -> TxType]
  PROVE  TypeOK'
  BY DEF TypeOK, tables, registry, Stored

LEMMA BindingRow ==
  ASSUME TypeOK, NEW r \in Runs, bindings[r] # NoBinding
  PROVE  bindings[r] \in [snapshot : SnapshotIds, status : RunStates]
  BY DEF TypeOK

\* Every step keeps every table, transaction and cache entry in its type.
LEMMA TypeStep ==
  ASSUME TypeOK, VersionsAreNumbered, [Next]_vars
  PROVE  TypeOK'
<1>1. ASSUME NEW o \in Operators, NEW k \in Kinds, CreateVersion(o, k) PROVE TypeOK'
  <2>1. Len(versions[k]) \in Nat
    BY NumbersOf
  <2>2. [step |-> "version", kind |-> k, number |-> NextVersionNumber(k)] \in TxType
    BY <2>1, NextNumber DEF TxType
  <2>3. tx' \in [Operators -> TxType]
    BY <1>1, <2>2, OneTx DEF CreateVersion
  <2> QED BY <1>1, <2>3, TypeTxOnly DEF CreateVersion
<1>2. ASSUME NEW o \in Operators, InsertVersion(o) PROVE TypeOK'
  <2>1. tx[o].kind \in Kinds /\ tx[o].number \in Nat
    BY <1>2, TxFields DEF InsertVersion
  <2>2. tx' \in [Operators -> TxType]
    BY <1>2, OneTx, IdleType DEF InsertVersion
  <2>3. versions' \in [Kinds -> Seq(Nat)]
    <3>1. Append(versions[tx[o].kind], tx[o].number) \in Seq(Nat)
      BY <2>1 DEF TypeOK
    <3>2. \/ UNCHANGED versions
          \/ versions' = [versions EXCEPT ![tx[o].kind] =
                            Append(versions[tx[o].kind], tx[o].number)]
      BY <1>2 DEF InsertVersion
    <3> QED BY <2>1, <3>1, <3>2 DEF TypeOK
  <2>4. audit' \subseteq AuditRow
    BY <1>2, <2>1 DEF InsertVersion, TypeOK, AuditRow
  <2> QED BY <1>2, <2>2, <2>3, <2>4 DEF InsertVersion, TypeOK, registry, Stored
<1>3. ASSUME NEW o \in Operators, NEW g \in 1 .. MaxVersions["graph"], NEW m \in Metrics,
             NEW override \in BOOLEAN, NEW expected \in SnapshotIds \cup {None},
             Activate(o, g, m, override, expected)
      PROVE  TypeOK'
  <2>1. issued + 1 \in SnapshotIds /\ issued + 1 \in 0 .. MaxSnapshots /\ g \in Nat
    BY <1>3, ControlPlaneAssumption DEF Activate, TypeOK, SnapshotIds
  <2>2. [step |-> "previous", id |-> issued + 1, graph |-> g, expected |-> expected] \in TxType
    BY <2>1 DEF TxType
  <2>3. tx' \in [Operators -> TxType]
    BY <1>3, <2>2, OneTx DEF Activate
  <2> QED BY <1>3, <2>1, <2>3 DEF Activate, TypeOK, tables, registry, Stored
<1>4. ASSUME NEW o \in Operators, ReadPrevious(o) PROVE TypeOK'
  <2>1. [step |-> "insert", id |-> tx[o].id, graph |-> tx[o].graph,
         expected |-> tx[o].expected, previous |-> active] \in TxType
    BY <1>4, TxFields DEF ReadPrevious, TxType, TypeOK
  <2>2. tx' \in [Operators -> TxType]
    BY <1>4, <2>1, OneTx DEF ReadPrevious
  <2> QED BY <1>4, <2>2, TypeTxOnly DEF ReadPrevious
<1>5. ASSUME NEW o \in Operators, InsertSnapshot(o) PROVE TypeOK'
  <2>1. tx[o] \in [step : {"insert", "commit"}, id : SnapshotIds, graph : Nat,
                   expected : SnapshotIds \cup {None}, previous : SnapshotIds \cup {None}]
    BY <1>5, TxFields DEF InsertSnapshot
  <2>2. [tx[o] EXCEPT !.step = "commit"] \in TxType
    BY <2>1 DEF TxType
  <2>3. tx' \in [Operators -> TxType]
    BY <1>5, <2>2, IdleType DEF InsertSnapshot, TypeOK
  <2> QED BY <1>5, <2>3, TypeTxOnly DEF InsertSnapshot
<1>6. ASSUME NEW o \in Operators, CommitActivation(o) PROVE TypeOK'
  <2>1. tx[o] \in [step : {"insert", "commit"}, id : SnapshotIds, graph : Nat,
                   expected : SnapshotIds \cup {None}, previous : SnapshotIds \cup {None}]
    BY <1>6, TxFields DEF CommitActivation
  <2>2. CASE tx' = [tx EXCEPT ![o] = Idle] /\ UNCHANGED <<snapshots, active, revision, audit>>
    BY <1>6, <2>2, IdleType DEF CommitActivation, TypeOK, registry, Stored
  <2>3. CASE /\ CasActiveSnapshot(tx[o].expected, tx[o].id)
             /\ snapshots' = [s \in Stored \cup {tx[o].id} |->
                  IF s = tx[o].id
                  THEN [graph |-> tx[o].graph, supersedes |-> tx[o].previous]
                  ELSE snapshots[s]]
             /\ audit' = audit \cup {[action |-> "activate", target |-> tx[o].id,
                                      revision |-> revision + 1,
                                      based_on |-> tx[o].expected]}
             /\ tx' = [tx EXCEPT ![o] = [step |-> "load", id |-> @.id]]
    <3>1. [step |-> "load", id |-> tx[o].id] \in TxType
      BY <2>1 DEF TxType
    <3>2. tx' \in [Operators -> TxType]
      BY <2>3, <3>1 DEF TypeOK
    <3>3. Stored' = Stored \cup {tx[o].id}
      BY <2>3 DEF Stored
    <3>4. [graph |-> tx[o].graph, supersedes |-> tx[o].previous] \in SnapshotRow
      BY <2>1 DEF SnapshotRow
    <3>5. \A s \in Stored' : snapshots'[s] \in SnapshotRow
      BY <2>3, <3>3, <3>4 DEF TypeOK
    <3>6. active' \in SnapshotIds /\ revision' \in Nat
      BY <2>1, <2>3 DEF CasActiveSnapshot, TypeOK
    <3>7. audit' \subseteq AuditRow
      BY <2>1, <2>3 DEF AuditRow, TypeOK
    <3> QED BY <1>6, <2>1, <3>2, <3>3, <3>5, <3>6, <3>7
            DEF CommitActivation, TypeOK, registry
  <2> QED BY <1>6, <2>2, <2>3 DEF CommitActivation
<1>7. ASSUME NEW o \in Operators, NEW s \in SnapshotIds, NEW expected \in SnapshotIds \cup {None},
             Rollback(o, s, expected)
      PROVE  TypeOK'
  <2>1. [step |-> "load", id |-> s] \in TxType
    BY DEF TxType
  <2>2. tx' \in [Operators -> TxType]
    BY <1>7, <2>1, OneTx DEF Rollback
  <2>3. active' \in SnapshotIds /\ revision' \in Nat
    BY <1>7 DEF Rollback, CasActiveSnapshot, TypeOK
  <2>4. audit' \subseteq AuditRow
    BY <1>7 DEF Rollback, AuditRow, TypeOK
  <2> QED BY <1>7, <2>2, <2>3, <2>4 DEF Rollback, TypeOK, registry, Stored
<1>8. ASSUME NEW o \in Operators, LoadCommitted(o) PROVE TypeOK'
  <2>1. tx[o] \in [step : {"load", "publish"}, id : SnapshotIds]
    BY <1>8, TxFields DEF LoadCommitted
  <2>2. [tx[o] EXCEPT !.step = "publish"] \in TxType
    BY <2>1 DEF TxType
  <2>3. tx' \in [Operators -> TxType]
    BY <1>8, <2>2, IdleType DEF LoadCommitted, TypeOK
  <2> QED BY <1>8, <2>3, TypeTxOnly DEF LoadCommitted
<1>9. ASSUME NEW o \in Operators, PublishActivation(o) PROVE TypeOK'
  <2>1. tx[o].id \in SnapshotIds
    BY <1>9, TxFields DEF PublishActivation
  <2>2. inbox' \in Seq(SnapshotIds)
    BY <1>9, <2>1 DEF PublishActivation, TypeOK
  <2> QED BY <1>9, <2>2, IdleType DEF PublishActivation, TypeOK, tables, Stored
<1>10. ASSUME NEW o \in Operators, LosePublication(o) PROVE TypeOK'
  BY <1>10, IdleType, ControlPlaneAssumption
  DEF LosePublication, TypeOK, tables, registry, Stored
<1>11. ASSUME NEW o \in Operators, CleanupBegin(o) PROVE TypeOK'
  <2>1. [step |-> "retired", active |-> active] \in TxType
    BY DEF TypeOK, TxType
  <2>2. tx' \in [Operators -> TxType]
    BY <1>11, <2>1, OneTx DEF CleanupBegin
  <2> QED BY <1>11, <2>2, TypeTxOnly DEF CleanupBegin
<1>12. ASSUME NEW o \in Operators, CleanupSelect(o) PROVE TypeOK'
  <2> DEFINE R == {s \in Stored \ {tx[o].active} :
                     ~ \E r \in Runs : PinnedBy(r, s) /\ InFlight(r)}
  <2>1. tx' = [tx EXCEPT ![o] = [step |-> "delete", retired |-> R]]
    BY <1>12 DEF CleanupSelect
  <2>2. R \subseteq SnapshotIds
    BY DEF TypeOK
  <2> HIDE DEF R
  <2>3. [step |-> "delete", retired |-> R] \in TxType
    BY <2>2 DEF TxType
  <2>4. tx' \in [Operators -> TxType]
    BY <2>1, <2>3, OneTx
  <2> QED BY <1>12, <2>4, TypeTxOnly DEF CleanupSelect
<1>13. ASSUME NEW o \in Operators, DeleteRetired(o) PROVE TypeOK'
  <2>1. tx' \in [Operators -> TxType]
    BY <1>13, OneTx, IdleType DEF DeleteRetired
  <2>2. Stored' \subseteq Stored /\ \A s \in Stored' : snapshots'[s] = snapshots[s]
    BY <1>13 DEF DeleteRetired, Stored
  <2>3. bindings' \in [Runs -> [snapshot : SnapshotIds, status : RunStates] \cup {NoBinding}]
    BY <1>13 DEF DeleteRetired, TypeOK
  <2> QED BY <1>13, <2>1, <2>2, <2>3 DEF DeleteRetired, TypeOK, registry
<1>14. ASSUME NEW r \in Runs, NEW status \in PinStatuses, NEW s \in SnapshotIds,
              PinRunSnapshot(r, s, status)
       PROVE  TypeOK'
  BY <1>14, ControlPlaneAssumption DEF PinRunSnapshot, TypeOK, registry, Stored, RunStates
<1>15. ASSUME NEW r \in Runs, NEW status \in PinStatuses, UpdateRunStatus(r, status)
       PROVE  TypeOK'
  <2>1. bindings[r] \in [snapshot : SnapshotIds, status : RunStates] /\ status \in RunStates
    BY <1>15, BindingRow, ControlPlaneAssumption DEF UpdateRunStatus, Bound, RunStates
  <2>2. WithStatus(r, status) \in [snapshot : SnapshotIds, status : RunStates]
    BY <2>1 DEF WithStatus
  <2> QED BY <1>15, <2>2 DEF UpdateRunStatus, TypeOK, registry, Stored
<1>16. ASSUME NEW t \in Threads, Resolve(t) PROVE TypeOK'
  <2>1. thread' \in [Threads -> [step : {"idle", "load", "store"},
                                 snapshot : SnapshotIds \cup {None}, disturbed : BOOLEAN]]
    BY <1>16 DEF Resolve, TypeOK
  <2>2. faults' \in 0 .. MaxFaults /\ listening' \in {"no", "yes", "dead"}
    BY <1>16, ControlPlaneAssumption DEF Resolve, TypeOK
  <2> QED BY <1>16, <2>1, <2>2 DEF Resolve, TypeOK, tables, Stored
<1>17. ASSUME NEW t \in Threads, LoadActiveHandlers(t) PROVE TypeOK'
  <2>1. thread' \in [Threads -> [step : {"idle", "load", "store"},
                                 snapshot : SnapshotIds \cup {None}, disturbed : BOOLEAN]]
    BY <1>17 DEF LoadActiveHandlers, TypeOK, Waiting
  <2> QED BY <1>17, <2>1 DEF LoadActiveHandlers, TypeOK, tables, Stored
<1>18. ASSUME NEW t \in Threads, StoreHandlers(t) PROVE TypeOK'
  <2>1. cache' \in [snapshot : SnapshotIds \cup {None}, fresh : BOOLEAN, raced : BOOLEAN]
    BY <1>18 DEF StoreHandlers, TypeOK
  <2>2. thread' \in [Threads -> [step : {"idle", "load", "store"},
                                 snapshot : SnapshotIds \cup {None}, disturbed : BOOLEAN]]
    BY <1>18 DEF StoreHandlers, TypeOK, Waiting
  <2> QED BY <1>18, <2>1, <2>2 DEF StoreHandlers, TypeOK, tables, Stored
<1>19. CASE Invalidate
  <2>1. cache' \in [snapshot : SnapshotIds \cup {None}, fresh : BOOLEAN, raced : BOOLEAN]
    BY <1>19 DEF Invalidate, TypeOK, EmptyCache
  <2>2. thread' \in [Threads -> [step : {"idle", "load", "store"},
                                 snapshot : SnapshotIds \cup {None}, disturbed : BOOLEAN]]
    BY ZenonT(40), <1>19 DEF Invalidate, TypeOK
  <2>3. inbox' \in Seq(SnapshotIds)
    BY <1>19 DEF Invalidate, TypeOK
  <2> QED BY <1>19, <2>1, <2>2, <2>3 DEF Invalidate, TypeOK, tables, Stored
<1>20. CASE ListenerDies
  BY <1>20, ControlPlaneAssumption DEF ListenerDies, TypeOK, tables, Stored
<1>21. CASE CacheExpires
  BY <1>21 DEF CacheExpires, TypeOK, tables, Stored
<1>22. CASE UNCHANGED vars
  BY <1>22 DEF vars, tables, registry, TypeOK, Stored
<1> QED
  BY <1>1, <1>2, <1>3, <1>4, <1>5, <1>6, <1>7, <1>8, <1>9, <1>10, <1>11, <1>12, <1>13,
     <1>14, <1>15, <1>16, <1>17, <1>18, <1>19, <1>20, <1>21, <1>22
  DEF Next, StoreStep, StoreCall, RunStep, ResolveStep

-----------------------------------------------------------------------------
(* The store *)

\* An activation that has drawn its snapshot id and not committed
Uncommitted(o) == tx[o].step \in {"previous", "insert", "commit"}

\* The number a creation has read is at most one ahead of the rows.
Numbered ==
  \A o \in Operators :
    tx[o].step = "version" => tx[o].number \in 1 .. Len(versions[tx[o].kind]) + 1

Activations == {e \in audit : e.action = "activate"}

\* The id of an open activation is its own and names nothing yet.
FreshIds ==
  /\ \A s \in Stored : s <= issued
  /\ \A e \in Activations : e.target <= issued
  /\ \A o \in Operators : Uncommitted(o) =>
       /\ tx[o].id <= issued
       /\ \A e \in Activations : e.target # tx[o].id
       /\ \A p \in Operators : Uncommitted(p) /\ tx[p].id = tx[o].id => p = o

\* Every binding, terminal ones too, names a stored snapshot that was active,
\* and the predecessor of a snapshot about to be committed is there.
References ==
  /\ ReferencesSurvive
  /\ \A r \in Runs : Bound(r) => bindings[r].snapshot \in Stored \cap Observed
  /\ \A o \in Operators : tx[o].step = "commit" => tx[o].previous \in Stored \cup {None}

StoreInv == VersionsAreNumbered /\ Numbered /\ FreshIds /\ AuditIsExact /\ References

\* Rows that only creations write leave the switches alone.
LEMMA SameAudit ==
  ASSUME audit' = audit
  PROVE  Switches' = Switches /\ Observed' = Observed /\ Activations' = Activations
  BY DEF Switches, Observed, Activations

LEMMA AuditFrame ==
  ASSUME TypeOK, AuditIsExact, UNCHANGED <<revision, active>>,
         Switches' = Switches, Activations' = Activations, Stored' \subseteq Stored
  PROVE  AuditIsExact'
<1>1. \A s : {e \in audit' : e.action = "activate" /\ e.target = s}
           = {e \in audit : e.action = "activate" /\ e.target = s}
  BY DEF Activations
<1> QED BY <1>1 DEF AuditIsExact

LEMMA FreshFrame ==
  ASSUME TypeOK, FreshIds, issued' = issued, Stored' \subseteq Stored,
         Activations' = Activations,
         \A p \in Operators : Uncommitted(p)' => Uncommitted(p) /\ tx'[p].id = tx[p].id
  PROVE  FreshIds'
  BY DEF FreshIds

\* A step that writes no row and, of the transactions, only ends some or moves
\* them to where they own nothing.
LEMMA CalmStep ==
  ASSUME TypeOK, StoreInv, UNCHANGED <<tables, issued>>,
         \A p \in Operators :
           tx'[p] = tx[p] \/ tx'[p].step \in {"idle", "publish", "retired", "delete"}
  PROVE  StoreInv'
<1>1. UNCHANGED <<versions, snapshots, active, revision, audit, bindings, issued>>
  BY DEF tables
<1>2. Stored' = Stored /\ Switches' = Switches /\ Observed' = Observed
      /\ Activations' = Activations
  BY <1>1, SameAudit DEF Stored
<1>3. VersionsAreNumbered' /\ Numbered'
  BY <1>1 DEF StoreInv, VersionsAreNumbered, Numbered
<1>4. FreshIds'
  BY <1>1, <1>2, FreshFrame DEF StoreInv, Uncommitted
<1>5. AuditIsExact'
  BY <1>1, <1>2, AuditFrame DEF StoreInv
<1>6. References'
  BY <1>1, <1>2 DEF StoreInv, References, ReferencesSurvive, Bound, InFlight
<1> QED BY <1>3, <1>4, <1>5, <1>6 DEF StoreInv

LEMMA CreateVersionStore ==
  ASSUME TypeOK, StoreInv, NEW o \in Operators, NEW k \in Kinds, CreateVersion(o, k)
  PROVE  StoreInv'
<1>1. /\ tx' = [tx EXCEPT ![o] = [step |-> "version", kind |-> k,
                                  number |-> NextVersionNumber(k)]]
      /\ UNCHANGED <<versions, snapshots, active, revision, audit, bindings, issued>>
  BY DEF CreateVersion, tables
<1>2. Stored' = Stored /\ Switches' = Switches /\ Observed' = Observed
      /\ Activations' = Activations
  BY <1>1, SameAudit DEF Stored
<1>3. /\ tx'[o].step = "version" /\ tx'[o].kind = k /\ tx'[o].number = NextVersionNumber(k)
      /\ \A p \in Operators : p # o => tx'[p] = tx[p]
  BY <1>1 DEF TypeOK
<1>4. tx'[o].number \in 1 .. Len(versions[k]) + 1
  <2>1. NextVersionNumber(k) = Len(versions[k]) + 1 /\ Len(versions[k]) \in Nat
    BY NextNumber, NumbersOf DEF StoreInv
  <2> QED BY <1>3, <2>1
<1>5. VersionsAreNumbered' /\ Numbered'
  BY <1>1, <1>3, <1>4 DEF StoreInv, VersionsAreNumbered, Numbered
<1>6. FreshIds'
  BY <1>1, <1>2, <1>3, FreshFrame DEF StoreInv, Uncommitted
<1>7. AuditIsExact'
  BY <1>1, <1>2, AuditFrame DEF StoreInv
<1>8. References'
  BY <1>1, <1>2, <1>3 DEF StoreInv, References, ReferencesSurvive, Bound, InFlight
<1> QED BY <1>5, <1>6, <1>7, <1>8 DEF StoreInv

\* The unique constraint lets a number in only when it is the next one.
LEMMA InsertVersionStore ==
  ASSUME TypeOK, StoreInv, NEW o \in Operators, InsertVersion(o)
  PROVE  StoreInv'
<1>1. /\ tx[o].step = "version" /\ tx[o].kind \in Kinds /\ tx[o].number \in Nat
      /\ UNCHANGED <<snapshots, issued, active, revision, bindings>>
  BY TxFields DEF InsertVersion
<1>2. tx'[o].step = "idle" /\ \A p \in Operators : p # o => tx'[p] = tx[p]
  BY OneTx, IdleType DEF InsertVersion
<1>3. CASE UNCHANGED <<versions, audit>>
  BY <1>1, <1>2, <1>3, CalmStep DEF tables
<1>4. CASE /\ Unused(tx[o].kind, tx[o].number)
           /\ versions' = [versions EXCEPT ![tx[o].kind] = Append(@, tx[o].number)]
           /\ audit' = audit \cup
                {[action |-> IF tx[o].kind = "graph" THEN "create_graph" ELSE "create_agent",
                  target |-> tx[o].number]}
  <2>1. PICK k \in Kinds, n \in Nat : k = tx[o].kind /\ n = tx[o].number
    BY <1>1
  <2>2. Numbers(k) = 1 .. Len(versions[k]) /\ Len(versions[k]) \in Nat
    BY NumbersOf DEF StoreInv
  <2>3. n \in 1 .. Len(versions[k]) + 1
    BY <1>1, <2>1 DEF StoreInv, Numbered
  <2>4. n = Len(versions[k]) + 1
    BY <1>4, <2>1, <2>2, <2>3 DEF Unused
  <2>5. versions' = [versions EXCEPT ![k] = Append(versions[k], n)]
    BY <1>4, <2>1
  <2>6. versions \in [Kinds -> Seq(Nat)]
    BY DEF TypeOK
  <2>7. \A j \in Kinds : j # k => versions'[j] = versions[j]
    BY <2>5, <2>6
  <2>8. versions'[k] = Append(versions[k], n) /\ versions[k] \in Seq(Nat)
    BY <2>5, <2>6
  <2>9. /\ Len(versions'[k]) = Len(versions[k]) + 1
        /\ \A i \in DOMAIN versions'[k] : versions'[k][i] = i
    BY <2>2, <2>4, <2>8 DEF StoreInv, VersionsAreNumbered
  <2>10. VersionsAreNumbered'
    BY <2>7, <2>9 DEF StoreInv, VersionsAreNumbered
  <2>11. Numbered'
    <3> SUFFICES ASSUME NEW p \in Operators, tx'[p].step = "version"
                 PROVE  tx'[p].number \in 1 .. Len(versions'[tx'[p].kind]) + 1
      BY DEF Numbered
    <3>1. p # o /\ tx'[p] = tx[p]
      BY <1>2
    <3>2. tx[p].kind \in Kinds /\ tx[p].number \in Nat
      BY <3>1, TxFields
    <3>3. tx[p].number \in 1 .. Len(versions[tx[p].kind]) + 1
      BY <3>1 DEF StoreInv, Numbered
    <3>4. CASE tx[p].kind = k
      BY <2>2, <2>9, <3>1, <3>2, <3>3, <3>4
    <3>5. CASE tx[p].kind # k
      BY <2>7, <3>1, <3>2, <3>3, <3>5
    <3> QED BY <3>4, <3>5
  <2>12. Switches' = Switches /\ Activations' = Activations /\ Stored' = Stored
    BY <1>1, <1>4 DEF Switches, Activations, Stored
  <2>13. Observed' = Observed
    BY <2>12 DEF Observed
  <2>14. FreshIds'
    BY <1>1, <1>2, <2>12, FreshFrame DEF StoreInv, Uncommitted
  <2>15. AuditIsExact'
    BY <1>1, <2>12, AuditFrame DEF StoreInv
  <2>16. References'
    BY <1>1, <1>2, <2>12, <2>13 DEF StoreInv, References, ReferencesSurvive, Bound, InFlight
  <2> QED BY <2>10, <2>11, <2>14, <2>15, <2>16 DEF StoreInv
<1> QED BY <1>3, <1>4 DEF InsertVersion

LEMMA ActivateStore ==
  ASSUME TypeOK, StoreInv, NEW o \in Operators, NEW g, NEW m, NEW override, NEW expected,
         Activate(o, g, m, override, expected)
  PROVE  StoreInv'
<1>1. /\ tx' = [tx EXCEPT ![o] = [step |-> "previous", id |-> issued + 1, graph |-> g,
                                  expected |-> expected]]
      /\ issued' = issued + 1 /\ issued \in Nat
      /\ UNCHANGED <<versions, snapshots, active, revision, audit, bindings>>
  BY ControlPlaneAssumption DEF Activate, tables, TypeOK
<1>2. Stored' = Stored /\ Switches' = Switches /\ Observed' = Observed
      /\ Activations' = Activations
  BY <1>1, SameAudit DEF Stored
<1>3. /\ tx'[o].step = "previous" /\ tx'[o].id = issued + 1
      /\ \A p \in Operators : p # o => tx'[p] = tx[p]
  BY <1>1 DEF TypeOK
<1>4. VersionsAreNumbered' /\ Numbered'
  BY <1>1, <1>3 DEF StoreInv, VersionsAreNumbered, Numbered
<1>5. FreshIds'
  <2>1. Stored \subseteq Nat /\ \A e \in Activations : e.target \in Nat
    BY DEF TypeOK, Activations, AuditRow, SnapshotIds
  <2>2. (\A s \in Stored : s <= issued + 1) /\ \A e \in Activations : e.target < issued + 1
    BY <1>1, <2>1 DEF StoreInv, FreshIds
  <2>3. \A p \in Operators : p # o /\ Uncommitted(p) => tx[p].id \in Nat /\ tx[p].id < issued + 1
    <3> SUFFICES ASSUME NEW p \in Operators, Uncommitted(p)
                 PROVE  tx[p].id \in Nat /\ tx[p].id < issued + 1
      OBVIOUS
    <3>1. tx[p].id \in SnapshotIds
      BY TxFields DEF Uncommitted
    <3> QED BY <1>1, <3>1 DEF SnapshotIds, StoreInv, FreshIds
  <2>4. \A p \in Operators : p # o => (Uncommitted(p)' <=> Uncommitted(p))
    BY <1>3 DEF Uncommitted
  <2>5. ASSUME NEW p \in Operators, Uncommitted(p)'
        PROVE  /\ tx'[p].id <= issued + 1
               /\ \A e \in Activations : e.target # tx'[p].id
               /\ \A q \in Operators : Uncommitted(q)' /\ tx'[q].id = tx'[p].id => q = p
    <3>1. CASE p = o
      BY <1>1, <1>3, <2>1, <2>2, <2>3, <2>4, <3>1
    <3>2. CASE p # o
      BY <1>1, <1>3, <2>3, <2>4, <2>5, <3>2 DEF StoreInv, FreshIds
    <3> QED BY <3>1, <3>2
  <2> QED BY <1>1, <1>2, <2>2, <2>5, <2>1 DEF FreshIds
<1>6. AuditIsExact'
  BY <1>1, <1>2, AuditFrame DEF StoreInv
<1>7. References'
  BY <1>1, <1>2, <1>3 DEF StoreInv, References, ReferencesSurvive, Bound, InFlight
<1> QED BY <1>4, <1>5, <1>6, <1>7 DEF StoreInv

LEMMA OpenStore ==
  ASSUME TypeOK, StoreInv, NEW o \in Operators, ReadPrevious(o) \/ InsertSnapshot(o)
  PROVE  StoreInv'
<1>1. UNCHANGED <<versions, snapshots, active, revision, audit, bindings, issued>>
  BY DEF ReadPrevious, InsertSnapshot, tables
<1>2. Stored' = Stored /\ Switches' = Switches /\ Observed' = Observed
      /\ Activations' = Activations
  BY <1>1, SameAudit DEF Stored
<1>3. \A p \in Operators : p # o => tx'[p] = tx[p]
  BY DEF ReadPrevious, InsertSnapshot, TypeOK
<1>4. /\ Uncommitted(o) /\ tx'[o].step \in {"insert", "commit", "idle"}
      /\ tx'[o].step # "idle" => tx'[o].id = tx[o].id
      /\ tx'[o].step = "commit" => tx'[o].previous \in Stored \cup {None}
  <2>1. CASE ReadPrevious(o)
    BY <2>1 DEF ReadPrevious, Uncommitted, TypeOK
  <2>2. CASE InsertSnapshot(o)
    <3>1. tx[o] \in [step : {"insert", "commit"}, id : SnapshotIds, graph : Nat,
                     expected : SnapshotIds \cup {None}, previous : SnapshotIds \cup {None}]
      BY <2>2, TxFields DEF InsertSnapshot
    <3>2. tx'[o] = IF tx[o].previous \in Stored \cup {None}
                   THEN [tx[o] EXCEPT !.step = "commit"] ELSE Idle
      BY <2>2 DEF InsertSnapshot, TypeOK
    <3>3. /\ [tx[o] EXCEPT !.step = "commit"].step = "commit"
          /\ [tx[o] EXCEPT !.step = "commit"].id = tx[o].id
          /\ [tx[o] EXCEPT !.step = "commit"].previous = tx[o].previous
      BY <3>1
    <3> QED BY <2>2, <3>2, <3>3, IdleType DEF InsertSnapshot, Uncommitted
  <2> QED BY <2>1, <2>2
<1>5. VersionsAreNumbered' /\ Numbered'
  BY <1>1, <1>3, <1>4 DEF StoreInv, VersionsAreNumbered, Numbered
<1>6. FreshIds'
  <2>1. \A p \in Operators : Uncommitted(p)' => Uncommitted(p) /\ tx'[p].id = tx[p].id
    BY <1>3, <1>4 DEF Uncommitted
  <2> QED BY <1>1, <1>2, <2>1, FreshFrame DEF StoreInv
<1>7. AuditIsExact'
  BY <1>1, <1>2, AuditFrame DEF StoreInv
<1>8. References'
  BY <1>1, <1>2, <1>3, <1>4 DEF StoreInv, References, ReferencesSurvive, Bound, InFlight
<1> QED BY <1>5, <1>6, <1>7, <1>8 DEF StoreInv

\* A commit of the compare-and-set adds the one event of the next revision.
LEMMA SwitchAudit ==
  ASSUME TypeOK, AuditIsExact,
         NEW action \in {"activate", "rollback"}, NEW s \in SnapshotIds,
         NEW expected, active = expected, active' = s, revision' = revision + 1,
         audit' = audit \cup {[action |-> action, target |-> s, revision |-> revision + 1,
                               based_on |-> expected]},
         action = "rollback" => Stored' \subseteq Stored,
         action = "activate" =>
           Stored' \subseteq Stored \cup {s} /\ \A e \in Activations : e.target # s
  PROVE  /\ AuditIsExact'
         /\ Switches' = Switches \cup {[action |-> action, target |-> s,
                                        revision |-> revision + 1, based_on |-> expected]}
         /\ Observed' = Observed \cup {s}
<1>1. PICK new : new = [action |-> action, target |-> s, revision |-> revision + 1,
                        based_on |-> expected]
  OBVIOUS
<1>2. /\ new.action = action /\ new.target = s /\ new.revision = revision + 1
      /\ new.based_on = expected /\ audit' = audit \cup {new}
  BY <1>1
<1>3. Switches' = Switches \cup {new}
  BY <1>2 DEF Switches
<1>4. Observed' = Observed \cup {s}
  BY <1>2, <1>3 DEF Observed
<1>5. revision \in Nat
  BY DEF TypeOK
<1>6. \A e \in Switches : e.revision \in 1 .. revision
  BY DEF AuditIsExact
<1>7. \A n \in 1 .. revision + 1 : Cardinality({e \in Switches' : e.revision = n}) = 1
  <2> TAKE n \in 1 .. revision + 1
  <2>1. CASE n = revision + 1
    <3>1. {e \in Switches' : e.revision = n} = {new}
      BY <1>2, <1>3, <1>5, <1>6, <2>1
    <3> QED BY <3>1, FS_Singleton
  <2>2. CASE n \in 1 .. revision
    <3>1. {e \in Switches' : e.revision = n} = {e \in Switches : e.revision = n}
      BY <1>2, <1>3, <1>5, <2>2
    <3> QED BY <2>2, <3>1 DEF AuditIsExact
  <2> QED BY <1>5, <2>1, <2>2
<1>8. \A e \in Switches' : e.revision \in 1 .. revision + 1
  BY <1>2, <1>3, <1>5, <1>6
<1>9. \A e \in Switches' : e.revision = revision + 1 => e.target = s
  BY <1>2, <1>3, <1>5, <1>6
<1>10. \A e, f \in Switches' : f.revision = e.revision + 1 => f.based_on = e.target
  <2> SUFFICES ASSUME NEW e \in Switches', NEW f \in Switches', f.revision = e.revision + 1
               PROVE  f.based_on = e.target
    OBVIOUS
  <2>1. CASE e = new
    BY <1>2, <1>5, <1>8, <2>1
  <2>2. CASE e # new /\ f = new
    <3>1. e \in Switches /\ e.revision = revision
      BY <1>2, <1>3, <1>5, <1>6, <2>2
    <3> QED BY <1>2, <2>2, <3>1 DEF AuditIsExact
  <2>3. CASE e # new /\ f # new
    BY <1>3, <2>3 DEF AuditIsExact
  <2> QED BY <2>1, <2>2, <2>3
<1>11. \A u \in Stored' :
         Cardinality({e \in audit' : e.action = "activate" /\ e.target = u}) = 1
  <2> TAKE u \in Stored'
  <2>1. CASE action = "activate" /\ u = s
    <3>1. {e \in audit' : e.action = "activate" /\ e.target = u} = {new}
      BY <1>2, <2>1 DEF Activations
    <3> QED BY <3>1, FS_Singleton
  <2>2. CASE ~ (action = "activate" /\ u = s)
    <3>1. u \in Stored
      BY <2>2
    <3>2. {e \in audit' : e.action = "activate" /\ e.target = u}
          = {e \in audit : e.action = "activate" /\ e.target = u}
      BY <1>2, <2>2
    <3> QED BY <3>1, <3>2 DEF AuditIsExact
  <2> QED BY <2>1, <2>2
<1>12. AuditIsExact'
  BY <1>7, <1>8, <1>9, <1>10, <1>11 DEF AuditIsExact
<1> QED BY <1>1, <1>3, <1>4, <1>12

LEMMA CommitStore ==
  ASSUME TypeOK, StoreInv, NEW o \in Operators, CommitActivation(o)
  PROVE  StoreInv'
<1>1. /\ tx[o].step = "commit" /\ UNCHANGED <<versions, issued, bindings>>
      /\ tx[o].id \in SnapshotIds
  BY TxFields DEF CommitActivation
<1>2. CASE tx' = [tx EXCEPT ![o] = Idle] /\ UNCHANGED <<snapshots, active, revision, audit>>
  BY <1>1, <1>2, OneTx, IdleType, CalmStep DEF tables
<1>3. CASE /\ CasActiveSnapshot(tx[o].expected, tx[o].id)
           /\ snapshots' = [s \in Stored \cup {tx[o].id} |->
                IF s = tx[o].id
                THEN [graph |-> tx[o].graph, supersedes |-> tx[o].previous]
                ELSE snapshots[s]]
           /\ audit' = audit \cup {[action |-> "activate", target |-> tx[o].id,
                                    revision |-> revision + 1,
                                    based_on |-> tx[o].expected]}
           /\ tx' = [tx EXCEPT ![o] = [step |-> "load", id |-> @.id]]
  <2>0. PICK expected : expected = tx[o].expected
    OBVIOUS
  <2>1. PICK id \in SnapshotIds : id = tx[o].id
    BY <1>1
  <2>2. Uncommitted(o) /\ tx[o].previous \in Stored \cup {None}
    BY <1>1 DEF Uncommitted, StoreInv, References
  <2>3. id <= issued /\ \A e \in Activations : e.target # id
    BY <2>0, <2>1, <2>2 DEF StoreInv, FreshIds
  <2>4. /\ Stored' = Stored \cup {id}
        /\ snapshots'[id].supersedes = tx[o].previous
        /\ \A s \in Stored : s # id => snapshots'[s] = snapshots[s]
    BY <1>3, <2>0, <2>1 DEF Stored
  <2>5. tx'[o].step = "load" /\ \A p \in Operators : p # o => tx'[p] = tx[p]
    BY <1>3 DEF TypeOK
  <2>6. active = expected /\ active' = id /\ revision' = revision + 1
    BY <1>3, <2>0, <2>1 DEF CasActiveSnapshot
  <2>7. audit' = audit \cup {[action |-> "activate", target |-> id, revision |-> revision + 1,
                              based_on |-> expected]}
    BY <1>3, <2>0, <2>1
  <2>8. AuditIsExact' /\ Observed' = Observed \cup {id}
    BY <2>3, <2>4, <2>6, <2>7, SwitchAudit DEF StoreInv
  <2>9. VersionsAreNumbered' /\ Numbered'
    BY <1>1, <2>5 DEF StoreInv, VersionsAreNumbered, Numbered
  <2>10. \A e \in Activations' : e \in Activations \/ e.target = id
    BY <2>7 DEF Activations
  <2>11. FreshIds'
    <3>1. \A p \in Operators : Uncommitted(p)' => p # o /\ Uncommitted(p) /\ tx'[p] = tx[p]
      BY <2>5 DEF Uncommitted
    <3>2. \A p \in Operators : p # o /\ Uncommitted(p) => tx[p].id # id
      BY <2>0, <2>1, <2>2 DEF StoreInv, FreshIds
    <3> QED BY <1>1, <2>3, <2>4, <2>10, <3>1, <3>2 DEF StoreInv, FreshIds
  <2>12. References'
    <3>1. ReferencesSurvive'
      BY <1>1, <2>2, <2>4, <2>6 DEF StoreInv, References, ReferencesSurvive, InFlight
    <3>2. (\A r \in Runs : Bound(r) => bindings[r].snapshot \in Stored \cap Observed)'
      BY <1>1, <2>4, <2>8 DEF StoreInv, References, Bound
    <3>3. (\A p \in Operators : tx[p].step = "commit" => tx[p].previous \in Stored \cup {None})'
      BY <2>4, <2>5 DEF StoreInv, References
    <3> QED BY <3>1, <3>2, <3>3 DEF References
  <2> QED BY <2>8, <2>9, <2>11, <2>12 DEF StoreInv
<1> QED BY <1>2, <1>3 DEF CommitActivation

LEMMA RollbackStore ==
  ASSUME TypeOK, StoreInv, NEW o \in Operators, NEW s \in SnapshotIds, NEW expected,
         Rollback(o, s, expected)
  PROVE  StoreInv'
<1>1. /\ s \in Stored /\ UNCHANGED <<versions, snapshots, issued, bindings>>
      /\ Stored' = Stored
  BY DEF Rollback, Stored
<1>2. active = expected /\ active' = s /\ revision' = revision + 1
  BY DEF Rollback, CasActiveSnapshot
<1>3. audit' = audit \cup {[action |-> "rollback", target |-> s, revision |-> revision + 1,
                            based_on |-> expected]}
  BY DEF Rollback
<1>4. tx'[o].step = "load" /\ \A p \in Operators : p # o => tx'[p] = tx[p]
  BY DEF Rollback, TypeOK
<1>5. AuditIsExact' /\ Observed' = Observed \cup {s}
  BY <1>1, <1>2, <1>3, SwitchAudit DEF StoreInv
<1>6. Activations' = Activations
  BY <1>3 DEF Activations
<1>7. VersionsAreNumbered' /\ Numbered'
  BY <1>1, <1>4 DEF StoreInv, VersionsAreNumbered, Numbered
<1>8. FreshIds'
  BY <1>1, <1>4, <1>6, FreshFrame DEF StoreInv, Uncommitted
<1>9. References'
  BY <1>1, <1>2, <1>4, <1>5 DEF StoreInv, References, ReferencesSurvive, Bound, InFlight
<1> QED BY <1>5, <1>7, <1>8, <1>9 DEF StoreInv

\* The foreign keys keep what a cleanup with stale reads would have removed.
LEMMA DeleteStore ==
  ASSUME TypeOK, StoreInv, NEW o \in Operators, DeleteRetired(o)
  PROVE  StoreInv'
<1>1. UNCHANGED <<versions, active, revision, audit, issued>>
  BY DEF DeleteRetired
<1>2. tx'[o].step = "idle" /\ \A p \in Operators : p # o => tx'[p] = tx[p]
  BY OneTx, IdleType DEF DeleteRetired
<1>3. CASE UNCHANGED <<snapshots, bindings>>
  BY <1>1, <1>2, <1>3, CalmStep DEF tables
<1>4. CASE /\ \A s \in tx[o].retired \cap Stored : ~ ReferencedBy(s, tx[o].retired)
           /\ snapshots' = [s \in Stored \ tx[o].retired |-> snapshots[s]]
           /\ bindings' = [r \in Runs |->
                IF bindings[r].snapshot \in tx[o].retired /\ ~ InFlight(r)
                THEN NoBinding ELSE bindings[r]]
  <2>1. PICK R : R = tx[o].retired
    OBVIOUS
  <2>2. Stored' = Stored \ R /\ \A s \in Stored' : snapshots'[s] = snapshots[s]
    BY <1>4, <2>1 DEF Stored
  <2>3. \A s \in R \cap Stored :
          /\ active # s
          /\ \A r \in Runs : ~ (PinnedBy(r, s) /\ InFlight(r))
          /\ \A t \in Stored \ R : snapshots[t].supersedes # s
    BY <1>4, <2>1 DEF ReferencedBy, HeldByRun
  <2>4. \A s \in R : ~ Locked(s)
    BY <2>1 DEF DeleteRetired
  <2>5. Observed' = Observed /\ Switches' = Switches /\ Activations' = Activations
    BY <1>1, SameAudit
  <2>6. ASSUME NEW r \in Runs
        PROVE  \/ bindings'[r] = NoBinding
               \/ bindings'[r] = bindings[r] /\ (bindings[r].snapshot \in R => InFlight(r))
    BY <1>4, <2>1
  <2>7. ASSUME NEW r \in Runs, bindings'[r] # NoBinding
        PROVE  bindings'[r] = bindings[r] /\ bindings[r].snapshot \in (Stored \ R) \cap Observed
    <3>1. bindings'[r] = bindings[r] /\ (bindings[r].snapshot \in R => InFlight(r))
      BY <2>6, <2>7
    <3>2. bindings[r].snapshot \in Stored \cap Observed
      BY <2>7, <3>1 DEF StoreInv, References, Bound
    <3> QED BY <2>3, <3>1, <3>2 DEF PinnedBy
  <2>8. ReferencesSurvive'
    <3>1. active' \in Stored' \cup {None}
      BY <1>1, <2>2, <2>3 DEF StoreInv, References, ReferencesSurvive
    <3>2. (\A r \in Runs : InFlight(r) => bindings[r].snapshot \in Stored)'
      <4> SUFFICES ASSUME NEW r \in Runs, bindings'[r].status \in NON_TERMINAL_RUN_STATES
                   PROVE  bindings'[r].snapshot \in Stored'
        BY DEF InFlight
      <4>1. bindings'[r] # NoBinding
        BY DEF NoBinding, NON_TERMINAL_RUN_STATES
      <4> QED BY <2>2, <2>7, <4>1
    <3>3. \A s \in Stored' : snapshots'[s].supersedes \in Stored' \cup {None}
      BY <2>2, <2>3 DEF StoreInv, References, ReferencesSurvive
    <3> QED BY <3>1, <3>2, <3>3 DEF ReferencesSurvive
  <2>9. (\A r \in Runs : Bound(r) => bindings[r].snapshot \in Stored \cap Observed)'
    BY <2>2, <2>5, <2>7 DEF Bound
  <2>10. (\A p \in Operators : tx[p].step = "commit" => tx[p].previous \in Stored \cup {None})'
    BY <1>2, <2>2, <2>4 DEF StoreInv, References, Locked
  <2>11. VersionsAreNumbered' /\ Numbered'
    BY <1>1, <1>2 DEF StoreInv, VersionsAreNumbered, Numbered
  <2>12. FreshIds'
    BY <1>1, <1>2, <2>2, <2>5, FreshFrame DEF StoreInv, Uncommitted
  <2>13. AuditIsExact'
    BY <1>1, <2>2, <2>5, AuditFrame DEF StoreInv
  <2> QED BY <2>8, <2>9, <2>10, <2>11, <2>12, <2>13 DEF StoreInv, References
<1> QED BY <1>3, <1>4 DEF DeleteRetired

LEMMA BindingStore ==
  ASSUME TypeOK, StoreInv, NEW r \in Runs, NEW status \in PinStatuses,
         \/ \E s \in SnapshotIds : PinRunSnapshot(r, s, status)
         \/ UpdateRunStatus(r, status)
  PROVE  StoreInv'
<1>1. UNCHANGED <<versions, snapshots, active, revision, audit, issued, tx>>
  BY DEF PinRunSnapshot, UpdateRunStatus
<1>2. Stored' = Stored /\ Switches' = Switches /\ Observed' = Observed
      /\ Activations' = Activations
  BY <1>1, SameAudit DEF Stored
<1>3. (\A q \in Runs : q # r => bindings'[q] = bindings[q])
      /\ bindings'[r].snapshot \in Stored \cap Observed
  <2>1. CASE \E s \in SnapshotIds : PinRunSnapshot(r, s, status)
    BY <2>1 DEF PinRunSnapshot, TypeOK
  <2>2. CASE UpdateRunStatus(r, status)
    <3>1. bindings[r] \in [snapshot : SnapshotIds, status : RunStates]
      BY <2>2, BindingRow DEF UpdateRunStatus, Bound
    <3>2. WithStatus(r, status).snapshot = bindings[r].snapshot
      BY <3>1 DEF WithStatus
    <3> QED BY <2>2, <3>2 DEF UpdateRunStatus, TypeOK, StoreInv, References
  <2> QED BY <2>1, <2>2
<1>4. VersionsAreNumbered' /\ Numbered'
  BY <1>1 DEF StoreInv, VersionsAreNumbered, Numbered
<1>5. FreshIds'
  BY <1>1, <1>2, FreshFrame DEF StoreInv, Uncommitted
<1>6. AuditIsExact'
  BY <1>1, <1>2, AuditFrame DEF StoreInv
<1>7. References'
  BY <1>1, <1>2, <1>3 DEF StoreInv, References, ReferencesSurvive, Bound, InFlight
<1> QED BY <1>4, <1>5, <1>6, <1>7 DEF StoreInv

\* No step of any operator, run, thread or listener breaks the store.
LEMMA StoreInvStep ==
  ASSUME TypeOK, StoreInv, [Next]_vars
  PROVE  StoreInv'
<1>1. ASSUME NEW o \in Operators,
             LoadCommitted(o) \/ PublishActivation(o) \/ LosePublication(o)
             \/ CleanupBegin(o) \/ CleanupSelect(o)
      PROVE  StoreInv'
  <2>1. UNCHANGED <<tables, issued>> /\ \A p \in Operators : p # o => tx'[p] = tx[p]
    BY <1>1 DEF LoadCommitted, PublishActivation, LosePublication, CleanupBegin,
                CleanupSelect, TypeOK
  <2>2. CASE LoadCommitted(o)
    <3>1. tx[o] \in [step : {"load", "publish"}, id : SnapshotIds]
      BY <2>2, TxFields DEF LoadCommitted
    <3>2. [tx[o] EXCEPT !.step = "publish"].step = "publish"
      BY <3>1
    <3>3. tx'[o].step \in {"idle", "publish"}
      BY <2>2, <3>2, IdleType DEF LoadCommitted, TypeOK
    <3> QED BY <2>1, <3>3, CalmStep
  <2>3. CASE PublishActivation(o) \/ LosePublication(o) \/ CleanupBegin(o) \/ CleanupSelect(o)
    <3>1. tx'[o].step \in {"idle", "retired", "delete"}
      BY <2>3, IdleType
      DEF PublishActivation, LosePublication, CleanupBegin, CleanupSelect, TypeOK
    <3> QED BY <2>1, <3>1, CalmStep
  <2> QED BY <1>1, <2>2, <2>3
<1>2. CASE (\E t \in Threads : ResolveStep(t)) \/ Invalidate \/ ListenerDies \/ CacheExpires
  BY <1>2, CalmStep
  DEF ResolveStep, Resolve, LoadActiveHandlers, StoreHandlers, Invalidate, ListenerDies,
      CacheExpires
<1>3. CASE UNCHANGED vars
  BY <1>3, CalmStep DEF vars
<1> QED
  BY <1>1, <1>2, <1>3, CreateVersionStore, InsertVersionStore, ActivateStore, OpenStore,
     CommitStore, RollbackStore, DeleteStore, BindingStore
  DEF Next, StoreStep, StoreCall, RunStep

-----------------------------------------------------------------------------
(* The cache of the replica *)

\* A message that names the active snapshot is in the inbox or will be sent.
ActiveAnnounced ==
  \/ \E o \in Operators : tx[o].step \in {"load", "publish"} /\ tx[o].id = active
  \/ \E i \in DOMAIN inbox : inbox[i] = active

\* Until a message is lost: whoever holds another snapshot than the active one,
\* in the cache or about to be stored there, has an announcement ahead of it.
Coherence ==
  faults = 0 =>
    /\ listening # "dead"
    /\ listening = "no" =>
         cache.snapshot = None /\ inbox = << >> /\ \A t \in Threads : thread[t].step = "idle"
    /\ cache.snapshot \notin {None, active} /\ ~ cache.raced => ActiveAnnounced
    /\ \A t \in Threads :
         thread[t].step = "store" /\ ~ thread[t].disturbed /\ thread[t].snapshot # active
           => ActiveAnnounced

LEMMA CoherenceFrame ==
  ASSUME Coherence, UNCHANGED <<cache, thread, listening, inbox>>, faults' = 0 => faults = 0,
         \/ ActiveAnnounced'
         \/ active' = active /\ (ActiveAnnounced => ActiveAnnounced')
  PROVE  Coherence'
  BY DEF Coherence

\* The announcement of a snapshot that is still active is neither dropped by
\* _load_snapshot nor by the publication.
LEMMA CoherenceOperator ==
  ASSUME TypeOK, StoreInv, Coherence, NEW o \in Operators, StoreStep(o) \/ StoreCall(o)
  PROVE  Coherence'
<1>1. ASSUME InsertVersion(o) \/ ReadPrevious(o) \/ InsertSnapshot(o)
             \/ CleanupSelect(o) \/ DeleteRetired(o) \/ CleanupBegin(o)
             \/ (\E k \in Kinds : CreateVersion(o, k))
             \/ (\E g \in 1 .. MaxVersions["graph"], m \in Metrics, override \in BOOLEAN,
                    expected \in SnapshotIds \cup {None} : Activate(o, g, m, override, expected))
      PROVE  Coherence'
  <2>1. /\ UNCHANGED <<cache, thread, listening, inbox, faults, active>>
        /\ tx[o].step \notin {"load", "publish"}
        /\ \A p \in Operators : p # o => tx'[p] = tx[p]
    BY <1>1, IdleType
    DEF InsertVersion, ReadPrevious, InsertSnapshot, CleanupSelect, DeleteRetired,
        CleanupBegin, CreateVersion, Activate, registry, tables, TypeOK
  <2>2. ActiveAnnounced => ActiveAnnounced'
    BY <2>1 DEF ActiveAnnounced
  <2> QED BY <2>1, <2>2, CoherenceFrame
<1>2. ASSUME CommitActivation(o) PROVE Coherence'
  <2>1. UNCHANGED <<cache, thread, listening, inbox, faults>> /\ tx[o].step = "commit"
    BY <1>2 DEF CommitActivation, registry
  <2>2. CASE tx' = [tx EXCEPT ![o] = Idle] /\ UNCHANGED active
    <3>1. ActiveAnnounced => ActiveAnnounced'
      BY <2>1, <2>2, OneTx DEF ActiveAnnounced
    <3> QED BY <2>1, <2>2, <3>1, CoherenceFrame
  <2>3. CASE active' = tx[o].id /\ tx' = [tx EXCEPT ![o] = [step |-> "load", id |-> @.id]]
    <3>1. tx'[o].step = "load" /\ tx'[o].id = active'
      BY <2>3 DEF TypeOK
    <3>2. ActiveAnnounced'
      BY <3>1 DEF ActiveAnnounced
    <3> QED BY <2>1, <3>2, CoherenceFrame
  <2> QED BY <1>2, <2>2, <2>3 DEF CommitActivation, CasActiveSnapshot
<1>3. ASSUME NEW s \in SnapshotIds, NEW expected \in SnapshotIds \cup {None},
             Rollback(o, s, expected)
      PROVE  Coherence'
  <2>1. tx'[o].step = "load" /\ tx'[o].id = active'
    BY <1>3 DEF Rollback, CasActiveSnapshot, TypeOK
  <2>2. ActiveAnnounced'
    BY <2>1 DEF ActiveAnnounced
  <2> QED BY <1>3, <2>2, CoherenceFrame DEF Rollback, registry
<1>4. ASSUME LoadCommitted(o) PROVE Coherence'
  <2>1. /\ UNCHANGED <<cache, thread, listening, inbox, faults, active>>
        /\ \A p \in Operators : p # o => tx'[p] = tx[p]
        /\ tx'[o] = IF tx[o].id \in Stored THEN [tx[o] EXCEPT !.step = "publish"] ELSE Idle
    BY <1>4 DEF LoadCommitted, registry, tables, TypeOK
  <2>2. tx[o] \in [step : {"load", "publish"}, id : SnapshotIds]
    BY <1>4, TxFields DEF LoadCommitted
  <2>3. /\ [tx[o] EXCEPT !.step = "publish"].id = tx[o].id
        /\ [tx[o] EXCEPT !.step = "publish"].step = "publish"
    BY <2>2
  <2>4. tx[o].id = active => tx[o].id \in Stored
    BY <2>2, NoneIsNoId DEF StoreInv, References, ReferencesSurvive
  <2>5. ActiveAnnounced => ActiveAnnounced'
    BY <2>1, <2>3, <2>4 DEF ActiveAnnounced
  <2> QED BY <2>1, <2>5, CoherenceFrame
<1>5. ASSUME PublishActivation(o) PROVE Coherence'
  <2>1. /\ UNCHANGED <<cache, thread, listening, faults, active>>
        /\ \A p \in Operators : p # o => tx'[p] = tx[p]
        /\ inbox' = IF listening = "yes" THEN Append(inbox, tx[o].id) ELSE inbox
        /\ inbox \in Seq(SnapshotIds) /\ tx[o].id \in SnapshotIds
        /\ listening \in {"no", "yes", "dead"}
    BY <1>5, TxFields DEF PublishActivation, tables, TypeOK
  <2>2. CASE listening = "yes"
    <3>1. inbox' = Append(inbox, tx[o].id)
      BY <2>1, <2>2
    <3>2. /\ \A i \in DOMAIN inbox : i \in DOMAIN inbox' /\ inbox'[i] = inbox[i]
          /\ Len(inbox) + 1 \in DOMAIN inbox' /\ inbox'[Len(inbox) + 1] = tx[o].id
      BY <2>1, <3>1
    <3>3. ActiveAnnounced => ActiveAnnounced'
      BY <2>1, <3>2 DEF ActiveAnnounced
    <3> QED BY <2>1, <2>2, <3>3 DEF Coherence
  <2>3. CASE listening = "no"
    BY <2>1, <2>3 DEF Coherence
  <2>4. CASE listening = "dead"
    BY <2>1, <2>4 DEF Coherence
  <2> QED BY <2>1, <2>2, <2>3, <2>4
<1>6. ASSUME LosePublication(o) PROVE Coherence'
  <2>1. faults' # 0
    BY <1>6 DEF LosePublication, TypeOK
  <2> QED BY <2>1 DEF Coherence
<1> QED BY <1>1, <1>2, <1>3, <1>4, <1>5, <1>6 DEF StoreStep, StoreCall

LEMMA CoherenceStep ==
  ASSUME TypeOK, StoreInv, Coherence, [Next]_vars
  PROVE  Coherence'
<1>1. CASE RunStep
  <2>1. UNCHANGED <<cache, thread, listening, inbox, faults, active, tx>>
    BY <1>1 DEF RunStep, PinRunSnapshot, UpdateRunStatus, registry
  <2> QED BY <2>1, CoherenceFrame DEF ActiveAnnounced
<1>2. ASSUME NEW t \in Threads, Resolve(t) PROVE Coherence'
  <2>1. /\ UNCHANGED <<active, tx, cache, inbox>>
        /\ faults' = 0 => faults = 0 /\ listening' # "no"
                          /\ (listening # "dead" => listening' # "dead")
    BY <1>2 DEF Resolve, tables, TypeOK
  <2>2. ActiveAnnounced' <=> ActiveAnnounced
    BY <2>1 DEF ActiveAnnounced
  <2>3. \A u \in Threads : thread'[u].step = "store" => thread'[u] = thread[u]
    BY <1>2 DEF Resolve, TypeOK
  <2> QED BY <2>1, <2>2, <2>3 DEF Coherence
<1>3. ASSUME NEW t \in Threads, LoadActiveHandlers(t) PROVE Coherence'
  <2>1. /\ UNCHANGED <<active, tx, cache, listening, inbox, faults>>
        /\ \A u \in Threads : u # t => thread'[u] = thread[u]
        /\ thread[t].step = "load"
        /\ thread'[t].step = "store" => thread'[t].snapshot = active
    BY <1>3 DEF LoadActiveHandlers, tables, TypeOK, Waiting
  <2>2. ActiveAnnounced' <=> ActiveAnnounced
    BY <2>1 DEF ActiveAnnounced
  <2> QED BY <2>1, <2>2 DEF Coherence
<1>4. ASSUME NEW t \in Threads, StoreHandlers(t) PROVE Coherence'
  <2>1. /\ UNCHANGED <<active, tx, listening, inbox, faults>>
        /\ \A u \in Threads : u # t => thread'[u] = thread[u]
        /\ thread[t].step = "store" /\ thread'[t].step = "idle"
        /\ cache'.snapshot = thread[t].snapshot /\ cache'.raced = thread[t].disturbed
    BY <1>4 DEF StoreHandlers, tables, TypeOK, Waiting
  <2>2. ActiveAnnounced' <=> ActiveAnnounced
    BY <2>1 DEF ActiveAnnounced
  <2> QED BY <2>1, <2>2 DEF Coherence
<1>5. CASE Invalidate
  <2>1. UNCHANGED <<active, tx, listening, faults>> /\ inbox # << >> /\ inbox' = Tail(inbox)
        /\ inbox \in Seq(SnapshotIds)
    BY <1>5 DEF Invalidate, tables, TypeOK
  <2>2. \A u \in Threads :
          /\ thread'[u].step = thread[u].step
          /\ thread'[u].step = "store" => thread'[u].disturbed
    BY <1>5 DEF Invalidate, TypeOK
  <2>3. \/ cache'.snapshot = None
        \/ UNCHANGED cache /\ Head(inbox) = cache.snapshot
    BY <1>5 DEF Invalidate, KeepsEntry, EmptyCache
  <2>4. Head(inbox) # active /\ ActiveAnnounced => ActiveAnnounced'
    <3> SUFFICES ASSUME Head(inbox) # active, NEW i \in DOMAIN inbox, inbox[i] = active
                 PROVE  \E j \in DOMAIN inbox' : inbox'[j] = active
      BY <2>1 DEF ActiveAnnounced
    <3>1. i # 1 /\ i - 1 \in DOMAIN inbox' /\ inbox'[i - 1] = inbox[i]
      BY <2>1
    <3> QED BY <3>1
  <2> QED BY <2>1, <2>2, <2>3, <2>4 DEF Coherence
<1>6. CASE ListenerDies
  <2>1. faults' # 0
    BY <1>6 DEF ListenerDies, TypeOK
  <2> QED BY <2>1 DEF Coherence
<1>7. CASE CacheExpires
  <2>1. UNCHANGED <<active, tx, thread, listening, inbox, faults>>
        /\ cache'.snapshot = cache.snapshot /\ cache'.raced = cache.raced
    BY <1>7 DEF CacheExpires, tables, TypeOK
  <2>2. ActiveAnnounced' <=> ActiveAnnounced
    BY <2>1 DEF ActiveAnnounced
  <2> QED BY <2>1, <2>2 DEF Coherence
<1>8. CASE UNCHANGED vars
  BY <1>8, CoherenceFrame DEF vars, tables, registry, ActiveAnnounced
<1> QED
  BY <1>1, <1>2, <1>3, <1>4, <1>5, <1>6, <1>7, <1>8, CoherenceOperator DEF Next, ResolveStep

-----------------------------------------------------------------------------
(* The theorems *)

\* The inductive invariant
Inv == TypeOK /\ StoreInv /\ Coherence

LEMMA InitInv == ASSUME Init PROVE Inv
<1> USE DEF Init
<1>1. /\ Stored = {} /\ Switches = {} /\ Activations = {} /\ revision = 0
      /\ \A o \in Operators : tx[o].step = "idle"
      /\ \A r \in Runs : bindings[r] = NoBinding
  BY IdleType DEF Stored, Switches, Activations
<1>2. TypeOK
  <2>1. versions \in [Kinds -> Seq(Nat)] /\ inbox \in Seq(SnapshotIds)
    OBVIOUS
  <2>2. cache \in [snapshot : SnapshotIds \cup {None}, fresh : BOOLEAN, raced : BOOLEAN]
    BY DEF EmptyCache
  <2>3. thread \in [Threads -> [step : {"idle", "load", "store"},
                                snapshot : SnapshotIds \cup {None}, disturbed : BOOLEAN]]
    BY DEF Waiting
  <2> QED BY <1>1, <2>1, <2>2, <2>3, IdleType, ControlPlaneAssumption DEF TypeOK
<1>3. VersionsAreNumbered /\ Numbered /\ FreshIds
  BY <1>1 DEF VersionsAreNumbered, Numbered, FreshIds, Uncommitted
<1>4. AuditIsExact
  BY <1>1 DEF AuditIsExact
<1>5. References
  BY <1>1 DEF References, ReferencesSurvive, Bound, InFlight, NoBinding,
              NON_TERMINAL_RUN_STATES
<1>6. Coherence
  BY DEF Coherence, EmptyCache, Waiting
<1> QED BY <1>2, <1>3, <1>4, <1>5, <1>6 DEF Inv, StoreInv

LEMMA NextInv == Inv /\ [Next]_vars => Inv'
  BY TypeStep, StoreInvStep, CoherenceStep DEF Inv, StoreInv

LEMMA InvHolds == Spec => []Inv
  BY InitInv, NextInv, PTL DEF Spec

\* For every number of operators and calls of PostgresControlPlaneStore: version
\* numbers have no gap, and the audit log holds exactly the winners of the
\* compare-and-set on the active snapshot, each based on the one before.
THEOREM StoreCorrect == Spec => []StoreInvariant
<1>1. Inv => StoreInvariant
  BY DEF Inv, StoreInv, StoreInvariant
<1> QED BY <1>1, InvHolds, PTL

\* cleanup_retired_snapshots never removes what the pointer, a run in flight or
\* another snapshot refers to, however stale its reads are.
THEOREM CleanupKeepsReferences == Spec => []ReferencesSurvive
<1>1. Inv => ReferencesSurvive
  BY DEF Inv, StoreInv, References
<1> QED BY <1>1, InvHolds, PTL

\* Once every publication was received the handler registry of a replica with
\* any number of threads serves the active snapshot or reloads, unless a message
\* was lost or a thread stored what it had loaded before.
THEOREM RegistryCoherent == Spec => []CoherentWhenQuiet
<1>1. Inv => CoherentWhenQuiet
  BY DEF Inv, Coherence, CoherentWhenQuiet, Quiet, Serves, CacheStale, ActiveAnnounced
<1> QED BY <1>1, InvHolds, PTL

-----------------------------------------------------------------------------
(* The refinement *)

LEMMA HistoryInit == Init => History!Init
  BY DEF Init, History!Init, Trail, Switches, Pinned, InFlight, NoBinding,
         NON_TERMINAL_RUN_STATES

\* A step that keeps the pointer, the events of switches and what the runs in
\* flight are pinned to stutters.
LEMMA HistoryStutter ==
  ASSUME UNCHANGED <<active, revision>>, Switches' = Switches, Pinned' = Pinned
  PROVE  UNCHANGED History!vars
  BY DEF History!vars, Trail

LEMMA SamePins == ASSUME UNCHANGED bindings PROVE Pinned' = Pinned
  BY DEF Pinned, InFlight

LEMMA HistorySwitch ==
  ASSUME TypeOK, StoreInv, NEW action \in {"activate", "rollback"}, NEW s \in SnapshotIds,
         NEW expected, active' = s, revision' = revision + 1, UNCHANGED bindings,
         audit' = audit \cup {[action |-> action, target |-> s, revision |-> revision + 1,
                               based_on |-> expected]}
  PROVE  History!Next
<1>1. PICK new : new = [action |-> action, target |-> s, revision |-> revision + 1,
                        based_on |-> expected]
  OBVIOUS
<1>2. Switches' = Switches \cup {new} /\ new.target = s /\ new.revision = revision + 1
  BY <1>1 DEF Switches
<1>3. Trail' = Trail \cup {<<revision + 1, s>>}
  BY <1>2 DEF Trail
<1>4. Pinned' = Pinned
  BY SamePins
<1>5. History!Switch(s)
  BY <1>3, <1>4 DEF History!Switch
<1> QED BY <1>5 DEF History!Next

LEMMA ObservedInTrail ==
  ASSUME TypeOK, StoreInv, NEW s \in Observed
  PROVE  \E n \in 1 .. revision : <<n, s>> \in Trail
<1>1. PICK e \in Switches : e.target = s
  BY DEF Observed
<1>2. e.revision \in 1 .. revision
  BY <1>1 DEF StoreInv, AuditIsExact
<1>3. <<e.revision, s>> \in Trail
  BY <1>1 DEF Trail
<1> QED BY <1>2, <1>3

\* A binding that changes at one run maps to a pin, a release or a stutter.
LEMMA HistoryBinding ==
  ASSUME TypeOK, StoreInv, NEW r \in Runs, NEW row, row.snapshot \in SnapshotIds \cap Observed,
         bindings' = [bindings EXCEPT ![r] = row],
         UNCHANGED <<active, revision, audit>>
  PROVE  [History!Next]_(History!vars)
<1>1. bindings'[r] = row /\ \A q \in Runs : q # r => bindings'[q] = bindings[q]
  BY DEF TypeOK
<1>2. PICK s \in SnapshotIds \cap Observed : s = row.snapshot
  OBVIOUS
<1>3. Switches' = Switches /\ Trail' = Trail
  BY DEF Switches, Trail
<1> DEFINE busy == row.status \in NON_TERMINAL_RUN_STATES
<1>4. /\ Pinned' = [Pinned EXCEPT ![r] = IF busy THEN s ELSE None]
      /\ Pinned[r] = IF InFlight(r) THEN bindings[r].snapshot ELSE None
  <2>1. /\ \A q \in Runs : q # r => (InFlight(q)' <=> InFlight(q))
        /\ InFlight(r)' <=> busy
    BY <1>1 DEF InFlight
  <2>2. /\ Pinned' = [q \in Runs |-> IF InFlight(q)' THEN bindings'[q].snapshot ELSE None]
        /\ Pinned = [q \in Runs |-> IF InFlight(q) THEN bindings[q].snapshot ELSE None]
    BY DEF Pinned
  <2> HIDE DEF busy
  <2>3. \A q \in Runs : Pinned'[q] = IF q # r THEN Pinned[q] ELSE IF busy THEN s ELSE None
    BY <1>1, <1>2, <2>1, <2>2
  <2> QED BY <2>2, <2>3
<1>5. CASE busy
  <2>1. \E n \in 1 .. revision : <<n, s>> \in Trail
    BY ObservedInTrail
  <2>2. History!Pin(r, s)
    BY <1>3, <1>4, <1>5, <2>1 DEF History!Pin
  <2> QED BY <2>2 DEF History!Next
<1>6. CASE ~ busy /\ ~ InFlight(r)
  <2>1. Pinned' = Pinned
    BY <1>4, <1>6 DEF Pinned
  <2> QED BY <1>3, <2>1, HistoryStutter
<1>7. CASE ~ busy /\ InFlight(r)
  <2>1. bindings[r] # NoBinding
    BY <1>7 DEF InFlight, NoBinding, NON_TERMINAL_RUN_STATES
  <2>2. bindings[r].snapshot # None
    BY <2>1, NoneIsNoId DEF TypeOK
  <2>3. History!Release(r)
    BY <1>3, <1>4, <1>7, <2>2 DEF History!Release
  <2> QED BY <2>3 DEF History!Next
<1> QED BY <1>5, <1>6, <1>7

LEMMA HistoryStep == Inv /\ [Next]_vars => [History!Next]_(History!vars)
<1> SUFFICES ASSUME TypeOK, StoreInv, [Next]_vars
             PROVE  [History!Next]_(History!vars)
  BY DEF Inv
<1>1. ASSUME UNCHANGED tables PROVE [History!Next]_(History!vars)
  BY <1>1, SameAudit, SamePins, HistoryStutter DEF tables
<1>2. ASSUME NEW o \in Operators, InsertVersion(o) PROVE [History!Next]_(History!vars)
  <2>1. Switches' = Switches
    BY <1>2 DEF InsertVersion, Switches
  <2> QED BY <1>2, <2>1, SamePins, HistoryStutter DEF InsertVersion
<1>3. ASSUME NEW o \in Operators, CommitActivation(o) PROVE [History!Next]_(History!vars)
  <2>0. PICK expected : expected = tx[o].expected
    OBVIOUS
  <2>1. PICK id \in SnapshotIds : id = tx[o].id
    BY <1>3, TxFields DEF CommitActivation
  <2>2. CASE UNCHANGED <<active, revision, audit>>
    BY <1>3, <2>2, SameAudit, SamePins, HistoryStutter DEF CommitActivation
  <2>3. CASE /\ active' = id /\ revision' = revision + 1
             /\ audit' = audit \cup {[action |-> "activate", target |-> id,
                                      revision |-> revision + 1, based_on |-> expected]}
    BY <1>3, <2>3, HistorySwitch DEF CommitActivation
  <2> QED BY <1>3, <2>0, <2>1, <2>2, <2>3 DEF CommitActivation, CasActiveSnapshot
<1>4. ASSUME NEW o \in Operators, NEW s \in SnapshotIds, NEW expected, Rollback(o, s, expected)
      PROVE  [History!Next]_(History!vars)
  BY <1>4, HistorySwitch DEF Rollback, CasActiveSnapshot
<1>5. ASSUME NEW o \in Operators, DeleteRetired(o) PROVE [History!Next]_(History!vars)
  <2>1. UNCHANGED <<active, revision, audit>>
    BY <1>5 DEF DeleteRetired
  <2>2. \A r \in Runs : InFlight(r) => bindings'[r] = bindings[r]
    BY <1>5 DEF DeleteRetired
  <2>3. \A r \in Runs : ~ InFlight(r) => bindings'[r] = bindings[r] \/ bindings'[r] = NoBinding
    BY <1>5 DEF DeleteRetired
  <2>4. \A r \in Runs : InFlight(r)' <=> InFlight(r)
    BY <2>2, <2>3 DEF InFlight, NoBinding, NON_TERMINAL_RUN_STATES
  <2>5. Pinned' = Pinned
    BY <2>2, <2>4 DEF Pinned
  <2> QED BY <2>1, <2>5, SameAudit, HistoryStutter
<1>6. ASSUME NEW r \in Runs, NEW s \in SnapshotIds, NEW status, PinRunSnapshot(r, s, status)
      PROVE  [History!Next]_(History!vars)
  <2>1. PICK row : row = [snapshot |-> s, status |-> status]
    OBVIOUS
  <2>2. row.snapshot = s /\ s \in Observed /\ bindings' = [bindings EXCEPT ![r] = row]
        /\ UNCHANGED <<active, revision, audit>>
    BY <1>6, <2>1 DEF PinRunSnapshot
  <2> QED BY <2>2, HistoryBinding
<1>7. ASSUME NEW r \in Runs, NEW status \in PinStatuses, UpdateRunStatus(r, status)
      PROVE  [History!Next]_(History!vars)
  <2>1. bindings[r] \in [snapshot : SnapshotIds, status : RunStates]
    BY <1>7, BindingRow DEF UpdateRunStatus, Bound
  <2>2. PICK row : row = WithStatus(r, status)
    OBVIOUS
  <2>3. row.snapshot = bindings[r].snapshot
    BY <2>1, <2>2 DEF WithStatus
  <2>4. row.snapshot \in SnapshotIds \cap Observed
    BY <1>7, <2>1, <2>3 DEF UpdateRunStatus, StoreInv, References
  <2> QED BY <1>7, <2>2, <2>4, HistoryBinding DEF UpdateRunStatus
<1>8. ASSUME NEW o \in Operators,
             ReadPrevious(o) \/ InsertSnapshot(o) \/ LoadCommitted(o) \/ PublishActivation(o)
             \/ CleanupSelect(o) \/ CleanupBegin(o) \/ LosePublication(o)
             \/ (\E k \in Kinds : CreateVersion(o, k))
             \/ (\E g \in 1 .. MaxVersions["graph"], m \in Metrics, override \in BOOLEAN,
                    expected \in SnapshotIds \cup {None} : Activate(o, g, m, override, expected))
      PROVE  UNCHANGED tables
  BY <1>8 DEF ReadPrevious, InsertSnapshot, LoadCommitted, PublishActivation, CleanupSelect,
              CleanupBegin, LosePublication, CreateVersion, Activate
<1>9. ASSUME (\E t \in Threads : ResolveStep(t)) \/ Invalidate \/ ListenerDies \/ CacheExpires
             \/ UNCHANGED vars
      PROVE  UNCHANGED tables
  BY <1>9 DEF ResolveStep, Resolve, LoadActiveHandlers, StoreHandlers, Invalidate,
              ListenerDies, CacheExpires, vars
<1> QED
  BY <1>1, <1>2, <1>3, <1>4, <1>5, <1>6, <1>7, <1>8, <1>9
  DEF Next, StoreStep, StoreCall, RunStep

\* The tables behave as one pointer with its history: each commit of activate or
\* rollback moves it by one audited step, and pin_run_snapshot and
\* update_run_status leave a run in flight pinned to a snapshot out of that
\* history, be it another one than before.
THEOREM StoreImplementsHistory == Spec => ImplementsHistory
<1>1. Spec => History!Init /\ [][History!Next]_(History!vars)
  BY InvHolds, HistoryInit, HistoryStep, PTL DEF Spec
<1> QED BY <1>1 DEF ImplementsHistory, History!Spec
=============================================================================
