------------------------ MODULE ComplianceAdminProofs ------------------------
(* Proofs about ComplianceAdmin, for every number of officers, erasures,     *)
(* rows, policies, concurrent retention runs and agreements.                 *)
EXTENDS ComplianceAdmin, TLAPS

Events == DOMAIN ErasureEvents
People == Officers \cup {"nobody"}
EventRow ==
  [status: {"none", "pending", "pending_second_approval", "approved", "completed"},
   first: People, second: People]
Approval == [step: {"approve"}, event: Events, row: EventRow]
Execution == [step: {"execute", "cascaded"}, event: Events, fresh: SUBSET DataRows]

ErasureTyped ==
  /\ rlsBypassed \in BOOLEAN
  /\ event \in [Events -> EventRow]
  /\ officer \in [Officers -> Approval \cup Execution \cup {NoRequest}]

\* Approvers on a row, or in a request that has read it, have asked for it, and
\* two of them differ before it says approved.
Consented(e, row) ==
  /\ row.first # "nobody" => row.first \in Officers /\ <<e, row.first>> \in consents
  /\ row.status = "approved" =>
       /\ row.first # "nobody" /\ row.second \in Officers
       /\ row.first # row.second /\ <<e, row.second>> \in consents

TwoConsents(e) ==
  \E p, q \in Officers : p # q /\ {<<e, p>>, <<e, q>>} \subseteq consents

TenantRows(e) ==
  {r \in rows : r.tenant = ErasureEvents[e] /\ r.table \in TenantTables}

ApprovalOk(o) ==
  officer[o].step = "approve" => Consented(officer[o].event, officer[o].row)

ExecutionOk(o) ==
  officer[o].step \in {"execute", "cascaded"} =>
    /\ TwoConsents(officer[o].event)
    /\ officer[o].step = "cascaded" /\ rlsBypassed =>
         TenantRows(officer[o].event) \subseteq officer[o].fresh

Erasure ==
  /\ \A e \in Events : Consented(e, event[e])
  /\ \A o \in Officers : ApprovalOk(o) /\ ExecutionOk(o)

ErasureInv == ErasureTyped /\ Erasure

LEMMA RequestFields ==
  ASSUME ErasureTyped, NEW o \in Officers
  PROVE  /\ officer[o] = NoRequest => officer[o].step = "idle"
         /\ officer[o].step = "approve" =>
              /\ officer[o] \in Approval /\ officer[o].event \in Events
              /\ officer[o].row \in EventRow
         /\ officer[o].step \in {"execute", "cascaded"} =>
              /\ officer[o] \in Execution /\ officer[o].event \in Events
              /\ officer[o].fresh \subseteq DataRows
<1>1. officer[o] \in Approval \cup Execution \cup {NoRequest}
  BY DEF ErasureTyped
<1>2. CASE officer[o] \in Approval
  <2>1. officer[o].step = "approve"
    BY <1>2 DEF Approval
  <2>2. officer[o] # NoRequest
    BY <2>1 DEF NoRequest
  <2> QED BY <1>2, <2>1, <2>2 DEF Approval
<1>3. CASE officer[o] \in Execution
  <2>1. officer[o].step \in {"execute", "cascaded"}
    BY <1>3 DEF Execution
  <2>2. officer[o] # NoRequest
    BY <2>1 DEF NoRequest
  <2> QED BY <1>3, <2>1, <2>2 DEF Execution
<1>4. CASE officer[o] = NoRequest
  BY <1>4 DEF NoRequest
<1> QED BY <1>1, <1>2, <1>3, <1>4

LEMMA InitErasure == ComplianceInit => ErasureInv
<1> SUFFICES ASSUME ComplianceInit PROVE ErasureInv
  OBVIOUS
<1>1. NoEvent \in EventRow /\ NoEvent.first = "nobody" /\ NoEvent.status = "none"
  BY DEF NoEvent, EventRow, People
<1>2. ErasureTyped
  BY <1>1 DEF ComplianceInit, ErasureTyped, Events
<1>3. \A e \in Events : event[e] = NoEvent
  BY DEF ComplianceInit, Events
<1>4. \A o \in Officers : officer[o].step = "idle"
  BY DEF ComplianceInit, NoRequest
<1> QED
  BY <1>1, <1>2, <1>3, <1>4
  DEF ErasureInv, Erasure, Consented, ApprovalOk, ExecutionOk

\* Consents are never withdrawn.
LEMMA ConsentsGrow ==
  ASSUME NEW e, NEW row, consents \subseteq consents'
  PROVE  /\ Consented(e, row) =>
              /\ row.first # "nobody" =>
                   row.first \in Officers /\ <<e, row.first>> \in consents'
              /\ row.status = "approved" =>
                   /\ row.first # "nobody" /\ row.second \in Officers
                   /\ row.first # row.second /\ <<e, row.second>> \in consents'
         /\ TwoConsents(e) =>
              \E p, q \in Officers : p # q /\ {<<e, p>>, <<e, q>>} \subseteq consents'
  BY DEF Consented, TwoConsents

\* A request that a step of somebody else leaves alone.
LEMMA RequestFrame ==
  ASSUME ErasureTyped, NEW o \in Officers, ApprovalOk(o), ExecutionOk(o),
         officer'[o] = officer[o], consents \subseteq consents',
         rlsBypassed' = rlsBypassed, rows' \subseteq rows
  PROVE  ApprovalOk(o)' /\ ExecutionOk(o)'
<1>1. PICK q : q = officer[o]
  OBVIOUS
<1>2. officer'[o] = q
  BY <1>1
<1>3. ApprovalOk(o)'
  <2>1. CASE q.step # "approve"
    BY <1>2, <2>1 DEF ApprovalOk
  <2>2. CASE q.step = "approve"
    <3>1. Consented(q.event, q.row)' 
      BY <1>1, <2>2, ConsentsGrow DEF ApprovalOk, Consented
    <3> QED BY <1>1, <1>2, <2>2, <3>1 DEF ApprovalOk
  <2> QED BY <2>1, <2>2
<1>4. ExecutionOk(o)'
  <2>1. CASE q.step \notin {"execute", "cascaded"}
    BY <1>2, <2>1 DEF ExecutionOk
  <2>2. CASE q.step \in {"execute", "cascaded"}
    <3>1. TwoConsents(q.event)'
      <4>1. TwoConsents(q.event)
        BY <1>1, <2>2 DEF ExecutionOk
      <4> QED BY <4>1 DEF TwoConsents
    <3>2. TenantRows(q.event)' \subseteq TenantRows(q.event)
      BY DEF TenantRows
    <3> QED BY <1>1, <1>2, <2>2, <3>1, <3>2 DEF ExecutionOk
  <2> QED BY <2>1, <2>2
<1> QED BY <1>3, <1>4

\* A request that has ended, or has not begun.
LEMMA NoRequestOk ==
  ASSUME NEW o, officer'[o] = NoRequest PROVE ApprovalOk(o)' /\ ExecutionOk(o)'
  BY DEF NoRequest, ApprovalOk, ExecutionOk

LEMMA EventFrame ==
  ASSUME Erasure, NEW e \in Events, event'[e] = event[e], consents \subseteq consents'
  PROVE  Consented(e, event[e])'
<1>1. PICK row : row = event[e] /\ Consented(e, row)
  BY DEF Erasure
<1>2. Consented(e, row)'
  BY <1>1, ConsentsGrow DEF Consented
<1> QED BY <1>1, <1>2 DEF Consented

LEMMA RequestKeeps ==
  ASSUME ErasureInv, NEW e \in Events, RequestErasure(e) PROVE ErasureInv'
<1>1. /\ event[e] = NoEvent /\ event' = [event EXCEPT ![e].status = "pending"]
      /\ UNCHANGED <<rlsBypassed, rows, officer, consents>>
  BY DEF RequestErasure, dataVars
<1>2. /\ event' \in [Events -> EventRow]
      /\ event'[e].status = "pending" /\ event'[e].first = event[e].first
      /\ \A f \in Events : f # e => event'[f] = event[f]
  BY <1>1 DEF ErasureInv, ErasureTyped, EventRow
<1>3. event'[e].first = "nobody"
  BY <1>1, <1>2 DEF NoEvent
<1>4. ErasureTyped'
  BY <1>1, <1>2 DEF ErasureInv, ErasureTyped
<1>5. ASSUME NEW f \in Events PROVE Consented(f, event[f])'
  <2>1. CASE f = e
    BY <1>2, <1>3, <2>1 DEF Consented
  <2>2. CASE f # e
    BY <1>1, <1>2, <2>2, EventFrame DEF ErasureInv
  <2> QED BY <2>1, <2>2
<1>6. ASSUME NEW o \in Officers PROVE ApprovalOk(o)' /\ ExecutionOk(o)'
  BY <1>1, RequestFrame DEF ErasureInv, Erasure
<1> QED BY <1>4, <1>5, <1>6 DEF ErasureInv, Erasure

\* The part of every step of officer o on a request of o's own.
LEMMA OfficerFrame ==
  ASSUME ErasureInv, NEW o \in Officers, NEW q,
         q \in Approval \cup Execution \cup {NoRequest},
         officer' = [officer EXCEPT ![o] = q],
         ApprovalOk(o)', ExecutionOk(o)',
         consents \subseteq consents', rlsBypassed' = rlsBypassed,
         rows' \subseteq rows, event' \in [Events -> EventRow],
         \A e \in Events : Consented(e, event[e])'
  PROVE  ErasureInv'
<1>1. ErasureTyped'
  BY DEF ErasureInv, ErasureTyped
<1>2. ASSUME NEW p \in Officers PROVE ApprovalOk(p)' /\ ExecutionOk(p)'
  <2>1. CASE p = o
    BY <2>1
  <2>2. CASE p # o
    <3>1. officer'[p] = officer[p]
      BY <2>2 DEF ErasureInv, ErasureTyped
    <3> QED BY <2>2, <3>1, RequestFrame DEF ErasureInv, Erasure
  <2> QED BY <2>1, <2>2
<1> QED BY <1>1, <1>2 DEF ErasureInv, Erasure

LEMMA SameEvents ==
  ASSUME ErasureInv, UNCHANGED event, consents \subseteq consents'
  PROVE  /\ event' \in [Events -> EventRow]
         /\ \A e \in Events : Consented(e, event[e])'
  BY EventFrame DEF ErasureInv, ErasureTyped

LEMMA ConsentReadKeeps ==
  ASSUME ErasureInv, NEW o \in Officers, NEW e \in Events, ConsentReads(o, e)
  PROVE  ErasureInv'
<1>1. PICK row, q :
        /\ row = IF event[e].first = "nobody"
                 THEN [status |-> "pending_second_approval", first |-> o, second |-> "nobody"]
                 ELSE [status |-> "approved", first |-> event[e].first, second |-> o]
        /\ q = [step |-> "approve", event |-> e, row |-> row]
        /\ officer' = [officer EXCEPT ![o] = q]
        /\ event[e].first # o
        /\ consents' = consents \cup {<<e, o>>}
        /\ UNCHANGED <<rlsBypassed, rows, event>>
  BY DEF ConsentReads, MayConsent, dataVars
<1>2. o # "nobody" /\ event[e].first \in People /\ o \in People /\ "nobody" \in People
  BY ComplianceAssumption DEF ErasureInv, ErasureTyped, EventRow, People
<1>3. /\ row \in EventRow
      /\ row.first # "nobody" /\ row.first \in {o, event[e].first}
      /\ row.status = "approved" => row.second = o /\ row.first # o
  <2>1. CASE event[e].first = "nobody"
    BY <1>1, <1>2, <2>1 DEF EventRow
  <2>2. CASE event[e].first # "nobody"
    BY <1>1, <1>2, <2>2 DEF EventRow
  <2> QED BY <2>1, <2>2
<1>4. Consented(e, row)'
  <2>1. event[e].first # "nobody" =>
          event[e].first \in Officers /\ <<e, event[e].first>> \in consents
    BY DEF ErasureInv, Erasure, Consented
  <2>2. <<e, o>> \in consents' /\ consents \subseteq consents'
    BY <1>1
  <2> QED BY <1>3, <2>1, <2>2 DEF Consented
<1>5. q \in Approval /\ q.step = "approve" /\ q.event = e /\ q.row = row
  BY <1>1, <1>3 DEF Approval
<1>6. officer'[o] = q
  BY <1>1 DEF ErasureInv, ErasureTyped
<1>7. ApprovalOk(o)' /\ ExecutionOk(o)'
  BY <1>1, <1>3, <1>4, <1>5, <1>6 DEF ApprovalOk, ExecutionOk
<1>8. consents \subseteq consents' /\ UNCHANGED <<rlsBypassed, rows, event>>
  BY <1>1
<1> QED BY <1>1, <1>5, <1>7, <1>8, SameEvents, OfficerFrame

LEMMA ConsentWriteKeeps ==
  ASSUME ErasureInv, NEW o \in Officers, ConsentWrites(o) PROVE ErasureInv'
<1>1. /\ officer[o].step = "approve"
      /\ event' = [event EXCEPT ![officer[o].event] = officer[o].row]
      /\ officer' = [officer EXCEPT ![o] = NoRequest]
      /\ UNCHANGED <<rlsBypassed, rows, consents>>
  BY DEF ConsentWrites, dataVars
<1>2. PICK e \in Events, row \in EventRow : e = officer[o].event /\ row = officer[o].row
  BY <1>1, RequestFields DEF ErasureInv
<1>3. Consented(e, row)
  BY <1>1, <1>2 DEF ErasureInv, Erasure, ApprovalOk
<1>4. /\ event' \in [Events -> EventRow] /\ event'[e] = row
      /\ \A f \in Events : f # e => event'[f] = event[f]
  BY <1>1, <1>2 DEF ErasureInv, ErasureTyped
<1>5. ASSUME NEW f \in Events PROVE Consented(f, event[f])'
  <2>1. CASE f = e
    BY <1>1, <1>3, <1>4, <2>1 DEF Consented
  <2>2. CASE f # e
    BY <1>1, <1>4, <2>2, EventFrame DEF ErasureInv
  <2> QED BY <2>1, <2>2
<1>6. officer'[o] = NoRequest
  BY <1>1 DEF ErasureInv, ErasureTyped
<1>7. ApprovalOk(o)' /\ ExecutionOk(o)'
  BY <1>6, NoRequestOk
<1>8. UNCHANGED <<rlsBypassed, rows, consents>>
  BY <1>1
<1> QED BY <1>1, <1>4, <1>5, <1>7, <1>8, OfficerFrame

LEMMA ExecuteReadKeeps ==
  ASSUME ErasureInv, NEW o \in Officers, NEW e \in Events, ExecuteReads(o, e)
  PROVE  ErasureInv'
<1>1. PICK q :
        /\ q = [step |-> "execute", event |-> e, fresh |-> {}]
        /\ officer' = [officer EXCEPT ![o] = q] /\ event[e].status = "approved"
        /\ UNCHANGED <<rlsBypassed, rows, event, consents>>
  BY DEF ExecuteReads, MayExecute, dataVars
<1>2. q \in Execution /\ q.step = "execute" /\ q.event = e
  BY <1>1 DEF Execution
<1>3. officer'[o] = q
  BY <1>1 DEF ErasureInv, ErasureTyped
<1>4. TwoConsents(e)
  <2>1. /\ event[e].first # "nobody" /\ event[e].second \in Officers
        /\ event[e].first # event[e].second /\ event[e].first \in Officers
        /\ <<e, event[e].first>> \in consents /\ <<e, event[e].second>> \in consents
    BY <1>1 DEF ErasureInv, Erasure, Consented
  <2> QED BY <2>1 DEF TwoConsents
<1>5. ApprovalOk(o)' /\ ExecutionOk(o)'
  BY <1>1, <1>2, <1>3, <1>4 DEF ApprovalOk, ExecutionOk, TwoConsents
<1>6. UNCHANGED <<rlsBypassed, rows, event, consents>>
  BY <1>1
<1> QED BY <1>1, <1>2, <1>5, <1>6, SameEvents, OfficerFrame

LEMMA CascadeEffect ==
  ASSUME ErasureInv, NEW o \in Officers, Cascade(o)
  PROVE  \E e \in Events, q \in Execution \cup {NoRequest} :
           /\ officer[o].step = "execute" /\ e = officer[o].event
           /\ officer' = [officer EXCEPT ![o] = q] /\ officer'[o] = q
           /\ \/ /\ q \in Execution /\ q.step = "cascaded" /\ q.event = e
                 /\ rows' = rows \ CascadeRows(ErasureEvents[e])
                 /\ DeleteAllowed(ErasureEvents[e])
              \/ q = NoRequest /\ UNCHANGED rows
           /\ UNCHANGED <<rlsBypassed, pinned, policies, event, consents, day>>
<1>1. PICK e \in Events : e = officer[o].event
  BY RequestFields DEF ErasureInv, Cascade
<1>2. /\ officer[o].step = "execute" /\ officer[o] \in Execution
      /\ UNCHANGED <<rlsBypassed, pinned, policies, event, consents, day>>
  BY RequestFields DEF ErasureInv, Cascade, sweepVars
<1>3. CASE DeleteAllowed(ErasureEvents[e])
  <2>1. /\ rows' = rows \ CascadeRows(ErasureEvents[e])
        /\ officer' = [officer EXCEPT ![o].step = "cascaded"]
    BY <1>1, <1>3 DEF Cascade
  <2>2. PICK q : q = [officer[o] EXCEPT !.step = "cascaded"]
    OBVIOUS
  <2>3. q \in Execution /\ q.step = "cascaded" /\ q.event = e
    BY <1>1, <1>2, <2>2 DEF Execution
  <2>4. officer' = [officer EXCEPT ![o] = q] /\ officer'[o] = q
    BY <2>1, <2>2 DEF ErasureInv, ErasureTyped
  <2> WITNESS e \in Events, q \in Execution \cup {NoRequest}
  <2> QED BY <1>1, <1>2, <1>3, <2>1, <2>3, <2>4
<1>4. CASE ~ DeleteAllowed(ErasureEvents[e])
  <2>1. UNCHANGED rows /\ officer' = [officer EXCEPT ![o] = NoRequest]
    BY <1>1, <1>4 DEF Cascade
  <2>2. officer'[o] = NoRequest
    BY <2>1 DEF ErasureInv, ErasureTyped
  <2> QED BY <1>1, <1>2, <2>1, <2>2
<1> QED BY <1>3, <1>4

LEMMA CascadeKeeps ==
  ASSUME ErasureInv, NEW o \in Officers, Cascade(o) PROVE ErasureInv'
<1>1. PICK e \in Events, q \in Execution \cup {NoRequest} :
           /\ officer[o].step = "execute" /\ e = officer[o].event
           /\ officer' = [officer EXCEPT ![o] = q] /\ officer'[o] = q
           /\ \/ /\ q \in Execution /\ q.step = "cascaded" /\ q.event = e
                 /\ rows' = rows \ CascadeRows(ErasureEvents[e])
                 /\ DeleteAllowed(ErasureEvents[e])
              \/ q = NoRequest /\ UNCHANGED rows
           /\ UNCHANGED <<rlsBypassed, pinned, policies, event, consents, day>>
  BY CascadeEffect
<1>2. CASE q = NoRequest
  BY <1>1, <1>2, NoRequestOk, SameEvents, OfficerFrame
<1>3. CASE q # NoRequest
  <2>1. /\ q \in Execution /\ q.step = "cascaded" /\ q.event = e
        /\ rows' = rows \ CascadeRows(ErasureEvents[e])
        /\ UNCHANGED <<rlsBypassed, event, consents>>
    BY <1>1, <1>3
  <2>2. rlsBypassed => TenantRows(e)' = {}
    BY <2>1 DEF TenantRows, CascadeRows, TenantTables, Visible
  <2>3. TwoConsents(e)'
    <3>1. ExecutionOk(o) /\ consents' = consents
      BY <2>1 DEF ErasureInv, Erasure
    <3>2. TwoConsents(e)
      BY <1>1, <3>1 DEF ExecutionOk
    <3> QED BY <3>1, <3>2 DEF TwoConsents
  <2>4. ApprovalOk(o)' /\ ExecutionOk(o)'
    BY <1>1, <2>1, <2>2, <2>3 DEF ApprovalOk, ExecutionOk
  <2>5. rows' \subseteq rows
    BY <2>1
  <2> QED BY <1>1, <2>1, <2>4, <2>5, SameEvents, OfficerFrame
<1> QED BY <1>2, <1>3

LEMMA CompleteKeeps ==
  ASSUME ErasureInv, NEW o \in Officers, ExecuteCompletes(o) PROVE ErasureInv'
<1>1. /\ officer[o].step = "cascaded"
      /\ event' = [event EXCEPT ![officer[o].event].status = "completed"]
      /\ officer' = [officer EXCEPT ![o] = NoRequest]
      /\ UNCHANGED <<rlsBypassed, rows, consents>>
  BY DEF ExecuteCompletes, dataVars
<1>2. PICK e \in Events : e = officer[o].event
  BY <1>1, RequestFields DEF ErasureInv
<1>3. /\ event' \in [Events -> EventRow]
      /\ event'[e].status = "completed" /\ event'[e].first = event[e].first
      /\ \A f \in Events : f # e => event'[f] = event[f]
  BY <1>1, <1>2 DEF ErasureInv, ErasureTyped, EventRow
<1>4. ASSUME NEW f \in Events PROVE Consented(f, event[f])'
  <2>1. CASE f = e
    BY <1>1, <1>3, <2>1 DEF ErasureInv, Erasure, Consented
  <2>2. CASE f # e
    BY <1>1, <1>3, <2>2, EventFrame DEF ErasureInv
  <2> QED BY <2>1, <2>2
<1>5. officer'[o] = NoRequest
  BY <1>1 DEF ErasureInv, ErasureTyped
<1>6. ApprovalOk(o)' /\ ExecutionOk(o)'
  BY <1>5, NoRequestOk
<1>7. UNCHANGED <<rlsBypassed, rows, consents>>
  BY <1>1
<1> QED BY <1>1, <1>3, <1>4, <1>6, <1>7, OfficerFrame

LEMMA DieKeeps ==
  ASSUME ErasureInv, NEW o \in Officers, RequestDies(o) PROVE ErasureInv'
<1>1. /\ officer' = [officer EXCEPT ![o] = NoRequest]
      /\ UNCHANGED <<rlsBypassed, rows, event, consents>>
  BY DEF RequestDies, dataVars
<1>2. officer'[o] = NoRequest
  BY <1>1 DEF ErasureInv, ErasureTyped
<1> QED BY <1>1, <1>2, NoRequestOk, SameEvents, OfficerFrame

LEMMA InsertKeeps ==
  ASSUME ErasureInv, NEW r \in DataRows, InsertRow(r) PROVE ErasureInv'
<1>1. /\ rows' = rows \cup {r}
      /\ officer' = [o \in Officers |->
           IF officer[o].step = "cascaded" THEN [officer[o] EXCEPT !.fresh = @ \cup {r}]
           ELSE officer[o]]
      /\ UNCHANGED <<rlsBypassed, event, consents>>
  BY DEF InsertRow
<1>2. ASSUME NEW o \in Officers, officer[o].step = "cascaded"
      PROVE  /\ officer'[o] \in Execution /\ officer'[o].step = "cascaded"
             /\ officer'[o].event = officer[o].event
             /\ officer'[o].fresh = officer[o].fresh \cup {r}
  <2>1. officer[o] \in Execution
    BY <1>2, RequestFields DEF ErasureInv
  <2>2. officer'[o] = [officer[o] EXCEPT !.fresh = @ \cup {r}]
    BY <1>1, <1>2
  <2> QED BY <1>2, <2>1, <2>2 DEF Execution
<1>3. ASSUME NEW o \in Officers, officer[o].step # "cascaded"
      PROVE  officer'[o] = officer[o]
  BY <1>1, <1>3
<1>4. ErasureTyped'
  <2>1. \A o \in Officers : officer'[o] \in Approval \cup Execution \cup {NoRequest}
    BY <1>2, <1>3 DEF ErasureInv, ErasureTyped
  <2>2. officer' \in [Officers -> Approval \cup Execution \cup {NoRequest}]
    BY <1>1, <2>1
  <2> QED BY <1>1, <2>2 DEF ErasureInv, ErasureTyped
<1>5. ASSUME NEW o \in Officers PROVE ApprovalOk(o)' /\ ExecutionOk(o)'
  <2>1. CASE officer[o].step = "cascaded"
    <3>1. PICK e : e = officer[o].event
      OBVIOUS
    <3>2. TenantRows(e)' \subseteq TenantRows(e) \cup {r}
      BY <1>1 DEF TenantRows
    <3>3. /\ TwoConsents(e)'
          /\ rlsBypassed => TenantRows(e) \subseteq officer[o].fresh
      BY <1>1, <2>1, <3>1 DEF ErasureInv, Erasure, ExecutionOk, TwoConsents
    <3>4. officer'[o].step = "cascaded" /\ officer'[o].event = e
      BY <1>2, <2>1, <3>1
    <3>5. rlsBypassed' => TenantRows(e)' \subseteq officer'[o].fresh
      BY <1>1, <1>2, <2>1, <3>2, <3>3
    <3> QED BY <3>3, <3>4, <3>5 DEF ApprovalOk, ExecutionOk
  <2>2. CASE officer[o].step # "cascaded"
    <3>1. officer'[o] = officer[o] /\ ApprovalOk(o) /\ ExecutionOk(o)
      BY <1>3, <2>2 DEF ErasureInv, Erasure
    <3> QED
      BY <1>1, <2>2, <3>1 DEF ApprovalOk, ExecutionOk, TwoConsents, Consented
  <2> QED BY <2>1, <2>2
<1> QED BY <1>1, <1>4, <1>5, SameEvents DEF ErasureInv, Erasure

\* Steps that leave the erasures alone and add no row.
LEMMA ErasureUntouched ==
  ASSUME ErasureInv, UNCHANGED <<erasureVars, rlsBypassed>>, rows' \subseteq rows
  PROVE  ErasureInv'
<1>1. UNCHANGED <<event, officer, consents, rlsBypassed>>
  BY DEF erasureVars
<1>2. \A o \in Officers : ApprovalOk(o)' /\ ExecutionOk(o)'
  BY <1>1, RequestFrame DEF ErasureInv, Erasure
<1> QED BY <1>1, <1>2, SameEvents DEF ErasureInv, Erasure, ErasureTyped

LEMMA OtherSteps ==
  ASSUME \/ NextDay \/ DpaNext \/ UNCHANGED complianceVars
         \/ \E r \in DataRows : PinRun(r) \/ UnpinRun(r)
         \/ \E p \in Policies : CreatePolicy(p)
         \/ \E s \in Sweepers :
              \/ SweepDeletes(s) \/ \E status \in {"success", "failed"} : SweepRecords(s, status)
              \/ \E p \in Policies, mode \in {"dry_run", "enforce"} : SweepStarts(s, p, mode)
  PROVE  UNCHANGED <<erasureVars, rlsBypassed>> /\ rows' \subseteq rows
<1>1. ASSUME \/ NextDay \/ DpaNext \/ UNCHANGED complianceVars
             \/ \E r \in DataRows : PinRun(r) \/ UnpinRun(r)
             \/ \E p \in Policies : CreatePolicy(p)
      PROVE  UNCHANGED <<erasureVars, rlsBypassed, rows>>
  BY <1>1 DEF NextDay, DpaNext, PublishDpa, AcknowledgeDpa, GateReads, GateReadsAck,
              GateDecides, complianceVars, PinRun, UnpinRun, CreatePolicy, dataVars, erasureVars
<1>2. ASSUME NEW s \in Sweepers, SweepDeletes(s)
      PROVE  UNCHANGED <<erasureVars, rlsBypassed>> /\ rows' \subseteq rows
  BY <1>2 DEF SweepDeletes
<1>3. ASSUME NEW s \in Sweepers,
             \/ \E status \in {"success", "failed"} : SweepRecords(s, status)
             \/ \E p \in Policies, mode \in {"dry_run", "enforce"} : SweepStarts(s, p, mode)
      PROVE  UNCHANGED <<erasureVars, rlsBypassed, rows>>
  BY <1>3 DEF SweepRecords, SweepStarts, dataVars
<1> QED BY <1>1, <1>2, <1>3

LEMMA ErasureStep == ErasureInv /\ [ComplianceNext]_complianceVars => ErasureInv'
<1> SUFFICES ASSUME ErasureInv, [ComplianceNext]_complianceVars PROVE ErasureInv'
  OBVIOUS
<1>1. CASE ErasureNext
  BY <1>1, RequestKeeps, ConsentReadKeeps, ConsentWriteKeeps, ExecuteReadKeeps,
     CascadeKeeps, CompleteKeeps, DieKeeps
  DEF ErasureNext, Events
<1>2. ASSUME NEW r \in DataRows, InsertRow(r) PROVE ErasureInv'
  BY <1>2, InsertKeeps
<1>3. ASSUME UNCHANGED <<erasureVars, rlsBypassed>>, rows' \subseteq rows
      PROVE  ErasureInv'
  BY <1>3, ErasureUntouched
<1> QED BY <1>1, <1>2, <1>3, OtherSteps DEF ComplianceNext, DataNext

\* An erasure in progress takes only rows nothing is pinned to, and a retention
\* run never touches the table of the runs.
Pins == pinned \subseteq rows /\ \A r \in pinned : r.table = "runs"

LEMMA PinsStep ==
  ErasureInv /\ Pins /\ [ComplianceNext]_complianceVars => Pins'
<1> SUFFICES ASSUME ErasureInv, Pins, [ComplianceNext]_complianceVars PROVE Pins'
  OBVIOUS
<1>1. ASSUME NEW s \in Sweepers, SweepDeletes(s) PROVE Pins'
  <2>1. UNCHANGED pinned
    BY <1>1 DEF SweepDeletes
  <2>2. ASSUME NEW r \in rows, r \notin rows' PROVE r.table \in Swept
    BY <1>1, <2>2 DEF SweepDeletes, Before
  <2> QED BY <2>1, <2>2 DEF Pins, Swept
<1>2. ASSUME NEW o \in Officers, Cascade(o) PROVE Pins'
  <2>1. /\ UNCHANGED pinned
        /\ \/ UNCHANGED rows
           \/ \E t : rows' = rows \ CascadeRows(t) /\ CascadeRows(t) \cap pinned = {}
    BY <1>2, CascadeEffect DEF DeleteAllowed
  <2> QED BY <2>1 DEF Pins
<1>3. ASSUME NEW r \in DataRows, PinRun(r) \/ UnpinRun(r) PROVE Pins'
  BY <1>3 DEF PinRun, UnpinRun, Pins
<1>4. ASSUME NEW r \in DataRows, InsertRow(r) PROVE Pins'
  BY <1>4 DEF InsertRow, Pins
<1>5. ASSUME \/ NextDay \/ DpaNext \/ UNCHANGED complianceVars
             \/ \E p \in Policies : CreatePolicy(p)
      PROVE  UNCHANGED <<pinned, rows>>
  BY <1>5 DEF NextDay, DpaNext, PublishDpa, AcknowledgeDpa, GateReads, GateReadsAck,
              GateDecides, complianceVars, CreatePolicy, dataVars
<1>6. ASSUME NEW s \in Sweepers,
             \/ \E status \in {"success", "failed"} : SweepRecords(s, status)
             \/ \E p \in Policies, mode \in {"dry_run", "enforce"} : SweepStarts(s, p, mode)
      PROVE  UNCHANGED <<pinned, rows>>
  BY <1>6 DEF SweepRecords, SweepStarts, dataVars
<1>7. ASSUME NEW e \in Events, RequestErasure(e) PROVE UNCHANGED <<pinned, rows>>
  BY <1>7 DEF RequestErasure, dataVars
<1>8. ASSUME NEW o \in Officers,
             \/ ConsentWrites(o) \/ ExecuteCompletes(o) \/ RequestDies(o)
             \/ \E e \in Events : ConsentReads(o, e) \/ ExecuteReads(o, e)
      PROVE  UNCHANGED <<pinned, rows>>
  BY <1>8 DEF ConsentWrites, ExecuteCompletes, RequestDies, ConsentReads,
              ExecuteReads, dataVars
<1>9. ASSUME UNCHANGED <<pinned, rows>> PROVE Pins'
  BY <1>9 DEF Pins
<1> QED
  BY <1>1, <1>2, <1>3, <1>4, <1>5, <1>6, <1>7, <1>8, <1>9
  DEF ComplianceNext, DataNext, ErasureNext, Events

LEMMA ErasureHolds == ComplianceSpec => [](ErasureInv /\ Pins)
<1>1. ComplianceInit => Pins
  BY DEF ComplianceInit, Pins
<1> QED BY <1>1, InitErasure, ErasureStep, PinsStep, PTL DEF ComplianceSpec

\* For every number of officers, erasures and rows: only an event that two
\* different people approved is executed, a completed cascade of a role that
\* bypasses row level security has left nothing in its tables that was there
\* before it, and pinned runs stay.
THEOREM ErasureCorrect == ComplianceSpec => []ErasureInvariant
<1>1. ErasureInv => ErasureNeedsTwo
  BY DEF ErasureInv, Erasure, ExecutionOk, TwoConsents, ErasureNeedsTwo
<1>2. ErasureInv => ErasedMeansGone
  BY DEF ErasureInv, Erasure, ExecutionOk, TenantRows, ErasedMeansGone
<1>3. ErasureInv /\ Pins => ErasureInvariant
  BY <1>1, <1>2 DEF Pins, PinnedRunsStay, ErasureInvariant
<1> QED BY <1>3, ErasureHolds, PTL

-----------------------------------------------------------------------------
(* The gate of the data processing agreement *)

\* Each version is published later than the ones before it, so that one of them
\* is the latest.
DpaInv ==
  /\ day \in Nat
  /\ dpa = [v \in DOMAIN dpa |-> dpa[v]]
  /\ \A v \in DOMAIN dpa : dpa[v] \in Nat
  /\ DOMAIN dpa # {} => \E v \in DOMAIN dpa : \A u \in DOMAIN dpa : dpa[u] <= dpa[v]

LEMMA PublishKeeps ==
  ASSUME DpaInv, NEW v \in DpaVersions, PublishDpa(v) PROVE DpaInv'
<1>1. /\ \A u \in DOMAIN dpa : dpa[u] < day /\ v \notin DOMAIN dpa
      /\ dpa' = [u \in DOMAIN dpa \cup {v} |-> IF u = v THEN day ELSE dpa[u]]
      /\ day' = day /\ day \in Nat /\ \A u \in DOMAIN dpa : dpa[u] \in Nat
  BY DEF PublishDpa, DpaInv
<1>2. /\ DOMAIN dpa' = DOMAIN dpa \cup {v} /\ dpa'[v] = day
      /\ \A u \in DOMAIN dpa : u # v => dpa'[u] = dpa[u]
  BY <1>1
<1>3. v \in DOMAIN dpa' /\ \A u \in DOMAIN dpa' : dpa'[u] \in Nat /\ dpa'[u] <= dpa'[v]
  BY <1>1, <1>2
<1>4. dpa' = [u \in DOMAIN dpa' |-> dpa'[u]]
  BY <1>1, <1>2
<1> QED BY <1>1, <1>3, <1>4 DEF DpaInv

LEMMA LatestIsPublished ==
  ASSUME DpaInv, DOMAIN dpa # {}
  PROVE  LatestDpa \in DOMAIN dpa /\ \A u \in DOMAIN dpa : dpa[u] <= dpa[LatestDpa]
  BY DEF DpaInv, LatestDpa

\* A publication puts everybody into the grace period of the new version.
LEMMA PublishOpens ==
  ASSUME DpaInv, NEW v \in DpaVersions, PublishDpa(v), NEW t PROVE ~ StatusBlocked(t)'
<1>1. /\ \A u \in DOMAIN dpa : dpa[u] < day /\ v \notin DOMAIN dpa
      /\ dpa' = [u \in DOMAIN dpa \cup {v} |-> IF u = v THEN day ELSE dpa[u]]
      /\ day' = day /\ day \in Nat /\ \A u \in DOMAIN dpa : dpa[u] \in Nat
  BY DEF PublishDpa, DpaInv
<1>2. DpaInv' /\ DOMAIN dpa' # {} /\ v \in DOMAIN dpa' /\ dpa'[v] = day
  BY <1>1, PublishKeeps
<1>3. /\ LatestDpa' \in DOMAIN dpa' /\ dpa'[v] <= dpa'[LatestDpa']
      /\ dpa'[LatestDpa'] \in Nat
  BY <1>2 DEF DpaInv, LatestDpa
<1>4. ~ (day' > dpa'[LatestDpa'] + Grace)
  BY <1>1, <1>2, <1>3, ComplianceAssumption
<1> QED BY <1>4 DEF StatusBlocked

CheckShape(c) == \E s, t, v : c = [step |-> s, tenant |-> t, version |-> v]

\* What a check in progress has seen agrees with the present; as long as it has
\* seen no open moment, or no change, it holds the latest version.
CheckOk(g) ==
  g \in Checking =>
    /\ CheckShape(gate[g]) /\ gate[g].version \in DOMAIN dpa
    /\ seen[g].open \/ (StatusBlocked(gate[g].tenant) /\ LatestDpa = gate[g].version)
    /\ seen[g].blocked \/ ~ StatusBlocked(gate[g].tenant)
    /\ \/ seen[g].changed
       \/ /\ LatestDpa = gate[g].version
          /\ gate[g].step = "clock" => <<gate[g].tenant, gate[g].version>> \notin acks

GateOk(g) ==
  /\ CheckOk(g)
  /\ gate[g].step = "passed" /\ gate[g].tenant # NoTenant => seen[g].open
  /\ gate[g].step = "refused" => seen[g].blocked \/ seen[g].changed

GateInv ==
  /\ DpaInv /\ DOMAIN gate = Gates /\ DOMAIN seen = Gates
  /\ \A g \in Gates : GateOk(g)

\* The clock, a publication or an acknowledgement, while the gates watch.
LEMMA WatchKeeps ==
  ASSUME GateInv, DpaInv', UNCHANGED gate, Watch,
         DOMAIN dpa \subseteq DOMAIN dpa',
         \/ dpa' = dpa
         \/ dpa' # dpa /\ \A t : ~ StatusBlocked(t)'
  PROVE  GateInv'
<1>1. DOMAIN seen' = Gates
  BY DEF Watch
<1>2. Checking' = Checking
  BY DEF Checking
<1>3. ASSUME NEW g \in Gates, g \notin Checking PROVE GateOk(g)'
  <2>1. seen'[g] = seen[g]
    BY <1>3 DEF Watch
  <2> QED BY <1>2, <1>3, <2>1 DEF GateInv, GateOk, CheckOk
<1>4. ASSUME NEW g \in Gates, g \in Checking PROVE GateOk(g)'
  <2>1. PICK t, v : t = gate[g].tenant /\ v = gate[g].version
    OBVIOUS
  <2>2. /\ seen'[g].open <=> (seen[g].open \/ ~ StatusBlocked(t)')
        /\ seen'[g].blocked <=> (seen[g].blocked \/ StatusBlocked(t)')
        /\ seen'[g].changed <=> (seen[g].changed \/ dpa' # dpa \/ <<t, v>> \in acks' \ acks)
    BY <1>4, <2>1 DEF Watch
  <2>3. gate[g].step \in {"ack", "clock"} /\ CheckOk(g)
    BY <1>4 DEF Checking, GateInv, GateOk
  <2>4. dpa' = dpa => LatestDpa' = LatestDpa
    BY DEF LatestDpa
  <2>5. CheckOk(g)'
    <3>1. v \in DOMAIN dpa'
      BY <1>4, <2>1, <2>3 DEF CheckOk
    <3>2. seen'[g].open \/ (StatusBlocked(t)' /\ LatestDpa' = v)
      BY <1>4, <2>1, <2>2, <2>3, <2>4 DEF CheckOk
    <3>3. seen'[g].blocked \/ ~ StatusBlocked(t)'
      BY <2>2
    <3>4. \/ seen'[g].changed
          \/ LatestDpa' = v /\ (gate[g].step = "clock" => <<t, v>> \notin acks')
      BY <1>4, <2>1, <2>2, <2>3, <2>4 DEF CheckOk
    <3>5. CheckShape(gate'[g])
      BY <1>4, <2>3 DEF CheckOk
    <3> QED BY <2>1, <3>1, <3>2, <3>3, <3>4, <3>5 DEF CheckOk
  <2> QED BY <2>3, <2>5 DEF GateOk
<1> QED BY <1>1, <1>3, <1>4 DEF GateInv

\* A step of gate g with no effect on the rows or the clock.
LEMMA GateFrame ==
  ASSUME GateInv, NEW g \in Gates, NEW q, NEW w, UNCHANGED <<day, dpa, acks>>,
         gate' = [gate EXCEPT ![g] = q], seen' = [seen EXCEPT ![g] = w] \/ UNCHANGED seen,
         GateOk(g)'
  PROVE  GateInv'
<1>1. /\ DOMAIN gate' = Gates /\ DOMAIN seen' = Gates
      /\ \A h \in Gates : h # g => gate'[h] = gate[h] /\ seen'[h] = seen[h]
  BY DEF GateInv
<1>2. LatestDpa' = LatestDpa /\ DpaInv' /\ \A t : StatusBlocked(t)' <=> StatusBlocked(t)
  BY DEF GateInv, DpaInv, LatestDpa, StatusBlocked
<1>3. ASSUME NEW h \in Gates, h # g PROVE GateOk(h)'
  <2>1. h \in Checking' <=> h \in Checking
    BY <1>1, <1>3 DEF Checking
  <2>2. CheckOk(h)'
    BY <1>1, <1>2, <1>3, <2>1 DEF GateInv, GateOk, CheckOk
  <2> QED BY <1>1, <1>3, <2>2 DEF GateInv, GateOk
<1> QED BY <1>1, <1>2, <1>3 DEF GateInv

LEMMA GateReadsKeeps ==
  ASSUME GateInv, NEW g \in Gates, NEW t, GateReads(g, t) PROVE GateInv'
<1>1. PICK q, w :
        /\ q = IF t = NoTenant \/ DOMAIN dpa = {} THEN [step |-> "passed", tenant |-> t]
               ELSE [step |-> "ack", tenant |-> t, version |-> LatestDpa]
        /\ w = [open |-> ~ StatusBlocked(t), blocked |-> StatusBlocked(t), changed |-> FALSE]
        /\ gate' = [gate EXCEPT ![g] = q] /\ seen' = [seen EXCEPT ![g] = w]
        /\ UNCHANGED <<day, dpa, acks>>
  BY DEF GateReads
<1>2. gate'[g] = q /\ seen'[g] = w
  BY <1>1 DEF GateInv
<1>3. LatestDpa' = LatestDpa /\ (StatusBlocked(t)' <=> StatusBlocked(t))
  BY <1>1 DEF LatestDpa, StatusBlocked
<1>4. /\ w.open <=> ~ StatusBlocked(t)
      /\ w.blocked <=> StatusBlocked(t)
  BY <1>1
<1>5. CASE t = NoTenant \/ DOMAIN dpa = {}
  <2>1. q.step = "passed" /\ q.tenant = t
    BY <1>1, <1>5
  <2>2. g \notin Checking'
    BY <1>2, <2>1 DEF Checking
  <2>3. t # NoTenant => w.open
    BY <1>4, <1>5 DEF StatusBlocked
  <2>4. GateOk(g)'
    BY <1>2, <2>1, <2>2, <2>3 DEF GateOk, CheckOk
  <2> QED BY <1>1, <2>4, GateFrame
<1>6. CASE ~ (t = NoTenant \/ DOMAIN dpa = {})
  <2>1. q.step = "ack" /\ q.tenant = t /\ q.version = LatestDpa
    BY <1>1, <1>6
  <2>2. LatestDpa \in DOMAIN dpa
    BY <1>6, LatestIsPublished DEF GateInv
  <2>3. CheckShape(q)
    BY <1>1, <1>6 DEF CheckShape
  <2>4. GateOk(g)'
    BY <1>1, <1>2, <1>3, <1>4, <2>1, <2>2, <2>3 DEF GateOk, CheckOk
  <2> QED BY <1>1, <2>4, GateFrame
<1> QED BY <1>5, <1>6

\* The reads that end a check or move it on.
LEMMA GateMovesKeeps ==
  ASSUME GateInv, NEW g \in Gates, GateReadsAck(g) \/ GateDecides(g) PROVE GateInv'
<1> DEFINE ackStep == IF Acked(gate[g].tenant, gate[g].version) THEN "passed" ELSE "clock"
           lastStep == IF day <= dpa[gate[g].version] + Grace THEN "passed" ELSE "refused"
<1>1. PICK step, q :
        /\ q = [gate[g] EXCEPT !.step = step] /\ gate' = [gate EXCEPT ![g] = q]
        /\ \/ gate[g].step = "ack" /\ step = ackStep
           \/ gate[g].step = "clock" /\ step = lastStep
        /\ UNCHANGED <<day, dpa, acks, seen>>
  <2> HIDE DEF ackStep, lastStep
  <2>1. CASE GateReadsAck(g)
    <3>1. /\ gate' = [gate EXCEPT ![g] = [gate[g] EXCEPT !.step = ackStep]]
          /\ gate[g].step = "ack" /\ UNCHANGED <<day, dpa, acks, seen>>
      BY <2>1 DEF GateReadsAck, ackStep
    <3> QED BY <3>1
  <2>2. CASE GateDecides(g)
    <3>1. /\ gate' = [gate EXCEPT ![g] = [gate[g] EXCEPT !.step = lastStep]]
          /\ gate[g].step = "clock" /\ UNCHANGED <<day, dpa, acks, seen>>
      BY <2>2 DEF GateDecides, lastStep
    <3> QED BY <3>1
  <2> QED BY <2>1, <2>2
<1>2. g \in Checking /\ CheckOk(g)
  BY <1>1 DEF Checking, GateInv, GateOk
<1>3. PICK t, v : t = gate[g].tenant /\ v = gate[g].version
  OBVIOUS
<1>4. UNCHANGED seen
  BY <1>1
<1>5. LatestDpa' = LatestDpa /\ (StatusBlocked(t)' <=> StatusBlocked(t))
  BY <1>1 DEF LatestDpa, StatusBlocked
<1>6. /\ v \in DOMAIN dpa
      /\ seen[g].open \/ (StatusBlocked(t) /\ LatestDpa = v)
      /\ seen[g].blocked \/ ~ StatusBlocked(t)
      /\ \/ seen[g].changed
         \/ LatestDpa = v /\ (gate[g].step = "clock" => <<t, v>> \notin acks)
  BY <1>2, <1>3 DEF CheckOk
<1>7. day \in Nat /\ dpa[v] \in Nat /\ Grace \in Nat
  BY <1>6, ComplianceAssumption DEF GateInv, DpaInv
<1>8. /\ gate'[g].step = step /\ gate'[g].tenant = t /\ gate'[g].version = v
      /\ CheckShape(gate'[g])
  <2>1. gate'[g] = q
    BY <1>1 DEF GateInv
  <2>2. PICK s : gate[g] = [step |-> s, tenant |-> t, version |-> v]
    BY <1>2, <1>3 DEF CheckOk, CheckShape
  <2>3. q = [step |-> step, tenant |-> t, version |-> v]
    BY <1>1, <2>2
  <2>4. CheckShape(q)
    BY <2>3 DEF CheckShape
  <2>5. q.step = step /\ q.tenant = t /\ q.version = v
    BY <2>3
  <2> QED BY <2>1, <2>4, <2>5
<1>9. step = "passed" => seen[g].open
  BY <1>1, <1>3, <1>6, <1>7 DEF StatusBlocked, Acked
<1>10. step = "refused" => seen[g].blocked \/ seen[g].changed
  BY <1>1, <1>3, <1>6, <1>7 DEF StatusBlocked
<1>11. CheckOk(g)'
  <2>1. CASE step = "clock"
    <3>1. <<t, v>> \notin acks
      BY <1>1, <1>3, <2>1 DEF Acked
    <3> QED BY <1>1, <1>5, <1>6, <1>8, <2>1, <3>1 DEF CheckOk
  <2>2. CASE step # "clock"
    BY <1>1, <1>8, <2>2 DEF CheckOk, Checking
  <2> QED BY <2>1, <2>2
<1>12. GateOk(g)'
  BY <1>1, <1>8, <1>9, <1>10, <1>11 DEF GateOk
<1> QED BY <1>1, <1>4, <1>12, GateFrame

LEMMA GateUntouched ==
  ASSUME GateInv, UNCHANGED <<day, dpaVars>> PROVE GateInv'
<1>1. UNCHANGED <<day, dpa, acks, gate, seen>>
  BY DEF dpaVars
<1>2. LatestDpa' = LatestDpa /\ Checking' = Checking
      /\ \A t : StatusBlocked(t)' <=> StatusBlocked(t)
  BY <1>1 DEF LatestDpa, Checking, StatusBlocked
<1>3. \A g \in Gates : GateOk(g)'
  BY <1>1, <1>2 DEF GateInv, GateOk, CheckOk
<1> QED BY <1>1, <1>3 DEF GateInv, DpaInv

LEMMA GateStep == GateInv /\ [ComplianceNext]_complianceVars => GateInv'
<1> SUFFICES ASSUME GateInv, [ComplianceNext]_complianceVars PROVE GateInv'
  OBVIOUS
<1>1. ASSUME NEW v \in DpaVersions, PublishDpa(v) PROVE GateInv'
  <2>1. DpaInv /\ UNCHANGED gate /\ Watch
    BY <1>1 DEF GateInv, PublishDpa
  <2>2. DOMAIN dpa' = DOMAIN dpa \cup {v} /\ v \notin DOMAIN dpa
    BY <1>1 DEF PublishDpa
  <2>3. \A t : ~ StatusBlocked(t)'
    BY <1>1, <2>1, PublishOpens
  <2>4. DpaInv' /\ dpa' # dpa
    BY <1>1, <2>1, <2>2, PublishKeeps
  <2> QED BY <2>1, <2>2, <2>3, <2>4, WatchKeeps
<1>2. ASSUME NEW v \in DpaVersions, NEW t \in DpaTenants, AcknowledgeDpa(t, v)
      PROVE  GateInv'
  <2>1. DpaInv' /\ UNCHANGED <<dpa, gate>> /\ Watch
    BY <1>2 DEF GateInv, DpaInv, AcknowledgeDpa
  <2> QED BY <2>1, WatchKeeps
<1>3. CASE NextDay
  <2>1. DpaInv' /\ UNCHANGED <<dpa, gate>> /\ Watch
    BY <1>3 DEF NextDay, GateInv, DpaInv
  <2> QED BY <2>1, WatchKeeps
<1>4. CASE DataNext
  <2>1. UNCHANGED <<day, dpaVars>>
    BY <1>4 DEF DataNext, InsertRow, PinRun, UnpinRun, CreatePolicy, SweepDeletes,
                SweepRecords, SweepStarts
  <2> QED BY <2>1, GateUntouched
<1>5. CASE ErasureNext
  <2>1. UNCHANGED <<day, dpaVars>>
    BY <1>5 DEF ErasureNext, RequestErasure, ConsentWrites, Cascade, ExecuteCompletes,
                RequestDies, ConsentReads, ExecuteReads
  <2> QED BY <2>1, GateUntouched
<1>6. CASE UNCHANGED complianceVars
  BY <1>6, GateUntouched DEF complianceVars, dpaVars
<1> QED
  BY <1>1, <1>2, <1>3, <1>4, <1>5, <1>6, GateReadsKeeps, GateMovesKeeps
  DEF ComplianceNext, DpaNext

\* For every history of publications, acknowledgements and deadlines between the
\* reads of every number of gates: a delivery with a tenant passes only if the
\* tenant was not blocked at some moment of the check, and is refused only if it
\* was blocked at some moment or the agreement changed under the check.
THEOREM GateCorrect == ComplianceSpec => []GateIsSound
<1>1. ComplianceInit => GateInv
  <2> SUFFICES ASSUME ComplianceInit PROVE GateInv
    OBVIOUS
  <2>1. DpaInv /\ gate = [g \in Gates |-> NoCheck] /\ seen = [g \in Gates |-> Unseen]
    BY DEF ComplianceInit, DpaInv
  <2>2. \A g \in Gates : gate[g].step = "idle" /\ g \notin Checking
    BY <2>1 DEF NoCheck, Checking
  <2>3. \A g \in Gates : GateOk(g)
    BY <2>2 DEF GateOk, CheckOk
  <2> QED BY <2>1, <2>3 DEF GateInv
<1>2. GateInv => GateIsSound
  BY DEF GateInv, GateOk, GateIsSound
<1> QED BY <1>1, <1>2, GateStep, PTL DEF ComplianceSpec
=============================================================================
