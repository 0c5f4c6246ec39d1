------------------------ MODULE BudgetLedgerProofs --------------------------
(***************************************************************************)
(* BudgetLedger for every number of callers, sweepers and admins and every *)
(* bound on faults.                                                        *)
(*                                                                         *)
(* The durable half: whatever the Redis counters hold, the PostgreSQL rows *)
(* stay consistent and a charge is final.  LedgerConsistent is not         *)
(* inductive: it needs to know what a call under way remembers of the rows *)
(* it has read (CallsRemember), and that no two calls under way use one    *)
(* reservation id (OwnIds).                                                *)
(*                                                                         *)
(* The caps: the sums over rows and over calls under way are unfolded by   *)
(* lemmas about Total, and the invariant says where every cent of a cap is *)
(* (Balanced).                                                             *)
(***************************************************************************)
EXTENDS BudgetLedger, FiniteSetTheorems, NaturalsInduction, WellFoundedInduction, TLAPS

\* A reserve() that has drawn its id and not yet written a row.
Reserving(p) ==
  /\ pc[p] \in {"ensure", "read", "set", "eval", "eval_again", "deny", "insert"}
  /\ call[p].id # None

\* What a call under way knows.
Remembers(p) ==
  /\ pc[p] \in {"ensure", "read", "set"} => call[p].run \in Runs
  /\ pc[p] \in {"ensure", "read", "set"} /\ return[p] # "idle" =>
       call[p].id \in Ids
  /\ pc[p] \in {"eval", "eval_again", "deny", "insert"} =>
       call[p].id \in Ids /\ call[p].run \in Runs
  /\ pc[p] \in {"settle", "release"} =>
       /\ call[p].id \in Ids
       /\ reservations[call[p].id] # None
       /\ call[p].run = reservations[call[p].id].run
       /\ call[p].amount = reservations[call[p].id].amount
       /\ call[p].actual <= call[p].amount
  /\ Reserving(p) =>
       reservations[call[p].id] = None /\ call[p].id \notin denials

CallsRemember == \A p \in Procs : Remembers(p)

\* A reservation id is in the hands of one call.
OwnIds == \A p, q \in Procs : p # q /\ Reserving(p) => call[q].id # call[p].id

\* The inductive invariant.
Inv == LedgerTypeOK /\ LedgerConsistent /\ CallsRemember /\ OwnIds

-----------------------------------------------------------------------------
\* A step of p that touches no row: the other calls keep what they know, so
\* only p's own knowledge and the ids have to be looked at.
LEMMA LocalStep ==
  ASSUME Inv, LedgerTypeOK', NEW p \in Procs,
         UNCHANGED <<reservations, charges, denials>>,
         \A q \in Procs \ {p} : /\ pc'[q] = pc[q]
                                /\ call'[q] = call[q]
                                /\ return'[q] = return[q],
         Remembers(p)',
         \A q \in Procs \ {p} :
           /\ Reserving(p)' => call[q].id # call'[p].id
           /\ Reserving(q) => call'[p].id # call[q].id
  PROVE  Inv'
<1>1. LedgerConsistent'
  BY DEF Inv, LedgerConsistent
<1>2. ASSUME NEW q \in Procs, q # p
      PROVE  Remembers(q)' /\ (Reserving(q)' <=> Reserving(q))
  BY <1>2 DEF Inv, CallsRemember, Remembers, Reserving
<1>3. CallsRemember'
  BY <1>2 DEF CallsRemember
<1>4. OwnIds'
  <2> SUFFICES ASSUME NEW r \in Procs, NEW q \in Procs, r # q, Reserving(r)'
               PROVE  call'[q].id # call'[r].id
    BY DEF OwnIds
  <2>1. CASE r = p
    BY <2>1
  <2>2. CASE q = p
    BY <2>2, <1>2
  <2>3. CASE r # p /\ q # p
    BY <2>3, <1>2 DEF Inv, OwnIds
  <2> QED BY <2>1, <2>2, <2>3
<1> QED BY <1>1, <1>3, <1>4 DEF Inv

\* The same when p's call keeps its id or lets go of it.
LEMMA KeepingStep ==
  ASSUME Inv, LedgerTypeOK', NEW p \in Procs,
         UNCHANGED <<reservations, charges, denials>>,
         \A q \in Procs \ {p} : /\ pc'[q] = pc[q]
                                /\ call'[q] = call[q]
                                /\ return'[q] = return[q],
         Remembers(p)',
         call'[p].id \in {call[p].id, None},
         Reserving(p)' => Reserving(p)
  PROVE  Inv'
<1>1. ASSUME NEW q \in Procs, q # p
      PROVE  /\ Reserving(p)' => call[q].id # call'[p].id
             /\ Reserving(q) => call'[p].id # call[q].id
  BY <1>1 DEF Inv, OwnIds, Reserving
<1> QED BY <1>1, LocalStep

LEMMA NoCallType == NoCall \in CallRecord /\ NoCall.id = None
BY DEF NoCall, CallRecord

-----------------------------------------------------------------------------
(* Steps that touch no row of the ledger.                                  *)

LEMMA ReserveStep ==
  ASSUME Inv, NEW p \in Procs, NEW r \in Runs, NEW a \in Amounts,
         NEW i \in Ids, Reserve(p, r, a, i)
  PROVE  Inv'
<1>1. LedgerTypeOK'
  <2>1. [run |-> r, id |-> i, amount |-> a, actual |-> 0] \in CallRecord
    BY BudgetAssumption DEF CallRecord
  <2> QED
    BY <2>1 DEF Inv, LedgerTypeOK, Reserve, Goto, Labels, postgres, env
<1>2. i # None /\ reservations[i] = None /\ i \notin denials
      /\ \A q \in Procs : call[q].id # i
  BY BudgetAssumption DEF Reserve, Drawn
<1>3. pc'[p] = "ensure" /\ call'[p].id = i /\ call'[p].run = r
  BY DEF Inv, LedgerTypeOK, Reserve, Goto
<1>4. Remembers(p)'
  BY <1>2, <1>3 DEF Reserve, Remembers, Reserving, postgres
<1>9. /\ UNCHANGED <<reservations, charges, denials>>
      /\ \A q \in Procs \ {p} : /\ pc'[q] = pc[q] /\ call'[q] = call[q]
                               /\ return'[q] = return[q]
  BY DEF Inv, LedgerTypeOK, Reserve, Goto, postgres
<1> QED BY <1>1, <1>2, <1>3, <1>4, <1>9, LocalStep

LEMMA ReadRowStep ==
  ASSUME Inv, NEW p \in Procs, NEW i \in Ids, NEW a \in Nat,
         SettleRead(p, i, a) \/ ReleaseRead(p, i)
  PROVE  Inv'
<1>1. /\ reservations[i] \in Row /\ reservations[i] # None
  BY DEF Inv, LedgerTypeOK, SettleRead, ReleaseRead
<1>2. LedgerTypeOK'
  <2>1. [run |-> reservations[i].run, id |-> i,
         amount |-> reservations[i].amount, actual |-> a] \in CallRecord
        /\ [run |-> reservations[i].run, id |-> i,
            amount |-> reservations[i].amount, actual |-> 0] \in CallRecord
    BY <1>1 DEF Row, CallRecord
  <2> QED
    BY <2>1 DEF Inv, LedgerTypeOK, SettleRead, ReleaseRead, Goto, Labels,
       postgres, env
<1>3. /\ pc'[p] \in {"settle", "release"} /\ call'[p].id = i
      /\ call'[p].run = reservations[i].run
      /\ call'[p].amount = reservations[i].amount
      /\ call'[p].actual <= reservations[i].amount
  BY <1>1 DEF Inv, LedgerTypeOK, CallRecord, SettleRead, ReleaseRead, WithinReservation,
     Goto, Row
<1>4. Remembers(p)' /\ ~Reserving(p)'
  BY <1>1, <1>3 DEF SettleRead, ReleaseRead, Remembers, Reserving, postgres
<1>5. \A q \in Procs : Reserving(q) => call[q].id # i
  BY <1>1 DEF Inv, CallsRemember, Remembers
<1>9. /\ UNCHANGED <<reservations, charges, denials>>
      /\ \A q \in Procs \ {p} : /\ pc'[q] = pc[q] /\ call'[q] = call[q]
                               /\ return'[q] = return[q]
  BY DEF Inv, LedgerTypeOK, SettleRead, ReleaseRead, Goto, postgres
<1> QED BY <1>2, <1>3, <1>4, <1>5, <1>9, LocalStep

LEMMA AdminStep ==
  ASSUME Inv, NEW p \in Procs, NEW r \in Runs,
         Balance(p, r) \/ \E c \in TicketCaps : ConfigureCaps(p, r, c)
  PROVE  Inv'
<1>1. LedgerTypeOK'
  <2>1. [NoCall EXCEPT !.run = r] \in CallRecord
    BY DEF NoCall, CallRecord
  <2> QED
    BY <2>1, BudgetAssumption
    DEF Inv, LedgerTypeOK, Balance, ConfigureCaps, Goto, Labels, postgres, env
<1>2. /\ pc'[p] \in {"ensure", "read"} /\ call'[p].id = None
      /\ call'[p].run = r /\ return'[p] = "idle"
  BY DEF Inv, LedgerTypeOK, Balance, ConfigureCaps, Goto, NoCall
<1>3. Remembers(p)' /\ ~Reserving(p)'
  BY <1>2 DEF Remembers, Reserving
<1>9. /\ UNCHANGED <<reservations, charges, denials>>
      /\ \A q \in Procs \ {p} : /\ pc'[q] = pc[q] /\ call'[q] = call[q]
                               /\ return'[q] = return[q]
  BY DEF Inv, LedgerTypeOK, Balance, ConfigureCaps, Goto, postgres
<1> QED BY <1>1, <1>2, <1>3, <1>9, KeepingStep

LEMMA EnsureStep ==
  ASSUME Inv, NEW p \in Procs, EnsureCounters(p)
  PROVE  Inv'
<1>1. LedgerTypeOK'
  BY NoCallType DEF Inv, LedgerTypeOK, EnsureCounters, Resume, Goto, Labels,
     postgres, env
<1>2. \/ /\ pc'[p] = "read" /\ call'[p] = call[p] /\ return'[p] = return[p]
      \/ /\ pc'[p] = return[p] /\ return[p] # "idle" /\ call'[p] = call[p]
      \/ /\ pc'[p] = "idle" /\ call'[p].id = None
  BY DEF Inv, LedgerTypeOK, EnsureCounters, Resume, Goto, NoCall
<1>3. Remembers(p)' /\ (Reserving(p)' => Reserving(p))
  BY <1>2 DEF Inv, LedgerTypeOK, CallsRemember, Remembers, Reserving,
     EnsureCounters, postgres
<1>9. /\ UNCHANGED <<reservations, charges, denials>>
      /\ \A q \in Procs \ {p} : /\ pc'[q] = pc[q] /\ call'[q] = call[q]
                               /\ return'[q] = return[q]
  BY DEF Inv, LedgerTypeOK, EnsureCounters, Resume, Goto, postgres
<1>10. call'[p].id \in {call[p].id, None}
  BY <1>2
<1> QED BY <1>1, <1>3, <1>9, <1>10, KeepingStep

LEMMA ReconcileStep ==
  ASSUME Inv, NEW p \in Procs, ReconcileRead(p) \/ ReconcileSet(p)
  PROVE  Inv'
<1>1. LedgerTypeOK'
  BY ZenonT(40), NoCallType DEF Inv, LedgerTypeOK, ReconcileRead, ReconcileSet, Resume,
     Goto, Labels, postgres, env
<1>2. \/ /\ pc'[p] = "set" /\ call'[p] = call[p] /\ return'[p] = return[p]
      \/ /\ pc'[p] = return[p] /\ return[p] # "idle" /\ call'[p] = call[p]
      \/ /\ pc'[p] = "idle" /\ call'[p].id = None
  BY DEF Inv, LedgerTypeOK, ReconcileRead, ReconcileSet, Resume, Goto, NoCall
<1>3. pc[p] \in {"read", "set"}
  BY DEF ReconcileRead, ReconcileSet
<1>4. UNCHANGED <<reservations, charges, denials>>
  BY DEF ReconcileRead, ReconcileSet, postgres
<1>5. Remembers(p)' /\ (Reserving(p)' => Reserving(p))
  BY <1>2, <1>3, <1>4
  DEF Inv, LedgerTypeOK, CallsRemember, Remembers, Reserving
<1>6. \A q \in Procs \ {p} : /\ pc'[q] = pc[q] /\ call'[q] = call[q]
                             /\ return'[q] = return[q]
  BY DEF Inv, LedgerTypeOK, ReconcileRead, ReconcileSet, Resume, Goto
<1> QED BY <1>1, <1>2, <1>4, <1>5, <1>6, KeepingStep

LEMMA EvalStep ==
  ASSUME Inv, NEW p \in Procs, Eval(p)
  PROVE  Inv'
<1>1. LedgerTypeOK'
  BY DEF Inv, LedgerTypeOK, Eval, Goto, Labels, postgres, env
<1>2. /\ pc[p] \in {"eval", "eval_again"} /\ call' = call
      /\ pc'[p] \in {"read", "deny", "insert"}
      /\ UNCHANGED <<reservations, charges, denials>>
  BY DEF Inv, LedgerTypeOK, Eval, Goto, postgres
<1>3. Remembers(p)' /\ (Reserving(p)' => Reserving(p))
  BY <1>2 DEF Inv, CallsRemember, Remembers, Reserving
<1>4. \A q \in Procs \ {p} : /\ pc'[q] = pc[q] /\ call'[q] = call[q]
                             /\ return'[q] = return[q]
  BY DEF Inv, LedgerTypeOK, Eval, Goto
<1>5. call'[p].id \in {call[p].id, None}
  BY <1>2
<1> QED BY <1>1, <1>2, <1>3, <1>4, <1>5, KeepingStep

LEMMA CreditStep ==
  ASSUME Inv, NEW p \in Procs, Credit(p) \/ Crash(p)
  PROVE  Inv'
<1>1. LedgerTypeOK'
  <2>1. CASE Credit(p)
    BY <2>1, SMTT(30), NoCallType DEF Inv, LedgerTypeOK, Credit, Done, Goto, Labels,
       postgres, env
  <2>2. CASE Crash(p)
    BY <2>2, SMTT(30), NoCallType DEF Inv, LedgerTypeOK, Crash, Goto, Labels,
       postgres, env
  <2> QED BY <2>1, <2>2
<1>2. /\ pc'[p] \in {"credit", "idle", "crashed"}
      /\ call'[p].id \in {call[p].id, None}
      /\ UNCHANGED <<reservations, charges, denials>>
  BY DEF Inv, LedgerTypeOK, Credit, Crash, Done, Goto, NoCall, postgres
<1>3. Remembers(p)' /\ ~Reserving(p)'
  BY <1>2 DEF Remembers, Reserving
<1>4. \A q \in Procs \ {p} : /\ pc'[q] = pc[q] /\ call'[q] = call[q]
                             /\ return'[q] = return[q]
  BY DEF Inv, LedgerTypeOK, Credit, Crash, Done, Goto
<1> QED BY <1>1, <1>2, <1>3, <1>4, KeepingStep

-----------------------------------------------------------------------------
(* Steps that write a row.                                                 *)

\* Where _credit_counters starts, or the call ends at once.
LEMMA CreditLaterType ==
  ASSUME Inv, NEW p \in Procs, NEW r \in Runs, NEW a \in Nat,
         CreditLater(p, r, a) \/ Done(p)
  PROVE  /\ pc' \in [Procs -> Labels] /\ call' \in [Procs -> CallRecord]
         /\ pc'[p] \in {"credit", "idle"}
         /\ call'[p].id \in {call[p].id, None}
         /\ \A q \in Procs \ {p} : pc'[q] = pc[q] /\ call'[q] = call[q]
<1>1. CASE Done(p)
  BY <1>1, NoCallType DEF Inv, LedgerTypeOK, Done, Goto, Labels
<1>2. CASE ~Done(p)
  <2>1. /\ call' = [call EXCEPT ![p].run = r, ![p].amount = a]
        /\ pc' = [pc EXCEPT ![p] = "credit"]
    BY <1>2 DEF CreditLater, Goto
  <2>2. call' = [call EXCEPT ![p] = [call[p] EXCEPT !.run = r, !.amount = a]]
    BY <2>1 DEF Inv, LedgerTypeOK, CallRecord
  <2>3. /\ [call[p] EXCEPT !.run = r, !.amount = a] \in CallRecord
        /\ [call[p] EXCEPT !.run = r, !.amount = a].id = call[p].id
    BY DEF Inv, LedgerTypeOK, CallRecord
  <2> QED BY <2>1, <2>2, <2>3 DEF Inv, LedgerTypeOK, Labels
<1> QED BY <1>1, <1>2

\* After p's write the calls still know what they knew, when the rows other
\* calls rely on kept their run and amount and no id in other hands was used.
LEMMA WritingStep ==
  ASSUME Inv, LedgerTypeOK', LedgerConsistent', NEW p \in Procs,
         \A q \in Procs \ {p} : /\ pc'[q] = pc[q] /\ call'[q] = call[q]
                                /\ return'[q] = return[q],
         pc'[p] \in {"credit", "idle"},
         call'[p].id \in {call[p].id, None},
         \A i \in Ids : reservations[i] # None =>
           /\ reservations'[i] # None
           /\ reservations'[i].run = reservations[i].run
           /\ reservations'[i].amount = reservations[i].amount,
         \A q \in Procs \ {p} : Reserving(q) =>
           /\ reservations'[call[q].id] = reservations[call[q].id]
           /\ call[q].id \in denials' => call[q].id \in denials
  PROVE  Inv'
<1>1. ASSUME NEW q \in Procs, q # p
      PROVE  Remembers(q)' /\ (Reserving(q)' <=> Reserving(q))
  <2>1. Reserving(q)' <=> Reserving(q)
    BY <1>1 DEF Reserving
  <2>2. pc[q] \in {"settle", "release"} =>
          /\ call[q].id \in Ids
          /\ reservations'[call[q].id] # None
          /\ call[q].run = reservations'[call[q].id].run
          /\ call[q].amount = reservations'[call[q].id].amount
          /\ call[q].actual <= call[q].amount
    BY DEF Inv, CallsRemember, Remembers
  <2>3. Reserving(q) =>
          reservations'[call[q].id] = None /\ call[q].id \notin denials'
    BY <1>1 DEF Inv, CallsRemember, Remembers
  <2> QED BY <1>1, <2>1, <2>2, <2>3 DEF Inv, CallsRemember, Remembers
<1>2. Remembers(p)' /\ ~Reserving(p)'
  BY DEF Remembers, Reserving
<1>3. CallsRemember'
  BY <1>1, <1>2 DEF CallsRemember
<1>4. OwnIds'
  <2> SUFFICES ASSUME NEW r \in Procs, NEW q \in Procs, r # q, Reserving(r)'
               PROVE  call'[q].id # call'[r].id
    BY DEF OwnIds
  <2>1. r # p /\ Reserving(r) /\ call[r].id # None
    BY <1>1, <1>2 DEF Reserving
  <2>2. CASE q = p
    BY <2>1, <2>2 DEF Inv, OwnIds
  <2>3. CASE q # p
    BY <2>1, <2>3 DEF Inv, OwnIds
  <2> QED BY <2>2, <2>3
<1> QED BY <1>3, <1>4 DEF Inv

LEMMA DenyStep ==
  ASSUME Inv, NEW p \in Procs, Deny(p)
  PROVE  Inv'
<1>1. /\ call[p].id \in Ids /\ Reserving(p)
      /\ reservations[call[p].id] = None
  BY BudgetAssumption DEF Inv, CallsRemember, Remembers, Reserving, Deny
<1>2. /\ pc'[p] = "idle" /\ call'[p].id = None
      /\ \A q \in Procs \ {p} : /\ pc'[q] = pc[q] /\ call'[q] = call[q]
                               /\ return'[q] = return[q]
      /\ reservations' = reservations /\ charges' = charges
      /\ denials' = denials \cup {call[p].id}
  BY NoCallType DEF Inv, LedgerTypeOK, Deny, Done, Goto
<1>3. LedgerTypeOK'
  BY <1>1, NoCallType
  DEF Inv, LedgerTypeOK, Deny, Done, Goto, Labels, env
<1>4. LedgerConsistent'
  BY <1>1, <1>2 DEF Inv, LedgerConsistent
<1>5. \A q \in Procs \ {p} : Reserving(q) => call[q].id # call[p].id
  BY <1>1 DEF Inv, OwnIds
<1> QED BY <1>2, <1>3, <1>4, <1>5, WritingStep

LEMMA InsertStep ==
  ASSUME Inv, NEW p \in Procs, InsertReservation(p)
  PROVE  Inv'
<1>0. /\ call[p] \in CallRecord /\ call[p].id \in Ids
      /\ call[p].run \in Runs /\ call[p].amount \in Nat
      /\ Reserving(p) /\ reservations[call[p].id] = None
      /\ call[p].id \notin denials /\ charges[call[p].id] = None
  <2>1. call[p] \in CallRecord /\ call[p].id \in Ids /\ call[p].run \in Runs
    BY DEF Inv, LedgerTypeOK, CallsRemember, Remembers, InsertReservation
  <2>2. Reserving(p)
    BY <2>1, BudgetAssumption DEF Reserving, InsertReservation
  <2> QED
    BY <2>1, <2>2
    DEF CallRecord, Inv, CallsRemember, Remembers, LedgerConsistent
<1>1. CreditLater(p, call[p].run, call[p].amount) \/ Done(p)
  BY DEF InsertReservation
<1>2. /\ pc' \in [Procs -> Labels] /\ call' \in [Procs -> CallRecord]
      /\ pc'[p] \in {"credit", "idle"}
      /\ call'[p].id \in {call[p].id, None}
      /\ \A q \in Procs \ {p} : pc'[q] = pc[q] /\ call'[q] = call[q]
  BY <1>0, <1>1, CreditLaterType
<1>3. /\ ticket_cap' = ticket_cap /\ charges' = charges
      /\ denials' = denials /\ return' = return /\ day' = day
  BY DEF InsertReservation, env
<1>4. \/ reservations' = reservations
      \/ \E row \in Row :
           reservations' = [reservations EXCEPT ![call[p].id] = row]
           /\ row.status = "active"
  <2>1. [run |-> call[p].run, amount |-> call[p].amount,
         status |-> "active", day |-> day, owner |-> p] \in Row
    BY <1>0 DEF Row, Inv, LedgerTypeOK
  <2> QED BY <2>1 DEF InsertReservation
<1>5. LedgerTypeOK'
  BY <1>0, <1>2, <1>3, <1>4 DEF Inv, LedgerTypeOK
<1>6. \A i \in Ids : i # call[p].id => reservations'[i] = reservations[i]
  BY <1>4 DEF Inv, LedgerTypeOK
<1>7. \/ reservations'[call[p].id] = None
      \/ reservations'[call[p].id].status = "active"
  BY <1>0, <1>4 DEF Inv, LedgerTypeOK
<1>8. LedgerConsistent'
  <2> SUFFICES ASSUME NEW i \in Ids
               PROVE  /\ charges[i] # None =>
                           /\ reservations'[i] # None
                           /\ reservations'[i].status # "active"
                           /\ charges[i].run = reservations'[i].run
                           /\ charges[i].actual <= reservations'[i].amount
                      /\ reservations'[i] # None
                           /\ reservations'[i].status = "settled" =>
                           charges[i] # None
                      /\ i \in denials => reservations'[i] = None
    BY <1>3 DEF LedgerConsistent
  <2>1. CASE i = call[p].id
    BY <2>1, <1>0, <1>7
  <2>2. CASE i # call[p].id
    BY <2>2, <1>6 DEF Inv, LedgerConsistent
  <2> QED BY <2>1, <2>2
<1>9. \A q \in Procs \ {p} : Reserving(q) =>
        call[q].id # call[p].id /\ call[q].id \in Ids
  BY <1>0 DEF Inv, OwnIds, LedgerTypeOK, CallRecord, Reserving
<1> QED BY <1>0, <1>2, <1>3, <1>5, <1>6, <1>8, <1>9, WritingStep

LEMMA CloseRow ==
  ASSUME Inv, NEW i \in Ids, reservations[i] # None,
         NEW st \in {"settled", "released"},
         reservations' = [reservations EXCEPT ![i].status = st]
  PROVE  /\ reservations' \in [Ids -> Row \cup {None}]
         /\ reservations'[i] # None /\ reservations'[i].status = st
         /\ reservations'[i].run = reservations[i].run
         /\ reservations'[i].amount = reservations[i].amount
         /\ \A k \in Ids : k # i => reservations'[k] = reservations[k]
<1>1. reservations[i] \in Row
  BY DEF Inv, LedgerTypeOK
<1>2. /\ [reservations[i] EXCEPT !.status = st] \in Row
      /\ [reservations[i] EXCEPT !.status = st].status = st
      /\ [reservations[i] EXCEPT !.status = st].run = reservations[i].run
      /\ [reservations[i] EXCEPT !.status = st].amount = reservations[i].amount
  BY <1>1 DEF Row
<1>3. reservations' =
        [reservations EXCEPT ![i] = [reservations[i] EXCEPT !.status = st]]
  OBVIOUS
<1> QED BY <1>2, <1>3, BudgetAssumption DEF Inv, LedgerTypeOK

LEMMA SettleStep ==
  ASSUME Inv, NEW p \in Procs, SettleCommit(p)
  PROVE  Inv'
<1> DEFINE i == call[p].id
<1>0. /\ i \in Ids /\ reservations[i] \in Row /\ reservations[i] # None
      /\ call[p].run = reservations[i].run
      /\ call[p].amount = reservations[i].amount
      /\ call[p].actual <= reservations[i].amount
  BY DEF Inv, LedgerTypeOK, CallsRemember, Remembers, SettleCommit
<1>1. /\ call[p].run \in Runs /\ call[p].actual \in Nat
      /\ call[p].amount \in Nat /\ call[p].amount - call[p].actual \in Nat
  <2>1. call[p].actual \in Nat /\ reservations[i].amount \in Nat
        /\ reservations[i].run \in Runs
    BY <1>0 DEF Inv, LedgerTypeOK, CallRecord, Row
  <2> QED BY <1>0, <2>1
<1>2. /\ pc' \in [Procs -> Labels] /\ call' \in [Procs -> CallRecord]
      /\ pc'[p] \in {"credit", "idle"}
      /\ call'[p].id \in {call[p].id, None}
      /\ \A q \in Procs \ {p} : pc'[q] = pc[q] /\ call'[q] = call[q]
  <2>1. CreditLater(p, call[p].run, call[p].amount - call[p].actual)
        \/ Done(p)
    BY DEF SettleCommit
  <2> HIDE DEF i
  <2> QED BY <1>1, <2>1, CreditLaterType
<1>3. /\ ticket_cap' = ticket_cap /\ denials' = denials
      /\ return' = return /\ day' = day
  BY DEF SettleCommit, env
<1>4. CASE charges' = charges /\ reservations' = reservations
  <2>1. LedgerTypeOK' /\ LedgerConsistent'
    BY <1>2, <1>3, <1>4 DEF Inv, LedgerTypeOK, LedgerConsistent
  <2> HIDE DEF i
  <2> QED BY <1>2, <1>3, <1>4, <2>1, WritingStep
<1>5. CASE /\ charges' = [charges EXCEPT ![i] = [run |-> call[p].run,
                            actual |-> call[p].actual, day |-> day]]
           /\ reservations' = [reservations EXCEPT ![i].status = "settled"]
  <2>1. /\ reservations' \in [Ids -> Row \cup {None}]
        /\ reservations'[i] # None /\ reservations'[i].status = "settled"
        /\ reservations'[i].run = reservations[i].run
        /\ reservations'[i].amount = reservations[i].amount
        /\ \A k \in Ids : k # i => reservations'[k] = reservations[k]
    <3> HIDE DEF i
    <3> QED BY <1>0, <1>5, CloseRow
  <2>2. /\ charges' \in [Ids -> ChargeRow \cup {None}]
        /\ charges'[i] # None /\ charges'[i].run = call[p].run
        /\ charges'[i].actual = call[p].actual
        /\ \A k \in Ids : k # i => charges'[k] = charges[k]
    <3>1. [run |-> call[p].run, actual |-> call[p].actual, day |-> day]
            \in ChargeRow
      BY <1>1 DEF ChargeRow, Inv, LedgerTypeOK
    <3>2. [run |-> call[p].run, actual |-> call[p].actual, day |-> day] # None
      BY <3>1, BudgetAssumption
    <3> QED BY <1>0, <1>5, <3>1, <3>2 DEF Inv, LedgerTypeOK
  <2>3. LedgerTypeOK'
    BY <1>2, <1>3, <2>1, <2>2 DEF Inv, LedgerTypeOK
  <2>4. i \notin denials
    BY <1>0 DEF Inv, LedgerConsistent
  <2>5. LedgerConsistent'
    <3> SUFFICES ASSUME NEW k \in Ids
                 PROVE  /\ charges'[k] # None =>
                             /\ reservations'[k] # None
                             /\ reservations'[k].status # "active"
                             /\ charges'[k].run = reservations'[k].run
                             /\ charges'[k].actual <= reservations'[k].amount
                        /\ reservations'[k] # None
                             /\ reservations'[k].status = "settled" =>
                             charges'[k] # None
                        /\ k \in denials => reservations'[k] = None
      BY <1>3 DEF LedgerConsistent
    <3> HIDE DEF i
    <3>1. CASE k = i
      BY <3>1, <1>0, <2>1, <2>2, <2>4
    <3>2. CASE k # i
      BY <3>2, <2>1, <2>2 DEF Inv, LedgerConsistent
    <3> QED BY <3>1, <3>2
  <2>6. \A q \in Procs \ {p} : Reserving(q) => call[q].id # i
                                             /\ call[q].id \in Ids
    BY <1>0 DEF Inv, CallsRemember, Remembers, LedgerTypeOK, CallRecord,
       Reserving
  <2> HIDE DEF i
  <2> QED BY <1>2, <1>3, <2>1, <2>3, <2>5, <2>6, WritingStep
<1> QED BY <1>4, <1>5 DEF SettleCommit

LEMMA ReleaseStep ==
  ASSUME Inv, NEW p \in Procs, ReleaseCommit(p)
  PROVE  Inv'
<1> DEFINE i == call[p].id
<1>0. /\ i \in Ids /\ reservations[i] \in Row /\ reservations[i] # None
      /\ call[p].run = reservations[i].run
      /\ call[p].amount = reservations[i].amount
  BY DEF Inv, LedgerTypeOK, CallsRemember, Remembers, ReleaseCommit
<1>1. call[p].run \in Runs /\ call[p].amount \in Nat
  BY <1>0 DEF Row
<1>2. /\ pc' \in [Procs -> Labels] /\ call' \in [Procs -> CallRecord]
      /\ pc'[p] \in {"credit", "idle"}
      /\ call'[p].id \in {call[p].id, None}
      /\ \A q \in Procs \ {p} : pc'[q] = pc[q] /\ call'[q] = call[q]
  <2>1. CreditLater(p, call[p].run, call[p].amount)
    BY DEF ReleaseCommit
  <2> HIDE DEF i
  <2> QED BY <1>1, <2>1, CreditLaterType
<1>3. /\ ticket_cap' = ticket_cap /\ denials' = denials /\ charges' = charges
      /\ return' = return /\ day' = day
      /\ reservations' = [reservations EXCEPT ![i].status = "released"]
  BY DEF ReleaseCommit, env
<1>4. /\ reservations' \in [Ids -> Row \cup {None}]
      /\ reservations'[i] # None /\ reservations'[i].status = "released"
      /\ reservations'[i].run = reservations[i].run
      /\ reservations'[i].amount = reservations[i].amount
      /\ \A k \in Ids : k # i => reservations'[k] = reservations[k]
  <2> HIDE DEF i
  <2> QED BY <1>0, <1>3, CloseRow
<1> HIDE DEF i
<1>5. LedgerTypeOK'
  BY <1>2, <1>3, <1>4 DEF Inv, LedgerTypeOK
<1>6. LedgerConsistent'
  <2> SUFFICES ASSUME NEW k \in Ids
               PROVE  /\ charges[k] # None =>
                           /\ reservations'[k] # None
                           /\ reservations'[k].status # "active"
                           /\ charges[k].run = reservations'[k].run
                           /\ charges[k].actual <= reservations'[k].amount
                      /\ reservations'[k] # None
                           /\ reservations'[k].status = "settled" =>
                           charges[k] # None
                      /\ k \in denials => reservations'[k] = None
    BY <1>3 DEF LedgerConsistent
  <2>1. CASE k = i
    BY <2>1, <1>0, <1>4 DEF Inv, LedgerConsistent
  <2>2. CASE k # i
    BY <2>2, <1>4 DEF Inv, LedgerConsistent
  <2> QED BY <2>1, <2>2
<1>7. \A q \in Procs \ {p} : Reserving(q) => call[q].id # i
                                           /\ call[q].id \in Ids
  BY <1>0 DEF Inv, CallsRemember, Remembers, LedgerTypeOK, CallRecord,
     Reserving
<1> QED BY <1>2, <1>3, <1>4, <1>5, <1>6, <1>7, WritingStep

-----------------------------------------------------------------------------
LEMMA InitInv == Init => Inv
<1> SUFFICES ASSUME Init PROVE Inv
  OBVIOUS
<1>1. LedgerTypeOK
  BY NoCallType, BudgetAssumption DEF Init, LedgerTypeOK, Labels
<1>2. LedgerConsistent
  BY DEF Init, LedgerConsistent
<1>3. CallsRemember /\ OwnIds
  BY DEF Init, CallsRemember, OwnIds, Remembers, Reserving
<1> QED BY <1>1, <1>2, <1>3 DEF Inv

LEMMA EnvStep ==
  ASSUME Inv, RedisReset \/ NextDay \/ UNCHANGED vars
  PROVE  Inv'
<1>1. /\ UNCHANGED <<postgres, pc, call, return>>
      /\ UNCHANGED <<ticket_cap, reservations, charges, denials>>
  BY DEF RedisReset, NextDay, vars, local, postgres
<1>2. day' \in 0..MaxDay
  BY BudgetAssumption
  DEF Inv, LedgerTypeOK, RedisReset, NextDay, vars, env
<1>3. LedgerTypeOK' /\ LedgerConsistent'
  BY <1>1, <1>2 DEF Inv, LedgerTypeOK, LedgerConsistent
<1>4. CallsRemember' /\ OwnIds'
  BY <1>1 DEF Inv, CallsRemember, OwnIds, Remembers, Reserving
<1> QED BY <1>3, <1>4 DEF Inv

LEMMA NextInv == Inv /\ [Next]_vars => Inv'
<1> SUFFICES ASSUME Inv, [Next]_vars PROVE Inv'
  OBVIOUS
<1>1. CASE RedisReset \/ NextDay \/ UNCHANGED vars
  BY <1>1, EnvStep
<1>2. ASSUME NEW p \in Procs, ProcStep(p) PROVE Inv'
  <2>1. ASSUME NEW r \in Runs, NEW a \in Amounts, NEW i \in Ids,
               Reserve(p, r, a, i)
        PROVE  Inv'
    BY <2>1, ReserveStep
  <2>2. ASSUME NEW i \in Ids, NEW a \in Amounts \cup {0}, SettleRead(p, i, a)
        PROVE  Inv'
    <3>1. a \in Nat
      BY BudgetAssumption
    <3> QED BY <2>2, <3>1, ReadRowStep
  <2>3. ASSUME NEW i \in Ids, ReleaseRead(p, i) PROVE Inv'
    <3>1. 0 \in Nat
      OBVIOUS
    <3> QED BY <2>3, <3>1, ReadRowStep
  <2>4. ASSUME NEW r \in Runs,
               Balance(p, r) \/ \E c \in TicketCaps : ConfigureCaps(p, r, c)
        PROVE  Inv'
    BY <2>4, AdminStep
  <2>5. CASE \/ EnsureCounters(p) \/ ReconcileRead(p) \/ ReconcileSet(p)
             \/ Eval(p) \/ Credit(p) \/ Crash(p)
    BY <2>5, EnsureStep, ReconcileStep, EvalStep, CreditStep
  <2>6. CASE \/ Deny(p) \/ InsertReservation(p) \/ SettleCommit(p)
             \/ ReleaseCommit(p)
    BY <2>6, DenyStep, InsertStep, SettleStep, ReleaseStep
  <2> QED BY <1>2, <2>1, <2>2, <2>3, <2>4, <2>5, <2>6 DEF ProcStep
<1> QED BY <1>1, <1>2 DEF Next

LEMMA InvHolds == Spec => []Inv
BY InitInv, NextInv, PTL DEF Spec

\* For every team, every number of processes and whatever happens to Redis,
\* the rows written by reserve, settle and release_orphaned stay consistent:
\* a charge is within its closed reservation, a settled reservation has its
\* charge, a denied call has no reservation.
THEOREM LedgerCorrect == Spec => []LedgerConsistent
<1>1. Inv => LedgerConsistent
  BY DEF Inv
<1> QED BY <1>1, InvHolds, PTL

\* Every step that leaves both tables alone leaves what is final.
LEMMA NoWrite ==
  ASSUME UNCHANGED <<reservations, charges>>, NEW i \in Ids
  PROVE  LeavesFinal(i)
BY DEF LeavesFinal

LEMMA WriteIsFinal ==
  ASSUME Inv, NEW p \in Procs, NEW i \in Ids,
         InsertReservation(p) \/ SettleCommit(p) \/ ReleaseCommit(p)
  PROVE  LeavesFinal(i)
<1>1. CASE InsertReservation(p)
  <2>1. call[p].id \in Ids /\ reservations[call[p].id] = None
    BY <1>1, BudgetAssumption
    DEF Inv, CallsRemember, Remembers, Reserving, InsertReservation
  <2>2. charges' = charges
        /\ (i # call[p].id => reservations'[i] = reservations[i])
    BY <1>1, <2>1 DEF InsertReservation, Inv, LedgerTypeOK
  <2> QED BY <2>1, <2>2 DEF LeavesFinal
<1>2. CASE SettleCommit(p)
  <2>1. call[p].id \in Ids /\ reservations[call[p].id] # None
    BY <1>2 DEF Inv, CallsRemember, Remembers, SettleCommit
  <2>2. CASE UNCHANGED <<charges, reservations>>
    BY <2>2, NoWrite
  <2>3. CASE ~UNCHANGED <<charges, reservations>>
    <3>1. /\ charges[call[p].id] = None
          /\ charges' = [charges EXCEPT ![call[p].id] =
               [run |-> call[p].run, actual |-> call[p].actual, day |-> day]]
          /\ reservations' =
               [reservations EXCEPT ![call[p].id].status = "settled"]
      BY <1>2, <2>3 DEF SettleCommit, MayCharge
    <3>2. /\ reservations'[call[p].id].status = "settled"
          /\ reservations'[call[p].id].amount = reservations[call[p].id].amount
          /\ \A k \in Ids : k # call[p].id =>
                             reservations'[k] = reservations[k]
      BY <2>1, <3>1, CloseRow
    <3>3. i # call[p].id => charges'[i] = charges[i]
      BY <2>1, <3>1 DEF Inv, LedgerTypeOK
    <3> QED BY <3>1, <3>2, <3>3 DEF LeavesFinal
  <2> QED BY <2>2, <2>3
<1>3. CASE ReleaseCommit(p)
  <2>1. /\ call[p].id \in Ids /\ reservations[call[p].id] # None
        /\ charges' = charges
        /\ reservations' =
             [reservations EXCEPT ![call[p].id].status = "released"]
    BY <1>3 DEF Inv, CallsRemember, Remembers, ReleaseCommit
  <2>2. /\ reservations'[call[p].id].status = "released"
        /\ reservations'[call[p].id].amount = reservations[call[p].id].amount
        /\ \A k \in Ids : k # call[p].id => reservations'[k] = reservations[k]
    BY <2>1, CloseRow
  <2> QED BY <2>1, <2>2 DEF LeavesFinal
<1> QED BY <1>1, <1>2, <1>3

\* For every number of processes: no interleaving of settle, release_orphaned
\* and a failing insert rewrites a charge, changes a reserved amount or
\* reopens a closed reservation.
THEOREM ChargesAreFinal == Spec => ChargeIsFinal
<1>1. ASSUME Inv, [Next]_vars
      PROVE  [\A i \in Ids : LeavesFinal(i)]_vars
  <2> SUFFICES ASSUME NEW i \in Ids, Next PROVE LeavesFinal(i)
    BY <1>1
  <2>1. ASSUME NEW p \in Procs,
               InsertReservation(p) \/ SettleCommit(p) \/ ReleaseCommit(p)
        PROVE  LeavesFinal(i)
    BY <1>1, <2>1, WriteIsFinal
  <2>2. ASSUME NEW p \in Procs, ProcStep(p),
               ~(InsertReservation(p) \/ SettleCommit(p) \/ ReleaseCommit(p))
        PROVE  UNCHANGED <<reservations, charges>>
    BY <2>2 DEF ProcStep, Reserve, EnsureCounters, ReconcileRead, ReconcileSet,
       Eval, Deny, SettleRead, ReleaseRead, Credit, ConfigureCaps, Balance,
       Crash, postgres
  <2>3. CASE RedisReset \/ NextDay
    BY <2>3, NoWrite DEF RedisReset, NextDay, postgres
  <2> QED BY <2>1, <2>2, <2>3, NoWrite DEF Next
<1> QED BY <1>1, InvHolds, PTL DEF Spec, ChargeIsFinal

-----------------------------------------------------------------------------
(* Sums over finite sets.  The library's induction theorems are about        *)
(* operators; a set of counterexamples has a smallest member instead.        *)

LEMMA SmallestSet ==
  ASSUME NEW B, B # {}, \A s \in B : IsFiniteSet(s)
  PROVE  \E s \in B : \A x \in s : s \ {x} \notin B
<1> DEFINE N == {Cardinality(s) : s \in B}
<1>1. N \subseteq Nat /\ N # {}
  BY FS_CardinalityType
<1>2. PICK n \in N : \A m \in N : ~ (<<m, n>> \in OpToRel(<, Nat))
  BY <1>1, WFMin, NatLessThanWellFounded
<1>3. PICK s \in B : Cardinality(s) = n
  OBVIOUS
<1>4. \A m \in N : ~ (m < n)
  BY <1>1, <1>2 DEF OpToRel
<1>5. ASSUME NEW x \in s, s \ {x} \in B PROVE FALSE
  <2>1. Cardinality(s \ {x}) = Cardinality(s) - 1 /\ Cardinality(s) \in Nat
    BY FS_RemoveElement, FS_CardinalityType
  <2> QED BY <1>3, <1>4, <1>5, <2>1
<1> QED BY <1>3, <1>5

Pick(s) == CHOOSE x \in s : TRUE

AddsUp(g, F, S) ==
  g = [s \in SUBSET S |-> IF s = {} THEN 0 ELSE F[Pick(s)] + g[s \ {Pick(s)}]]

LEMMA PickIn == \A s : s # {} => Pick(s) \in s
  BY DEF Pick

LEMMA AddsUpUnique ==
  ASSUME NEW S, NEW R, IsFiniteSet(S), NEW F, NEW E, NEW g, NEW h,
         AddsUp(g, F, S), AddsUp(h, E, R), \A x \in S : F[x] = E[x]
  PROVE  \A u : u \subseteq S /\ u \subseteq R => g[u] = h[u]
<1> DEFINE B == {u \in SUBSET S : u \subseteq R /\ g[u] # h[u]}
<1> SUFFICES ASSUME B # {} PROVE FALSE
  OBVIOUS
<1>1. PICK u \in B : \A x \in u : u \ {x} \notin B
  BY SmallestSet, FS_Subset
<1>2. /\ g[u] = IF u = {} THEN 0 ELSE F[Pick(u)] + g[u \ {Pick(u)}]
      /\ h[u] = IF u = {} THEN 0 ELSE E[Pick(u)] + h[u \ {Pick(u)}]
  BY DEF AddsUp
<1>3. u # {}
  BY <1>2
<1>4. Pick(u) \in u
  BY <1>3, PickIn
<1>5. g[u \ {Pick(u)}] = h[u \ {Pick(u)}]
  BY <1>1, <1>4
<1> QED BY <1>2, <1>3, <1>4, <1>5

Total(F, S) == (CHOOSE g : AddsUp(g, F, S))[S]

LEMMA AddsUpExists ==
  ASSUME NEW S, IsFiniteSet(S), NEW F
  PROVE  \E g : AddsUp(g, F, S)
<1> DEFINE Has(u) == \E g : AddsUp(g, F, u)
           B == {s \in SUBSET S : ~ \A u \in SUBSET s : Has(u)}
<1> SUFFICES ASSUME B # {} PROVE FALSE
  OBVIOUS
<1>1. PICK s \in B : \A x \in s : s \ {x} \notin B
  BY SmallestSet, FS_Subset
<1>2. \A u \in SUBSET s : u # s => Has(u)
  <2> TAKE u \in SUBSET s
  <2> HAVE u # s
  <2>1. PICK x \in s : u \subseteq s \ {x}
    OBVIOUS
  <2> QED BY <1>1, <2>1
<1>3. ~ Has(s)
  BY <1>1, <1>2
<1> DEFINE Value(u) == IF u = {} THEN 0 ELSE F[Pick(u)] + Total(F, u \ {Pick(u)})
           G == [u \in SUBSET s |-> Value(u)]
<1>4. ASSUME NEW v \in SUBSET s, v # s PROVE Total(F, v) = Value(v)
  <2> DEFINE g == CHOOSE g : AddsUp(g, F, v)
  <2>1. AddsUp(g, F, v)
    BY <1>2, <1>4
  <2>2. Total(F, v) = g[v]
    BY DEF Total
  <2>3. g[v] = IF v = {} THEN 0 ELSE F[Pick(v)] + g[v \ {Pick(v)}]
    BY <2>1 DEF AddsUp
  <2>4. CASE v = {}
    BY <2>2, <2>3, <2>4
  <2>5. CASE v # {}
    <3>1. PICK w : w = v \ {Pick(v)}
      OBVIOUS
    <3>2. w \subseteq v /\ w # s /\ w \in SUBSET s /\ IsFiniteSet(w)
      BY <3>1, <1>4, <2>5, PickIn, FS_Subset
    <3> DEFINE h == CHOOSE h : AddsUp(h, F, w)
    <3>3. AddsUp(h, F, w)
      BY <1>2, <3>2
    <3>4. h[w] = g[w]
      <4> HIDE DEF h, g
      <4> QED BY <2>1, <3>2, <3>3, AddsUpUnique
    <3>5. Total(F, w) = h[w]
      BY DEF Total
    <3> HIDE DEF g, h
    <3> QED BY <2>2, <2>3, <2>5, <3>1, <3>4, <3>5
  <2> QED BY <2>4, <2>5
<1>5. AddsUp(G, F, s)
  <2>1. ASSUME NEW u \in SUBSET s, u # {} PROVE Total(F, u \ {Pick(u)}) = G[u \ {Pick(u)}]
    <3>1. u \ {Pick(u)} \in SUBSET s /\ u \ {Pick(u)} # s
      BY <2>1, PickIn
    <3> QED BY <1>4, <3>1
  <2> HIDE DEF G
  <2>2. G = [u \in SUBSET s |-> IF u = {} THEN 0 ELSE F[Pick(u)] + Total(F, u \ {Pick(u)})]
    BY DEF G
  <2> QED BY <2>1, <2>2 DEF AddsUp
<1> QED BY <1>3, <1>5

LEMMA TotalUnfolds ==
  ASSUME NEW S, IsFiniteSet(S), NEW F
  PROVE  Total(F, S) = IF S = {} THEN 0 ELSE F[Pick(S)] + Total(F, S \ {Pick(S)})
<1> DEFINE g == CHOOSE g : AddsUp(g, F, S)
           w == S \ {Pick(S)}
           h == CHOOSE h : AddsUp(h, F, w)
<1>1. AddsUp(g, F, S)
  BY AddsUpExists
<1>2. IsFiniteSet(w)
  BY FS_Subset
<1>3. AddsUp(h, F, w)
  BY <1>2, AddsUpExists
<1>4. Total(F, S) = g[S] /\ Total(F, w) = h[w]
  BY DEF Total
<1> HIDE DEF g, h
<1>5. g[S] = IF S = {} THEN 0 ELSE F[Pick(S)] + g[w]
  BY <1>1 DEF AddsUp
<1>6. h[w] = g[w]
  BY <1>1, <1>2, <1>3, AddsUpUnique
<1> QED BY <1>4, <1>5, <1>6

LEMMA TotalSame ==
  ASSUME NEW S, IsFiniteSet(S), NEW F, NEW E, \A x \in S : F[x] = E[x]
  PROVE  Total(F, S) = Total(E, S)
<1> DEFINE g == CHOOSE g : AddsUp(g, F, S)
           h == CHOOSE h : AddsUp(h, E, S)
<1>1. AddsUp(g, F, S) /\ AddsUp(h, E, S)
  BY AddsUpExists
<1>2. Total(F, S) = g[S] /\ Total(E, S) = h[S]
  BY DEF Total
<1> HIDE DEF g, h
<1>3. \A u : u \subseteq S /\ u \subseteq S => g[u] = h[u]
  BY <1>1, AddsUpUnique
<1> QED BY <1>2, <1>3

LEMMA TotalNat ==
  ASSUME NEW S, IsFiniteSet(S), NEW F, \A x \in S : F[x] \in Nat
  PROVE  Total(F, S) \in Nat
<1> DEFINE B == {s \in SUBSET S : Total(F, s) \notin Nat}
<1> SUFFICES ASSUME B # {} PROVE FALSE
  OBVIOUS
<1>0. \A u \in SUBSET S : IsFiniteSet(u)
  BY FS_Subset
<1>1. PICK s \in B : \A x \in s : s \ {x} \notin B
  BY <1>0, SmallestSet
<1>2. Total(F, s) = IF s = {} THEN 0 ELSE F[Pick(s)] + Total(F, s \ {Pick(s)})
  BY <1>0, TotalUnfolds
<1>3. s # {}
  BY <1>2
<1>4. Pick(s) \in s
  BY <1>3, PickIn
<1>5. Total(F, s \ {Pick(s)}) \in Nat /\ F[Pick(s)] \in Nat
  BY <1>1, <1>4
<1> QED BY <1>2, <1>3, <1>5

\* One element of a sum stands out, whichever it is.
LEMMA TotalWithout ==
  ASSUME NEW S, IsFiniteSet(S), NEW F, \A x \in S : F[x] \in Nat, NEW x \in S
  PROVE  Total(F, S) = F[x] + Total(F, S \ {x})
<1> DEFINE B == {s \in SUBSET S : \E y \in s : Total(F, s) # F[y] + Total(F, s \ {y})}
<1> SUFFICES ASSUME B # {} PROVE FALSE
  OBVIOUS
<1>0. \A u \in SUBSET S : IsFiniteSet(u) /\ Total(F, u) \in Nat
  BY FS_Subset, TotalNat
<1>1. PICK s \in B : \A z \in s : s \ {z} \notin B
  BY <1>0, SmallestSet
<1>2. PICK y \in s : Total(F, s) # F[y] + Total(F, s \ {y})
  OBVIOUS
<1>3. PICK z \in s : z = Pick(s)
  BY <1>2, PickIn
<1>4. Total(F, s) = F[z] + Total(F, s \ {z})
  BY <1>0, <1>2, <1>3, TotalUnfolds
<1>5. y # z
  BY <1>2, <1>4
<1>6. Total(F, s \ {z}) = F[y] + Total(F, (s \ {z}) \ {y})
  BY <1>1, <1>5
<1>7. Total(F, s \ {y}) = F[z] + Total(F, (s \ {y}) \ {z})
  BY <1>1, <1>5
<1>8. (s \ {z}) \ {y} = (s \ {y}) \ {z}
  OBVIOUS
<1>9. F[y] \in Nat /\ F[z] \in Nat /\ Total(F, (s \ {z}) \ {y}) \in Nat
  BY <1>0
<1> QED BY <1>2, <1>4, <1>6, <1>7, <1>8, <1>9

\* Elements that add nothing may be left out.
LEMMA TotalZeros ==
  ASSUME NEW S, IsFiniteSet(S), NEW T \in SUBSET S, NEW F,
         \A x \in S : F[x] \in Nat, \A x \in S \ T : F[x] = 0
  PROVE  Total(F, S) = Total(F, T)
<1> DEFINE B == {s \in SUBSET S : Total(F, s) # Total(F, s \cap T)}
<1> SUFFICES ASSUME B # {} PROVE FALSE
  <2>1. S \cap T = T
    OBVIOUS
  <2> QED BY <2>1
<1>0. \A u \in SUBSET S : IsFiniteSet(u) /\ Total(F, u) \in Nat
  BY FS_Subset, TotalNat
<1>1. PICK s \in B : \A z \in s : s \ {z} \notin B
  BY <1>0, SmallestSet
<1>2. s \cap T # s
  OBVIOUS
<1>3. PICK x \in s : x \notin T
  BY <1>2
<1>4. Total(F, s) = F[x] + Total(F, s \ {x})
  BY <1>0, TotalWithout
<1>5. (s \ {x}) \cap T = s \cap T
  BY <1>3
<1>6. Total(F, s \ {x}) = Total(F, (s \ {x}) \cap T)
  BY <1>1
<1>7. F[x] = 0 /\ Total(F, s \ {x}) \in Nat
  BY <1>0, <1>3
<1>8. Total(F, s) # Total(F, s \cap T)
  OBVIOUS
<1>9. Total(F, s) = Total(F, s \ {x})
  BY <1>4, <1>7
<1>10. Total(F, (s \ {x}) \cap T) = Total(F, s \cap T)
  BY <1>5
<1> QED BY <1>6, <1>8, <1>9, <1>10

\* One summand changes.
LEMMA TotalChange ==
  ASSUME NEW S, IsFiniteSet(S), NEW F, NEW E, NEW x \in S,
         \A y \in S : F[y] \in Nat /\ E[y] \in Nat, \A y \in S \ {x} : F[y] = E[y]
  PROVE  Total(E, S) = Total(F, S) - F[x] + E[x]
<1>0. IsFiniteSet(S \ {x})
  BY FS_Subset
<1>1. Total(F, S) = F[x] + Total(F, S \ {x}) /\ Total(E, S) = E[x] + Total(E, S \ {x})
  BY TotalWithout
<1>2. Total(F, S \ {x}) = Total(E, S \ {x})
  BY <1>0, TotalSame
<1>3. Total(F, S \ {x}) \in Nat
  BY <1>0, TotalNat
<1> QED BY <1>1, <1>2, <1>3

\* The SUM queries, on rows given as arguments.
ActiveOf(res, k) ==
  MapThenSumSet(LAMBDA i : res[i].amount,
    {i \in Ids : /\ res[i] # None /\ res[i].status = "active"
                 /\ Counts(k, res[i].run, res[i].day)})

ActualOf(chg, k) ==
  MapThenSumSet(LAMBDA i : chg[i].actual,
    {i \in Ids : chg[i] # None /\ Counts(k, chg[i].run, chg[i].day)})

ActiveShare(row, k) ==
  IF row # None /\ row.status = "active" /\ Counts(k, row.run, row.day) THEN row.amount ELSE 0
ActualShare(row, k) ==
  IF row # None /\ Counts(k, row.run, row.day) THEN row.actual ELSE 0

LEMMA ActiveTotal ==
  ASSUME NEW res \in [Ids -> Row \cup {None}], NEW k
  PROVE  /\ ActiveOf(res, k) = Total([i \in Ids |-> ActiveShare(res[i], k)], Ids)
         /\ \A i \in Ids : ActiveShare(res[i], k) \in Nat
<1> DEFINE F == [i \in Ids |-> ActiveShare(res[i], k)]
           P == {i \in Ids : /\ res[i] # None /\ res[i].status = "active"
                             /\ Counts(k, res[i].run, res[i].day)}
           Body(g) == [s \in SUBSET P |-> IF s = {} THEN 0
                          ELSE res[CHOOSE x \in s : TRUE].amount + g[s \ {CHOOSE x \in s : TRUE}]]
           h == CHOOSE g : g = Body(g)
           f == CHOOSE f : AddsUp(f, F, P)
<1>0. IsFiniteSet(Ids) /\ IsFiniteSet(P)
  BY BudgetAssumption, FS_Subset
<1>1. ActiveOf(res, k) = h[P]
  BY DEF ActiveOf, MapThenSumSet, MapThenFoldSet
<1>2. \A g : AddsUp(g, F, P) <=> g = Body(g)
  <2> TAKE g
  <2>1. ASSUME NEW s \in SUBSET P, s # {} PROVE F[Pick(s)] = res[Pick(s)].amount
    BY <2>1, PickIn DEF ActiveShare
  <2> HIDE DEF F, P
  <2> QED BY <2>1 DEF AddsUp, Pick
<1>3. AddsUp(h, F, P)
  <2>1. PICK g : AddsUp(g, F, P)
    BY <1>0, AddsUpExists
  <2>2. g = Body(g)
    BY <1>2, <2>1
  <2> HIDE DEF Body
  <2>3. h = Body(h)
    BY <2>2
  <2> HIDE DEF h
  <2> QED BY <1>2, <2>3
<1>4. AddsUp(f, F, P)
  BY <1>0, AddsUpExists
<1>5. Total(F, P) = f[P]
  BY DEF Total
<1>6. h[P] = f[P]
  <2> HIDE DEF h, f, F, P
  <2>1. \A u : u \subseteq P /\ u \subseteq P => h[u] = f[u]
    BY <1>0, <1>3, <1>4, AddsUpUnique
  <2> QED BY <2>1
<1>7. \A i \in Ids : ActiveShare(res[i], k) \in Nat /\ (i \notin P => ActiveShare(res[i], k) = 0)
  BY DEF ActiveShare, Row
<1>8. Total(F, Ids) = Total(F, P)
  <2>1. \A i \in Ids : F[i] \in Nat
    BY <1>7
  <2>2. \A i \in Ids \ P : F[i] = 0
    BY <1>7
  <2>3. P \in SUBSET Ids
    OBVIOUS
  <2> HIDE DEF F, P
  <2> QED BY <1>0, <2>1, <2>2, <2>3, TotalZeros
<1> HIDE DEF h, f, P
<1> QED BY <1>1, <1>5, <1>6, <1>7, <1>8

LEMMA ActualTotal ==
  ASSUME NEW chg \in [Ids -> ChargeRow \cup {None}], NEW k
  PROVE  /\ ActualOf(chg, k) = Total([i \in Ids |-> ActualShare(chg[i], k)], Ids)
         /\ \A i \in Ids : ActualShare(chg[i], k) \in Nat
<1> DEFINE F == [i \in Ids |-> ActualShare(chg[i], k)]
           P == {i \in Ids : chg[i] # None /\ Counts(k, chg[i].run, chg[i].day)}
           Body(g) == [s \in SUBSET P |-> IF s = {} THEN 0
                          ELSE chg[CHOOSE x \in s : TRUE].actual + g[s \ {CHOOSE x \in s : TRUE}]]
           h == CHOOSE g : g = Body(g)
           f == CHOOSE f : AddsUp(f, F, P)
<1>0. IsFiniteSet(Ids) /\ IsFiniteSet(P)
  BY BudgetAssumption, FS_Subset
<1>1. ActualOf(chg, k) = h[P]
  BY DEF ActualOf, MapThenSumSet, MapThenFoldSet
<1>2. \A g : AddsUp(g, F, P) <=> g = Body(g)
  <2> TAKE g
  <2>1. ASSUME NEW s \in SUBSET P, s # {} PROVE F[Pick(s)] = chg[Pick(s)].actual
    BY <2>1, PickIn DEF ActualShare
  <2> HIDE DEF F, P
  <2> QED BY <2>1 DEF AddsUp, Pick
<1>3. AddsUp(h, F, P)
  <2>1. PICK g : AddsUp(g, F, P)
    BY <1>0, AddsUpExists
  <2>2. g = Body(g)
    BY <1>2, <2>1
  <2> HIDE DEF Body
  <2>3. h = Body(h)
    BY <2>2
  <2> HIDE DEF h
  <2> QED BY <1>2, <2>3
<1>4. AddsUp(f, F, P)
  BY <1>0, AddsUpExists
<1>5. Total(F, P) = f[P]
  BY DEF Total
<1>6. h[P] = f[P]
  <2> HIDE DEF h, f, F, P
  <2>1. \A u : u \subseteq P /\ u \subseteq P => h[u] = f[u]
    BY <1>0, <1>3, <1>4, AddsUpUnique
  <2> QED BY <2>1
<1>7. \A i \in Ids : ActualShare(chg[i], k) \in Nat /\ (i \notin P => ActualShare(chg[i], k) = 0)
  BY DEF ActualShare, ChargeRow
<1>8. Total(F, Ids) = Total(F, P)
  <2>1. \A i \in Ids : F[i] \in Nat
    BY <1>7
  <2>2. \A i \in Ids \ P : F[i] = 0
    BY <1>7
  <2>3. P \in SUBSET Ids
    OBVIOUS
  <2> HIDE DEF F, P
  <2> QED BY <1>0, <2>1, <2>2, <2>3, TotalZeros
<1> HIDE DEF h, f, P
<1> QED BY <1>1, <1>5, <1>6, <1>7, <1>8

LEMMA SumsNow ==
  ASSUME NEW k
  PROVE  /\ Active(k) = ActiveOf(reservations, k) /\ Actual(k) = ActualOf(charges, k)
         /\ Active(k)' = ActiveOf(reservations', k) /\ Actual(k)' = ActualOf(charges', k)
  BY DEF Active, Actual, ActiveOf, ActualOf, MapThenSumSet, MapThenFoldSet

-----------------------------------------------------------------------------
(* The counters stay natural numbers.                                        *)

CountersTyped ==
  /\ counter \in [Keys -> Nat \cup {None}]
  /\ todo \in [Procs -> Seq(Keys)]
  /\ snap \in [Procs -> [1..3 -> Nat]]
  /\ resets \in 0..MaxResets /\ faults \in 0..MaxFaults

\* A call that works through the counters has some left.
KeysLeft == \A p \in Procs : pc[p] \in {"set", "credit"} => Len(todo[p]) \in 1..3

FullInv == Inv /\ CountersTyped /\ KeysLeft

LEMMA CentsNat == \A n \in Nat : UsdToCents(n) \in Nat
<1> TAKE n \in Nat
<1>1. UnitsPerCent \in Nat \ {0}
  BY BudgetAssumption
<1>2. UnitsPerCent \div 2 \in Nat
  BY <1>1
<1>3. n + (UnitsPerCent \div 2) \in Nat
  BY <1>2
<1> QED BY <1>1, <1>3 DEF UsdToCents

LEMMA KeysOfRun ==
  ASSUME Inv, NEW r \in Runs
  PROVE  /\ KeySet(r) \subseteq Keys /\ CounterKeys(r) \in Seq(Keys)
         /\ CounterKeys(r) = <<TicketKey(r), DailyKey(day), MonthlyKey>>
         /\ Len(CounterKeys(r)) = 3 /\ \A n \in 1..3 : CounterKeys(r)[n] \in KeySet(r)
<1>1. TicketKey(r) \in Keys /\ DailyKey(day) \in Keys /\ MonthlyKey \in Keys
  BY DEF Inv, LedgerTypeOK, Keys
<1> QED BY <1>1 DEF KeySet, CounterKeys

LEMMA SumsNat ==
  ASSUME Inv, NEW k
  PROVE  Active(k) \in Nat /\ Actual(k) \in Nat
<1>0. IsFiniteSet(Ids)
  BY BudgetAssumption
<1>1. reservations \in [Ids -> Row \cup {None}] /\ charges \in [Ids -> ChargeRow \cup {None}]
  BY DEF Inv, LedgerTypeOK
<1>2. PICK F : F = [i \in Ids |-> ActiveShare(reservations[i], k)]
  OBVIOUS
<1>3. PICK G : G = [i \in Ids |-> ActualShare(charges[i], k)]
  OBVIOUS
<1>4. Active(k) = Total(F, Ids) /\ \A i \in Ids : F[i] \in Nat
  BY <1>1, <1>2, ActiveTotal, SumsNow
<1>5. Actual(k) = Total(G, Ids) /\ \A i \in Ids : G[i] \in Nat
  BY <1>1, <1>3, ActualTotal, SumsNow
<1> QED BY <1>0, <1>4, <1>5, TotalNat

LEMMA RemainingNat ==
  ASSUME Inv, NEW k \in Keys
  PROVE  Remaining(k) \in Nat
<1>1. Active(k) \in Nat /\ Actual(k) \in Nat
  BY SumsNat
<1>2. Cap(k) \in Nat
  BY BudgetAssumption DEF Inv, LedgerTypeOK, Cap, Keys, TicketKey, DailyKey, MonthlyKey
<1> QED BY <1>1, <1>2 DEF Remaining, AtLeastZero

LEMMA HeadTail ==
  ASSUME NEW S, NEW sq \in Seq(S), Len(sq) \in 1..3
  PROVE  /\ Head(sq) \in S /\ Tail(sq) \in Seq(S) /\ Len(Tail(sq)) = Len(sq) - 1
         /\ Head(sq) = sq[1] /\ \A n \in 1..Len(sq) - 1 : Tail(sq)[n] = sq[n + 1]
<1>1. sq # <<>>
  OBVIOUS
<1> QED BY <1>1

\* What a step of p does to its own fields.
LEMMA TypedStep ==
  ASSUME FullInv, Inv', NEW p \in Procs,
         counter' \in [Keys -> Nat \cup {None}],
         todo' \in [Procs -> Seq(Keys)], \A q \in Procs \ {p} : todo'[q] = todo[q],
         \A q \in Procs \ {p} : pc'[q] = pc[q],
         pc'[p] \in {"set", "credit"} => Len(todo'[p]) \in 1..3,
         snap' \in [Procs -> [1..3 -> Nat]],
         UNCHANGED resets, faults' \in 0..MaxFaults
  PROVE  FullInv'
  BY DEF FullInv, CountersTyped, KeysLeft

LEMMA QuietStep ==
  ASSUME FullInv, Inv', NEW p \in Procs, UNCHANGED <<counter, todo, snap, resets, faults>>,
         \A q \in Procs \ {p} : pc'[q] = pc[q], pc'[p] \notin {"set", "credit"}
  PROVE  FullInv'
  BY TypedStep DEF FullInv, CountersTyped

LEMMA CreditLaterTyped ==
  ASSUME FullInv, NEW p \in Procs, NEW r \in Runs, NEW a, CreditLater(p, r, a) \/ Done(p)
  PROVE  /\ todo' \in [Procs -> Seq(Keys)] /\ \A q \in Procs \ {p} : todo'[q] = todo[q]
         /\ \A q \in Procs \ {p} : pc'[q] = pc[q]
         /\ pc'[p] \in {"set", "credit"} => Len(todo'[p]) \in 1..3
<1>1. pc \in [Procs -> Labels] /\ todo \in [Procs -> Seq(Keys)]
  BY DEF FullInv, Inv, LedgerTypeOK, CountersTyped
<1>2. CASE Done(p)
  BY <1>1, <1>2 DEF Done, Goto
<1>3. CASE ~ Done(p)
  <2>1. /\ todo' = [todo EXCEPT ![p] = CounterKeys(r)] /\ pc' = [pc EXCEPT ![p] = "credit"]
    BY <1>3 DEF CreditLater, Goto
  <2>2. CounterKeys(r) \in Seq(Keys) /\ Len(CounterKeys(r)) \in 1..3
    BY KeysOfRun DEF FullInv
  <2> QED BY <1>1, <2>1, <2>2
<1> QED BY <1>2, <1>3

LEMMA FullEval ==
  ASSUME FullInv, Inv', NEW p \in Procs, Eval(p)
  PROVE  FullInv'
<1>0. counter \in [Keys -> Nat \cup {None}] /\ pc \in [Procs -> Labels] /\ call \in [Procs -> CallRecord]
  BY DEF FullInv, Inv, LedgerTypeOK, CountersTyped
<1>1. /\ UNCHANGED <<todo, snap, resets, faults>> /\ pc'[p] \notin {"set", "credit"}
      /\ \A q \in Procs \ {p} : pc'[q] = pc[q]
  BY <1>0 DEF Eval, Goto, env
<1>2. PICK r : r = call[p].run
  OBVIOUS
<1>3. PICK cents : cents = UsdToCents(call[p].amount)
  OBVIOUS
<1>4. r \in Runs
  BY <1>2 DEF FullInv, Inv, CallsRemember, Remembers, Eval
<1>5. cents \in Nat
  BY <1>0, <1>3, CentsNat DEF CallRecord
<1>6. CASE UNCHANGED counter
  BY <1>1, <1>6, QuietStep
<1>7. CASE counter' # counter
  <2>1. /\ ~ (\E k \in KeySet(r) : counter[k] = None) /\ ScriptCovers(r, cents)
        /\ counter' = [k \in Keys |-> IF k \in KeySet(r) THEN counter[k] - cents ELSE counter[k]]
    BY <1>2, <1>3, <1>7 DEF Eval
  <2>2. \A k \in KeySet(r) : counter[k] \in Nat /\ counter[k] - cents \in Nat
    BY <1>0, <1>4, <1>5, <2>1, KeysOfRun DEF ScriptCovers, FullInv
  <2>3. counter' \in [Keys -> Nat \cup {None}]
    BY <1>0, <2>1, <2>2
  <2> QED BY <1>1, <2>3, TypedStep DEF FullInv, CountersTyped
<1> QED BY <1>6, <1>7

LEMMA FullReconcile ==
  ASSUME FullInv, Inv', NEW p \in Procs, ReconcileRead(p) \/ ReconcileSet(p)
  PROVE  FullInv'
<1>0. /\ counter \in [Keys -> Nat \cup {None}] /\ pc \in [Procs -> Labels]
      /\ todo \in [Procs -> Seq(Keys)] /\ snap \in [Procs -> [1..3 -> Nat]]
  BY DEF FullInv, Inv, LedgerTypeOK, CountersTyped
<1>1. CASE ReconcileRead(p)
  <2>1. PICK r \in Runs : r = call[p].run
    BY <1>1 DEF FullInv, Inv, CallsRemember, Remembers, ReconcileRead
  <2>2. PICK keys : keys = CounterKeys(r)
    OBVIOUS
  <2>3. PICK f : f = [n \in 1..3 |-> Remaining(keys[n])]
    OBVIOUS
  <2>4. /\ todo' = [todo EXCEPT ![p] = keys] /\ snap' = [snap EXCEPT ![p] = f]
        /\ pc' = [pc EXCEPT ![p] = "set"] /\ UNCHANGED <<counter, resets, faults>>
    BY <1>1, <2>1, <2>2, <2>3 DEF ReconcileRead, Goto, env
  <2>5. keys \in Seq(Keys) /\ Len(keys) = 3
    BY <2>2, KeysOfRun DEF FullInv
  <2>6. \A n \in 1..3 : keys[n] \in Keys
    BY <2>2, KeysOfRun DEF FullInv
  <2>7. \A k \in Keys : Remaining(k) \in Nat
    BY RemainingNat DEF FullInv
  <2>8. f \in [1..3 -> Nat]
    BY <2>3, <2>6, <2>7
  <2>9. /\ todo' \in [Procs -> Seq(Keys)] /\ snap' \in [Procs -> [1..3 -> Nat]]
        /\ \A q \in Procs \ {p} : todo'[q] = todo[q] /\ pc'[q] = pc[q]
    BY <1>0, <2>4, <2>5, <2>8
  <2>10. Len(todo'[p]) \in 1..3
    BY <1>0, <2>4, <2>5
  <2>11. faults' \in 0..MaxFaults /\ counter' \in [Keys -> Nat \cup {None}]
    BY <1>0, <2>4 DEF FullInv, CountersTyped
  <2> QED BY <2>4, <2>9, <2>10, <2>11, TypedStep
<1>2. CASE ReconcileSet(p)
  <2>1. Len(todo[p]) \in 1..3 /\ todo[p] \in Seq(Keys)
    BY <1>0, <1>2 DEF FullInv, KeysLeft, ReconcileSet
  <2>2. PICK k \in Keys : k = Head(todo[p])
    BY <2>1, HeadTail
  <2>3. 4 - Len(todo[p]) \in 1..3
    <3>1. PICK n \in 1..3 : n = Len(todo[p])
      BY <2>1
    <3>2. 4 - n \in 1..3
      OBVIOUS
    <3> QED BY <3>1, <3>2
  <2>4. PICK v \in Nat : v = UsdToCents(snap[p][4 - Len(todo[p])])
    BY <1>0, <2>3, CentsNat
  <2>5. /\ counter' = [counter EXCEPT ![k] = v] /\ todo' = [todo EXCEPT ![p] = Tail(todo[p])]
        /\ UNCHANGED <<resets, faults>>
    BY <1>2, <2>2, <2>4 DEF ReconcileSet, env
  <2>6. Tail(todo[p]) \in Seq(Keys) /\ Len(Tail(todo[p])) = Len(todo[p]) - 1
    BY <2>1, HeadTail
  <2>7. counter' \in [Keys -> Nat \cup {None}] /\ todo' \in [Procs -> Seq(Keys)]
    BY <1>0, <2>5, <2>6
  <2>8. <<0, 0, 0>> \in [1..3 -> Nat]
    OBVIOUS
  <2>9. snap' \in [Procs -> [1..3 -> Nat]]
    BY <1>0, <1>2, <2>8 DEF ReconcileSet
  <2>10. \A q \in Procs \ {p} : pc'[q] = pc[q] /\ todo'[q] = todo[q]
    BY <1>0, <1>2, <2>5 DEF ReconcileSet, Resume, Goto
  <2>11. pc'[p] \in {"set", "credit"} => Len(todo'[p]) \in 1..3
    <3>1. CASE Len(todo[p]) = 1
      <4>1. pc'[p] = return[p]
        BY <1>0, <1>2, <3>1 DEF ReconcileSet, Resume, Goto
      <4> QED BY <4>1 DEF FullInv, Inv, LedgerTypeOK
    <3>2. CASE Len(todo[p]) # 1
      <4>1. Len(Tail(todo[p])) \in 1..3
        BY <2>1, <2>6, <3>2
      <4> QED BY <1>0, <2>5, <4>1
    <3> QED BY <3>1, <3>2
  <2>12. faults' \in 0..MaxFaults
    BY <2>5 DEF FullInv, CountersTyped
  <2> QED BY <2>5, <2>7, <2>9, <2>10, <2>11, <2>12, TypedStep
<1> QED BY <1>1, <1>2

LEMMA FullCredit ==
  ASSUME FullInv, Inv', NEW p \in Procs, Credit(p)
  PROVE  FullInv'
<1>0. /\ counter \in [Keys -> Nat \cup {None}] /\ pc \in [Procs -> Labels]
      /\ todo \in [Procs -> Seq(Keys)] /\ faults \in 0..MaxFaults /\ call \in [Procs -> CallRecord]
  BY DEF FullInv, Inv, LedgerTypeOK, CountersTyped
<1>1. Len(todo[p]) \in 1..3 /\ todo[p] \in Seq(Keys)
  BY <1>0 DEF FullInv, KeysLeft, Credit
<1>2. PICK k \in Keys : k = Head(todo[p])
  BY <1>1, HeadTail
<1>3. PICK cents \in Nat : cents = UsdToCents(call[p].amount)
  BY <1>0, CentsNat DEF CallRecord
<1>4. PICK v \in Nat : v = IncrBy(k, cents)
  <2>1. PICK c : c = counter[k]
    OBVIOUS
  <2>2. c \in Nat \/ c = None
    BY <1>0, <2>1
  <2> QED BY <2>1, <2>2 DEF IncrBy
<1>5. counter' \in [Keys -> Nat \cup {None}]
  <2>1. counter' = counter \/ counter' = [counter EXCEPT ![k] = v]
    BY <1>2, <1>3, <1>4 DEF Credit
  <2> QED BY <1>0, <2>1
<1>6. Tail(todo[p]) \in Seq(Keys) /\ Len(Tail(todo[p])) = Len(todo[p]) - 1
  BY <1>1, HeadTail
<1>7. /\ UNCHANGED <<snap, resets>> /\ faults' \in 0..MaxFaults
  BY <1>0, BudgetAssumption DEF Credit
<1>8. CASE Done(p)
  <2>1. todo' = [todo EXCEPT ![p] = <<>>] /\ pc' = [pc EXCEPT ![p] = "idle"]
    BY <1>8 DEF Done, Goto
  <2>2. /\ todo' \in [Procs -> Seq(Keys)] /\ pc'[p] = "idle"
        /\ \A q \in Procs \ {p} : todo'[q] = todo[q] /\ pc'[q] = pc[q]
    BY <1>0, <2>1
  <2> QED BY <1>5, <1>7, <2>2, TypedStep DEF FullInv, CountersTyped
<1>9. CASE ~ Done(p)
  <2>1. /\ Len(todo[p]) # 1 /\ todo' = [todo EXCEPT ![p] = Tail(todo[p])] /\ UNCHANGED pc
    BY <1>9 DEF Credit
  <2>2. Len(Tail(todo[p])) \in 1..3
    BY <1>1, <1>6, <2>1
  <2> QED BY <1>0, <1>5, <1>6, <1>7, <2>1, <2>2, TypedStep DEF FullInv, CountersTyped
<1> QED BY <1>8, <1>9

\* Steps that end a call, or go on to credit the counters.
LEMMA FullWrite ==
  ASSUME FullInv, Inv', NEW p \in Procs,
         Deny(p) \/ InsertReservation(p) \/ SettleCommit(p) \/ ReleaseCommit(p)
  PROVE  FullInv'
<1>1. UNCHANGED <<counter, snap, resets, faults>>
  BY DEF Deny, InsertReservation, SettleCommit, ReleaseCommit, env
<1>2. call[p].run \in Runs
  BY DEF FullInv, Inv, LedgerTypeOK, CallsRemember, Remembers, Row,
         Deny, InsertReservation, SettleCommit, ReleaseCommit
<1>3. \E a : CreditLater(p, call[p].run, a) \/ Done(p)
  BY DEF Deny, InsertReservation, SettleCommit, ReleaseCommit
<1>4. PICK r \in Runs : r = call[p].run
  BY <1>2
<1>5. PICK a : CreditLater(p, r, a) \/ Done(p)
  BY <1>3, <1>4
<1>6. /\ todo' \in [Procs -> Seq(Keys)] /\ \A q \in Procs \ {p} : todo'[q] = todo[q]
      /\ \A q \in Procs \ {p} : pc'[q] = pc[q]
      /\ pc'[p] \in {"set", "credit"} => Len(todo'[p]) \in 1..3
  BY <1>5, CreditLaterTyped
<1> QED BY <1>1, <1>6, TypedStep DEF FullInv, CountersTyped

LEMMA FullLocal ==
  ASSUME FullInv, Inv', NEW p \in Procs,
         \/ \E r \in Runs, a \in Amounts, i \in Ids : Reserve(p, r, a, i)
         \/ EnsureCounters(p)
         \/ \E i \in Ids, a \in Amounts \cup {0} : SettleRead(p, i, a)
         \/ \E i \in Ids : ReleaseRead(p, i)
         \/ \E r \in Runs, c \in TicketCaps : ConfigureCaps(p, r, c)
         \/ \E r \in Runs : Balance(p, r)
  PROVE  FullInv'
<1>0. pc \in [Procs -> Labels] /\ return[p] \in {"idle", "eval", "eval_again"}
  BY DEF FullInv, Inv, LedgerTypeOK
<1>1. UNCHANGED <<counter, todo, snap, resets, faults>>
  BY DEF Reserve, EnsureCounters, SettleRead, ReleaseRead, ConfigureCaps, Balance, env
<1>2. pc'[p] \notin {"set", "credit"} /\ \A q \in Procs \ {p} : pc'[q] = pc[q]
  BY <1>0 DEF Reserve, EnsureCounters, SettleRead, ReleaseRead, ConfigureCaps, Balance, Resume, Goto
<1> QED BY <1>1, <1>2, QuietStep

LEMMA FullStep == FullInv /\ [Next]_vars => FullInv'
<1> SUFFICES ASSUME FullInv, [Next]_vars PROVE FullInv'
  OBVIOUS
<1>0. Inv'
  BY NextInv DEF FullInv
<1>1. CASE RedisReset
  <2>1. resets' \in 0..MaxResets /\ counter' = [k \in Keys |-> None] /\ UNCHANGED <<pc, todo, snap, faults>>
    BY <1>1, BudgetAssumption DEF RedisReset, local, FullInv, CountersTyped
  <2> QED BY <1>0, <2>1 DEF FullInv, CountersTyped, KeysLeft
<1>2. CASE NextDay \/ UNCHANGED vars
  <2>1. UNCHANGED <<counter, pc, todo, snap, resets, faults>>
    BY <1>2 DEF NextDay, vars, local, env
  <2> QED BY <1>0, <2>1 DEF FullInv, CountersTyped, KeysLeft
<1>3. ASSUME NEW p \in Procs, Crash(p) PROVE FullInv'
  <2>1. <<0, 0, 0>> \in [1..3 -> Nat] /\ <<>> \in Seq(Keys)
    OBVIOUS
  <2>2. faults' \in 0..MaxFaults
    BY <1>3, BudgetAssumption DEF Crash, FullInv, CountersTyped
  <2>3. /\ todo' \in [Procs -> Seq(Keys)] /\ snap' \in [Procs -> [1..3 -> Nat]]
        /\ \A q \in Procs \ {p} : todo'[q] = todo[q] /\ pc'[q] = pc[q]
        /\ pc'[p] = "crashed" /\ UNCHANGED <<counter, resets>>
    BY <1>3, <2>1 DEF Crash, Goto, FullInv, CountersTyped, Inv, LedgerTypeOK
  <2> QED BY <1>0, <2>2, <2>3, TypedStep DEF FullInv, CountersTyped
<1> QED BY <1>0, <1>1, <1>2, <1>3, FullLocal, FullEval, FullReconcile, FullCredit, FullWrite
        DEF Next, ProcStep

LEMMA FullInit == Init => FullInv
<1> SUFFICES ASSUME Init PROVE FullInv
  OBVIOUS
<1>1. \A k \in Keys : Cap(k) \in Nat
  BY BudgetAssumption DEF Init, Cap, Keys, TicketKey, DailyKey, MonthlyKey
<1>2. counter \in [Keys -> Nat \cup {None}]
  BY <1>1, CentsNat DEF Init
<1>3. <<0, 0, 0>> \in [1..3 -> Nat] /\ <<>> \in Seq(Keys)
  OBVIOUS
<1> QED BY <1>2, <1>3, InitInv, BudgetAssumption DEF Init, FullInv, CountersTyped, KeysLeft

LEMMA FullHolds == Spec => []FullInv
BY FullInit, FullStep, PTL DEF Spec

\* For every team and every sequence of grants, credits, reconciles and resets:
\* neither the Lua script nor a reconcile ever leaves a negative counter.
THEOREM LedgerTyped == Spec => []TypeOK
<1>1. FullInv => TypeOK
  BY DEF FullInv, Inv, CountersTyped, TypeOK
<1> QED BY <1>1, FullHolds, PTL


-----------------------------------------------------------------------------
(* The caps.  They are kept when the counters are the only gate: caps fixed,  *)
(* no counter lost, one day, one sweeper that releases only what a dead       *)
(* caller left behind, and amounts in whole cents.                           *)

Whole(n) == \E c \in Nat : n = UnitsPerCent * c

PlainUse ==
  /\ OrphansOnly /\ Admins = {} /\ MaxResets = 0 /\ MaxDay = 0
  /\ \A s, t \in Sweepers : s = t
  /\ \A a \in Amounts \cup {InitialCap, DailyCap, MonthlyCap} : Whole(a)

\* What a call holds of a counter and has not written to a row: granted and
\* not yet inserted, or not yet credited back.
HeldOf(label, c, keys, k) ==
  IF \/ label = "insert" /\ Counts(k, c.run, 0)
     \/ label = "credit" /\ \E n \in 1..Len(keys) : keys[n] = k
  THEN c.amount ELSE 0

Own(p, k) == HeldOf(pc[p], call[p], todo[p], k)
Held(k) == Total([p \in Procs |-> Own(p, k)], Procs)

\* A call that will write a row has it to itself, and a credit works through
\* the keys in order.
Secure(p) ==
  /\ pc[p] \notin {"read", "set"}
  /\ Whole(call[p].amount) /\ Whole(call[p].actual)
  /\ pc[p] = "settle" => /\ reservations[call[p].id].status = "active"
                         /\ reservations[call[p].id].owner = p
  /\ pc[p] = "release" => /\ p \in Sweepers
                          /\ reservations[call[p].id].status = "active"
                          /\ pc[reservations[call[p].id].owner] = "crashed"
  /\ pc[p] = "credit" => \E r \in Runs :
       \/ todo[p] = <<TicketKey(r), DailyKey(0), MonthlyKey>>
       \/ todo[p] = <<DailyKey(0), MonthlyKey>>
       \/ todo[p] = <<MonthlyKey>>

RowsWhole == \A i \in Ids : reservations[i] # None => Whole(reservations[i].amount)

Offered(k) == UnitsPerCent * counter[k]

\* Nothing is created: what a counter offers, what calls hold and what the
\* rows say make up the cap; a fault can only lose some of it.
Balanced(k) ==
  /\ Offered(k) + Active(k) + Actual(k) + Held(k) <= Cap(k)
  /\ faults = 0 => Offered(k) + Active(k) + Actual(k) + Held(k) = Cap(k)

CapInv ==
  /\ FullInv /\ RowsWhole
  /\ \A k \in Keys : counter[k] \in Nat
  /\ ticket_cap = [r \in Runs |-> InitialCap]
  /\ \A p \in Procs : Secure(p)
  /\ \A k \in Keys : Balanced(k)

LEMMA Times ==
  ASSUME NEW u \in Int, NEW a \in Int, NEW b \in Int
  PROVE  /\ u * a \in Int /\ u * (a - b) = u * a - u * b /\ u * (a + b) = u * a + u * b
  OBVIOUS

LEMMA TimesMore == ASSUME NEW u \in Nat, NEW a \in Int, NEW b \in Int, a <= b PROVE u * a <= u * b
  OBVIOUS

\* A cancellation: the quotient is the only one that fits.
LEMMA QuotientUnique ==
  ASSUME NEW u \in Nat \ {0}, NEW a \in Int, NEW b \in Int, NEW m \in 0..(u - 1), NEW h \in 0..(u - 1),
         u * a + m = u * b + h
  PROVE  a = b
<1>1. u * a \in Int /\ u * b \in Int
  OBVIOUS
<1>2. ~ (a + 1 <= b)
  <2> SUFFICES ASSUME a + 1 <= b PROVE FALSE
    OBVIOUS
  <2>1. u * (a + 1) <= u * b
    BY TimesMore
  <2>2. u * (a + 1) = u * a + u
    BY Times
  <2> QED BY <1>1, <2>1, <2>2
<1>3. ~ (b + 1 <= a)
  <2> SUFFICES ASSUME b + 1 <= a PROVE FALSE
    OBVIOUS
  <2>1. u * (b + 1) <= u * a
    BY TimesMore
  <2>2. u * (b + 1) = u * b + u
    BY Times
  <2> QED BY <1>1, <2>1, <2>2
<1> QED BY <1>2, <1>3

\* Whole cents are converted without loss.
LEMMA CentsExact ==
  ASSUME NEW a \in Nat, Whole(a)
  PROVE  UsdToCents(a) \in Nat /\ UnitsPerCent * UsdToCents(a) = a
<1>0. PICK u \in Nat \ {0} : u = UnitsPerCent
  BY BudgetAssumption
<1>1. PICK c \in Nat : a = u * c
  BY <1>0 DEF Whole
<1>2. PICK h \in 0..(u - 1) : h = u \div 2
  OBVIOUS
<1>3. a + h \in Nat
  OBVIOUS
<1>4. PICK q \in Nat : q = (a + h) \div u
  BY <1>3
<1>5. PICK m \in 0..(u - 1) : m = (a + h) % u
  BY <1>3
<1>6. a + h = u * q + m
  BY <1>3, <1>4, <1>5
<1>7. u * c + h = u * q + m
  BY <1>1, <1>6
<1>8. q = c
  BY <1>7, QuotientUnique
<1> QED BY <1>0, <1>1, <1>2, <1>4, <1>8 DEF UsdToCents

LEMMA WholeLess ==
  ASSUME NEW a \in Nat, NEW b \in Nat, Whole(a), Whole(b), b <= a
  PROVE  a - b \in Nat /\ Whole(a - b)
<1>0. PICK u \in Nat \ {0} : u = UnitsPerCent
  BY BudgetAssumption
<1>1. PICK c \in Nat : a = u * c
  BY <1>0 DEF Whole
<1>2. PICK d \in Nat : b = u * d
  BY <1>0 DEF Whole
<1>3. ~ (c + 1 <= d)
  <2> SUFFICES ASSUME c + 1 <= d PROVE FALSE
    OBVIOUS
  <2>1. u * (c + 1) <= u * d
    BY TimesMore
  <2>2. u * (c + 1) = u * c + u
    BY Times
  <2> QED BY <1>1, <1>2, <2>1, <2>2
<1>4. c - d \in Nat
  BY <1>3
<1>5. a - b = u * (c - d)
  BY <1>1, <1>2, Times
<1> QED BY <1>0, <1>4, <1>5 DEF Whole

LEMMA WholeZero == Whole(0)
<1>1. UnitsPerCent * 0 = 0
  BY BudgetAssumption
<1> QED BY <1>1 DEF Whole


LEMMA OwnNat ==
  ASSUME NEW label, NEW c \in CallRecord, NEW keys, NEW k
  PROVE  HeldOf(label, c, keys, k) \in Nat
  BY DEF HeldOf, CallRecord

\* Only p's own part of what is held moves with a step of p.
LEMMA HeldMoves ==
  ASSUME FullInv, FullInv', NEW p \in Procs, NEW k,
         \A q \in Procs \ {p} : pc'[q] = pc[q] /\ call'[q] = call[q] /\ todo'[q] = todo[q]
  PROVE  /\ Held(k)' = Held(k) - Own(p, k) + Own(p, k)' /\ Held(k) \in Nat
         /\ Own(p, k) \in Nat /\ Own(p, k)' \in Nat
<1>0. IsFiniteSet(Procs) /\ call \in [Procs -> CallRecord] /\ call' \in [Procs -> CallRecord]
  BY BudgetAssumption DEF FullInv, Inv, LedgerTypeOK
<1>1. PICK F : F = [q \in Procs |-> HeldOf(pc[q], call[q], todo[q], k)]
  OBVIOUS
<1>2. PICK E : E = [q \in Procs |-> HeldOf(pc'[q], call'[q], todo'[q], k)]
  OBVIOUS
<1>3. \A q \in Procs : F[q] \in Nat /\ E[q] \in Nat
  BY <1>0, <1>1, <1>2, OwnNat
<1>4. \A q \in Procs \ {p} : F[q] = E[q]
  BY <1>1, <1>2
<1>5. Held(k) = Total(F, Procs) /\ Held(k)' = Total(E, Procs)
  BY <1>1, <1>2 DEF Held, Own, Total, AddsUp
<1>6. F[p] = Own(p, k) /\ E[p] = Own(p, k)'
  BY <1>1, <1>2 DEF Own
<1>7. Total(E, Procs) = Total(F, Procs) - F[p] + E[p]
  BY <1>0, <1>3, <1>4, TotalChange
<1>8. Total(F, Procs) \in Nat
  BY <1>0, <1>3, TotalNat
<1> QED BY <1>3, <1>5, <1>6, <1>7, <1>8

\* Only the shares of the row written move with a commit.
LEMMA RowMoves ==
  ASSUME FullInv, FullInv', NEW i \in Ids, NEW k,
         \A j \in Ids \ {i} : reservations'[j] = reservations[j] /\ charges'[j] = charges[j]
  PROVE  /\ Active(k)' = Active(k) - ActiveShare(reservations[i], k) + ActiveShare(reservations'[i], k)
         /\ Actual(k)' = Actual(k) - ActualShare(charges[i], k) + ActualShare(charges'[i], k)
         /\ Active(k) \in Nat /\ Actual(k) \in Nat
         /\ ActiveShare(reservations[i], k) \in Nat /\ ActiveShare(reservations'[i], k) \in Nat
         /\ ActualShare(charges[i], k) \in Nat /\ ActualShare(charges'[i], k) \in Nat
<1>0. IsFiniteSet(Ids)
  BY BudgetAssumption
<1>1. PICK res \in [Ids -> Row \cup {None}] : res = reservations
  BY DEF FullInv, Inv, LedgerTypeOK
<1>2. PICK new \in [Ids -> Row \cup {None}] : new = reservations'
  BY DEF FullInv, Inv, LedgerTypeOK
<1>3. PICK chg \in [Ids -> ChargeRow \cup {None}] : chg = charges
  BY DEF FullInv, Inv, LedgerTypeOK
<1>4. PICK nchg \in [Ids -> ChargeRow \cup {None}] : nchg = charges'
  BY DEF FullInv, Inv, LedgerTypeOK
<1>5. PICK F : F = [j \in Ids |-> ActiveShare(res[j], k)]
  OBVIOUS
<1>6. PICK E : E = [j \in Ids |-> ActiveShare(new[j], k)]
  OBVIOUS
<1>7. PICK G : G = [j \in Ids |-> ActualShare(chg[j], k)]
  OBVIOUS
<1>8. PICK H : H = [j \in Ids |-> ActualShare(nchg[j], k)]
  OBVIOUS
<1>9. \A j \in Ids : F[j] \in Nat /\ E[j] \in Nat /\ G[j] \in Nat /\ H[j] \in Nat
  BY <1>5, <1>6, <1>7, <1>8, ActiveTotal, ActualTotal
<1>10. /\ Active(k) = Total(F, Ids) /\ Active(k)' = Total(E, Ids)
       /\ Actual(k) = Total(G, Ids) /\ Actual(k)' = Total(H, Ids)
  BY <1>1, <1>2, <1>3, <1>4, <1>5, <1>6, <1>7, <1>8, ActiveTotal, ActualTotal, SumsNow
<1>11. \A j \in Ids \ {i} : F[j] = E[j] /\ G[j] = H[j]
  BY <1>1, <1>2, <1>3, <1>4, <1>5, <1>6, <1>7, <1>8
<1>12. Total(E, Ids) = Total(F, Ids) - F[i] + E[i] /\ Total(H, Ids) = Total(G, Ids) - G[i] + H[i]
  <2>1. Total(E, Ids) = Total(F, Ids) - F[i] + E[i]
    BY <1>0, <1>9, <1>11, TotalChange
  <2>2. Total(H, Ids) = Total(G, Ids) - G[i] + H[i]
    BY <1>0, <1>9, <1>11, TotalChange
  <2> QED BY <2>1, <2>2
<1>13. Total(F, Ids) \in Nat /\ Total(G, Ids) \in Nat
  BY <1>0, <1>9, TotalNat
<1>14. /\ F[i] = ActiveShare(reservations[i], k) /\ E[i] = ActiveShare(reservations'[i], k)
       /\ G[i] = ActualShare(charges[i], k) /\ H[i] = ActualShare(charges'[i], k)
  BY <1>1, <1>2, <1>3, <1>4, <1>5, <1>6, <1>7, <1>8
<1> QED BY <1>9, <1>10, <1>12, <1>13, <1>14

LEMMA RowsStay ==
  ASSUME UNCHANGED <<reservations, charges>>, NEW k
  PROVE  Active(k)' = Active(k) /\ Actual(k)' = Actual(k)
  BY SumsNow

\* What p itself takes from the counter, the rows and its own part.
LEMMA BalanceKept ==
  ASSUME CapInv, FullInv', NEW p \in Procs, NEW k \in Keys, UNCHANGED ticket_cap,
         \A q \in Procs \ {p} : pc'[q] = pc[q] /\ call'[q] = call[q] /\ todo'[q] = todo[q],
         Offered(k)' \in Int,
         Offered(k)' + Active(k)' + Actual(k)' + Own(p, k)'
           <= Offered(k) + Active(k) + Actual(k) + Own(p, k),
         faults' = 0 => /\ faults = 0
                        /\ Offered(k)' + Active(k)' + Actual(k)' + Own(p, k)'
                             = Offered(k) + Active(k) + Actual(k) + Own(p, k)
  PROVE  Balanced(k)'
<1>1. /\ Held(k)' = Held(k) - Own(p, k) + Own(p, k)' /\ Held(k) \in Nat
      /\ Own(p, k) \in Nat /\ Own(p, k)' \in Nat
  BY HeldMoves DEF CapInv
<1>2. Active(k) \in Nat /\ Actual(k) \in Nat
  BY SumsNat DEF CapInv, FullInv
<1>3. Active(k)' \in Nat /\ Actual(k)' \in Nat
  <2>1. Inv'
    BY DEF FullInv
  <2>2. reservations' \in [Ids -> Row \cup {None}] /\ charges' \in [Ids -> ChargeRow \cup {None}]
    BY <2>1 DEF Inv, LedgerTypeOK
  <2>3. PICK res \in [Ids -> Row \cup {None}] : res = reservations'
    BY <2>2
  <2>4. PICK chg \in [Ids -> ChargeRow \cup {None}] : chg = charges'
    BY <2>2
  <2>5. PICK F : F = [i \in Ids |-> ActiveShare(res[i], k)]
    OBVIOUS
  <2>6. PICK G : G = [i \in Ids |-> ActualShare(chg[i], k)]
    OBVIOUS
  <2>7. Active(k)' = Total(F, Ids) /\ Actual(k)' = Total(G, Ids)
    BY <2>3, <2>4, <2>5, <2>6, ActiveTotal, ActualTotal, SumsNow
  <2>8. \A i \in Ids : F[i] \in Nat /\ G[i] \in Nat
    BY <2>5, <2>6, ActiveTotal, ActualTotal
  <2> QED BY <2>7, <2>8, TotalNat, BudgetAssumption
<1>4. Offered(k) \in Int
  BY BudgetAssumption DEF CapInv, Offered
<1>5. Cap(k)' = Cap(k) /\ Cap(k) \in Nat
  BY BudgetAssumption DEF CapInv, Cap, Keys, TicketKey, DailyKey, MonthlyKey
<1>6. Balanced(k)
  BY DEF CapInv
<1>7. PICK o \in Int, a \in Nat, b \in Nat, h \in Nat, w \in Nat, c \in Nat :
        o = Offered(k) /\ a = Active(k) /\ b = Actual(k) /\ h = Held(k) /\ w = Own(p, k) /\ c = Cap(k)
  BY <1>1, <1>2, <1>4, <1>5
<1>8. PICK oo \in Int, aa \in Nat, bb \in Nat, ww \in Nat :
        oo = Offered(k)' /\ aa = Active(k)' /\ bb = Actual(k)' /\ ww = Own(p, k)'
  BY <1>1, <1>3
<1>9. o + a + b + h <= c /\ (faults = 0 => o + a + b + h = c)
  BY <1>6, <1>7 DEF Balanced
<1>10. /\ oo + aa + bb + ww <= o + a + b + w
       /\ faults' = 0 => faults = 0 /\ oo + aa + bb + ww = o + a + b + w
  BY <1>7, <1>8
<1>11. /\ oo + aa + bb + (h - w + ww) <= c
       /\ faults' = 0 => oo + aa + bb + (h - w + ww) = c
  BY <1>9, <1>10
<1> QED BY <1>1, <1>5, <1>7, <1>8, <1>11 DEF Balanced


-----------------------------------------------------------------------------
LEMMA OneDay ==
  ASSUME PlainUse, Inv
  PROVE  /\ day = 0 /\ \A r \in Runs : \A k \in Keys : k \in KeySet(r) <=> Counts(k, r, 0)
         /\ \A r \in Runs : CounterKeys(r) = <<TicketKey(r), DailyKey(0), MonthlyKey>>
         /\ \A i \in Ids : reservations[i] # None => reservations[i].day = 0
<1>1. 0..MaxDay = {0}
  BY DEF PlainUse
<1>2. day = 0
  BY <1>1 DEF Inv, LedgerTypeOK
<1>3. ASSUME NEW r \in Runs, NEW k \in Keys PROVE k \in KeySet(r) <=> Counts(k, r, 0)
  BY <1>1, <1>2, <1>3 DEF KeySet, Counts, Keys, TicketKey, DailyKey, MonthlyKey
<1>4. \A i \in Ids : reservations[i] # None => reservations[i].day = 0
  BY <1>1 DEF Inv, LedgerTypeOK, Row
<1> QED BY <1>2, <1>3, <1>4 DEF CounterKeys

\* A call of another process keeps its row to itself.
LEMMA SecureOthers ==
  ASSUME CapInv, NEW p \in Procs, pc[p] # "crashed",
         \A q \in Procs \ {p} : pc'[q] = pc[q] /\ call'[q] = call[q] /\ todo'[q] = todo[q],
         \A q \in Procs \ {p} : pc[q] \in {"settle", "release"} =>
           /\ reservations'[call[q].id].status = reservations[call[q].id].status
           /\ reservations'[call[q].id].owner = reservations[call[q].id].owner
  PROVE  \A q \in Procs \ {p} : Secure(q)'
<1> TAKE q \in Procs \ {p}
<1>1. Secure(q)
  BY DEF CapInv
<1>2. CASE pc[q] = "release"
  <2>1. PICK i \in Ids : i = call[q].id /\ reservations[i] # None
    BY <1>2 DEF CapInv, FullInv, Inv, CallsRemember, Remembers
  <2>2. PICK o \in Procs : o = reservations[i].owner
    BY <2>1 DEF CapInv, FullInv, Inv, LedgerTypeOK, Row
  <2>3. o # p /\ pc[o] = "crashed" /\ pc'[o] = pc[o]
    BY <1>1, <1>2, <2>1, <2>2 DEF Secure
  <2>4. reservations'[i].status = "active" /\ reservations'[i].owner = o
    BY <1>1, <1>2, <2>1, <2>2 DEF Secure
  <2> QED BY <1>1, <1>2, <2>1, <2>3, <2>4 DEF Secure
<1>3. CASE pc[q] # "release"
  BY <1>1, <1>3 DEF Secure
<1> QED BY <1>2, <1>3

LEMMA CapAssembled ==
  ASSUME CapInv, FullInv', NEW p \in Procs, pc[p] # "crashed", UNCHANGED ticket_cap,
         \A q \in Procs \ {p} : pc'[q] = pc[q] /\ call'[q] = call[q] /\ todo'[q] = todo[q],
         \A q \in Procs \ {p} : pc[q] \in {"settle", "release"} =>
           /\ reservations'[call[q].id].status = reservations[call[q].id].status
           /\ reservations'[call[q].id].owner = reservations[call[q].id].owner,
         RowsWhole', Secure(p)', \A k \in Keys : counter'[k] \in Nat, \A k \in Keys : Balanced(k)'
  PROVE  CapInv'
<1>1. \A q \in Procs : Secure(q)'
  BY SecureOthers
<1> QED BY <1>1 DEF CapInv

LEMMA NoCallSecure ==
  ASSUME NEW p \in Procs, call'[p] = NoCall,
         pc'[p] \in {"idle", "crashed"}
  PROVE  Secure(p)'
  BY WholeZero DEF Secure, NoCall

\* A step that neither takes from the counters nor writes a row.
LEMMA CapQuiet ==
  ASSUME CapInv, FullInv', NEW p \in Procs,
         pc[p] \notin {"insert", "credit", "crashed"}, pc'[p] \notin {"insert", "credit"},
         UNCHANGED <<ticket_cap, reservations, charges, counter, faults>>,
         \A q \in Procs \ {p} : pc'[q] = pc[q] /\ call'[q] = call[q] /\ todo'[q] = todo[q],
         Secure(p)'
  PROVE  CapInv'
<1>1. ASSUME NEW k \in Keys PROVE Balanced(k)'
  <2>1. Own(p, k) = 0 /\ Own(p, k)' = 0
    BY DEF Own, HeldOf
  <2>2. Active(k)' = Active(k) /\ Actual(k)' = Actual(k)
    BY RowsStay
  <2>3. Offered(k)' = Offered(k) /\ Offered(k) \in Int
    BY BudgetAssumption DEF Offered, CapInv
  <2>4. Active(k) \in Nat /\ Actual(k) \in Nat
    BY SumsNat DEF CapInv, FullInv
  <2>5. Offered(k)' + Active(k)' + Actual(k)' + Own(p, k)' = Offered(k) + Active(k) + Actual(k) + Own(p, k)
    BY <2>1, <2>2, <2>3
  <2>6. Offered(k) + Active(k) + Actual(k) + Own(p, k) \in Int
    BY <2>1, <2>3, <2>4
  <2> QED BY <2>3, <2>5, <2>6, BalanceKept
<1>2. RowsWhole'
  BY DEF CapInv, RowsWhole
<1>3. \A k \in Keys : counter'[k] \in Nat
  BY DEF CapInv
<1> QED BY <1>1, <1>2, <1>3, CapAssembled

LEMMA CapLocal ==
  ASSUME PlainUse, CapInv, FullInv', NEW p \in Procs,
         \/ \E r \in Runs, a \in Amounts, i \in Ids : Reserve(p, r, a, i)
         \/ EnsureCounters(p)
         \/ \E i \in Ids, a \in Amounts \cup {0} : SettleRead(p, i, a)
         \/ \E i \in Ids : ReleaseRead(p, i)
         \/ Deny(p)
  PROVE  CapInv'
<1>0. /\ pc \in [Procs -> Labels] /\ call \in [Procs -> CallRecord] /\ todo \in [Procs -> Seq(Keys)]
      /\ return \in [Procs -> {"idle", "eval", "eval_again"}]
  BY DEF CapInv, FullInv, Inv, LedgerTypeOK, CountersTyped
<1>1. Secure(p)
  BY DEF CapInv
<1>2. ASSUME NEW r \in Runs, NEW a \in Amounts, NEW i \in Ids, Reserve(p, r, a, i) PROVE CapInv'
  <2>1. /\ call' = [call EXCEPT ![p] = [run |-> r, id |-> i, amount |-> a, actual |-> 0]]
        /\ pc' = [pc EXCEPT ![p] = "ensure"] /\ pc[p] = "idle"
        /\ UNCHANGED <<ticket_cap, reservations, charges, counter, faults, todo>>
    BY <1>2 DEF Reserve, Goto, postgres, env
  <2>2. /\ pc'[p] = "ensure" /\ call'[p].amount = a /\ call'[p].actual = 0
        /\ \A q \in Procs \ {p} : pc'[q] = pc[q] /\ call'[q] = call[q] /\ todo'[q] = todo[q]
    BY <1>0, <2>1
  <2>3. Whole(a) /\ Whole(0)
    BY WholeZero DEF PlainUse
  <2>4. Secure(p)'
    BY <2>2, <2>3 DEF Secure
  <2> QED BY <2>1, <2>2, <2>4, CapQuiet
<1>3. CASE EnsureCounters(p)
  <2>1. call[p].run \in Runs
    BY <1>3 DEF CapInv, FullInv, Inv, CallsRemember, Remembers, EnsureCounters
  <2>2. ~ (\E k \in KeySet(call[p].run) : counter[k] = None)
    BY <2>1, KeysOfRun, BudgetAssumption DEF CapInv, FullInv
  <2>3. /\ pc' = [pc EXCEPT ![p] = return[p]] /\ pc[p] = "ensure"
        /\ call' = IF return[p] = "idle" THEN [call EXCEPT ![p] = NoCall] ELSE call
        /\ UNCHANGED <<ticket_cap, reservations, charges, counter, faults, todo>>
    BY <1>3, <2>2 DEF EnsureCounters, Resume, Goto, postgres, env
  <2>4. /\ pc'[p] = return[p] /\ call'[p] \in {call[p], NoCall}
        /\ \A q \in Procs \ {p} : pc'[q] = pc[q] /\ call'[q] = call[q] /\ todo'[q] = todo[q]
    BY <1>0, <2>3
  <2>5. Whole(call'[p].amount) /\ Whole(call'[p].actual)
    BY <1>1, <2>4, WholeZero DEF Secure, NoCall
  <2>6. Secure(p)'
    BY <1>0, <2>4, <2>5 DEF Secure
  <2> QED BY <1>0, <2>3, <2>4, <2>6, CapQuiet
<1>4. ASSUME NEW i \in Ids, NEW a \in Amounts \cup {0}, SettleRead(p, i, a) PROVE CapInv'
  <2>1. /\ call' = [call EXCEPT ![p] = [run |-> reservations[i].run, id |-> i,
                                        amount |-> reservations[i].amount, actual |-> a]]
        /\ pc' = [pc EXCEPT ![p] = "settle"] /\ pc[p] = "idle"
        /\ UNCHANGED <<ticket_cap, reservations, charges, counter, faults, todo>>
        /\ reservations[i] # None /\ reservations[i].status = "active" /\ reservations[i].owner = p
    BY <1>4 DEF SettleRead, Goto, postgres, env, PlainUse
  <2>2. /\ pc'[p] = "settle" /\ call'[p].amount = reservations[i].amount /\ call'[p].actual = a
        /\ call'[p].id = i
        /\ \A q \in Procs \ {p} : pc'[q] = pc[q] /\ call'[q] = call[q] /\ todo'[q] = todo[q]
    BY <1>0, <2>1
  <2>3. Whole(a) /\ Whole(reservations[i].amount)
    BY <2>1, WholeZero DEF PlainUse, CapInv, RowsWhole
  <2>4. Secure(p)'
    BY <2>1, <2>2, <2>3 DEF Secure
  <2> QED BY <2>1, <2>2, <2>4, CapQuiet
<1>5. ASSUME NEW i \in Ids, ReleaseRead(p, i) PROVE CapInv'
  <2>1. /\ call' = [call EXCEPT ![p] = [run |-> reservations[i].run, id |-> i,
                                        amount |-> reservations[i].amount, actual |-> 0]]
        /\ pc' = [pc EXCEPT ![p] = "release"] /\ pc[p] = "idle" /\ p \in Sweepers
        /\ UNCHANGED <<ticket_cap, reservations, charges, counter, faults, todo>>
        /\ reservations[i] # None /\ reservations[i].status = "active"
        /\ pc[reservations[i].owner] = "crashed"
    BY <1>5 DEF ReleaseRead, Orphan, Goto, postgres, env, PlainUse
  <2>2. /\ pc'[p] = "release" /\ call'[p].amount = reservations[i].amount /\ call'[p].actual = 0
        /\ call'[p].id = i
        /\ \A q \in Procs \ {p} : pc'[q] = pc[q] /\ call'[q] = call[q] /\ todo'[q] = todo[q]
    BY <1>0, <2>1
  <2>3. Whole(0) /\ Whole(reservations[i].amount)
    BY <2>1, WholeZero DEF CapInv, RowsWhole
  <2>4. PICK o \in Procs : o = reservations[i].owner
    BY <2>1 DEF CapInv, FullInv, Inv, LedgerTypeOK, Row
  <2>5. o # p /\ pc'[o] = "crashed"
    BY <2>1, <2>2, <2>4
  <2>6. Secure(p)'
    BY <2>1, <2>2, <2>3, <2>4, <2>5 DEF Secure
  <2> QED BY <2>1, <2>2, <2>6, CapQuiet
<1>6. CASE Deny(p)
  <2>1. /\ pc[p] = "deny" /\ pc' = [pc EXCEPT ![p] = "idle"] /\ call' = [call EXCEPT ![p] = NoCall]
        /\ todo' = [todo EXCEPT ![p] = <<>>]
        /\ UNCHANGED <<ticket_cap, reservations, charges, counter, faults>>
    BY <1>6 DEF Deny, Done, Goto, env
  <2>2. /\ pc'[p] = "idle" /\ call'[p] = NoCall
        /\ \A q \in Procs \ {p} : pc'[q] = pc[q] /\ call'[q] = call[q] /\ todo'[q] = todo[q]
    BY <1>0, <2>1
  <2>3. Secure(p)'
    BY <2>2, NoCallSecure
  <2> QED BY <2>1, <2>2, <2>3, CapQuiet
<1> QED BY <1>2, <1>3, <1>4, <1>5, <1>6


LEMMA CapEval ==
  ASSUME PlainUse, CapInv, FullInv', NEW p \in Procs, Eval(p)
  PROVE  CapInv'
<1>0. pc \in [Procs -> Labels] /\ call \in [Procs -> CallRecord] /\ counter \in [Keys -> Nat \cup {None}]
  BY DEF CapInv, FullInv, Inv, LedgerTypeOK, CountersTyped
<1>1. PICK r \in Runs : r = call[p].run
  BY DEF CapInv, FullInv, Inv, CallsRemember, Remembers, Eval
<1>2. PICK a \in Nat : a = call[p].amount
  BY <1>0 DEF CallRecord
<1>3. PICK c \in Nat : c = UsdToCents(a)
  BY CentsNat
<1>4. ~ (\E k \in KeySet(r) : counter[k] = None)
  BY <1>1, KeysOfRun, BudgetAssumption DEF CapInv, FullInv
<1>5. /\ pc[p] \in {"eval", "eval_again"} /\ UNCHANGED <<ticket_cap, reservations, charges, faults, call, todo>>
      /\ \/ pc' = [pc EXCEPT ![p] = "deny"] /\ UNCHANGED counter
         \/ /\ pc' = [pc EXCEPT ![p] = "insert"] /\ ScriptCovers(r, c)
            /\ counter' = [k \in Keys |-> IF k \in KeySet(r) THEN counter[k] - c ELSE counter[k]]
  BY <1>1, <1>2, <1>3, <1>4 DEF Eval, Goto, postgres, env
<1>6. \A q \in Procs \ {p} : pc'[q] = pc[q] /\ call'[q] = call[q] /\ todo'[q] = todo[q]
  BY <1>0, <1>5
<1>7. Secure(p)
  BY DEF CapInv
<1>8. CASE pc' = [pc EXCEPT ![p] = "deny"] /\ UNCHANGED counter
  <2>1. pc'[p] = "deny"
    BY <1>0, <1>8
  <2>2. Secure(p)'
    BY <1>5, <1>7, <2>1 DEF Secure
  <2> QED BY <1>5, <1>6, <1>8, <2>1, <2>2, CapQuiet
<1>9. CASE /\ pc' = [pc EXCEPT ![p] = "insert"] /\ ScriptCovers(r, c)
           /\ counter' = [k \in Keys |-> IF k \in KeySet(r) THEN counter[k] - c ELSE counter[k]]
  <2>1. pc'[p] = "insert"
    BY <1>0, <1>9
  <2>2. Secure(p)'
    BY <1>5, <1>7, <2>1 DEF Secure
  <2>3. Whole(a)
    BY <1>2, <1>7 DEF Secure
  <2>4. ASSUME NEW k \in Keys PROVE counter'[k] \in Nat /\ Balanced(k)'
    <3>1. PICK n \in Nat : n = counter[k]
      BY DEF CapInv
    <3>2. Own(p, k) = 0
      BY <1>5 DEF Own, HeldOf
    <3>3. Active(k)' = Active(k) /\ Actual(k)' = Actual(k)
      BY <1>5, RowsStay
    <3>4. PICK u \in Nat : u = UnitsPerCent
      BY BudgetAssumption
    <3>5. Offered(k) = u * n
      BY <3>1, <3>4 DEF Offered
    <3>6. Active(k) \in Nat /\ Actual(k) \in Nat
      BY SumsNat DEF CapInv, FullInv
    <3>7. CASE k \in KeySet(r)
      <4>1. counter'[k] = n - c /\ n - c \in Nat
        BY <1>9, <3>1, <3>7 DEF ScriptCovers
      <4>2. Counts(k, r, 0)
        BY <3>7, OneDay DEF CapInv, FullInv
      <4>3. Own(p, k)' = a
        BY <1>1, <1>2, <1>5, <2>1, <4>2 DEF Own, HeldOf
      <4>4. Offered(k)' = u * n - u * c
        BY <3>4, <4>1, Times DEF Offered
      <4>5. u * c = a
        BY <1>3, <2>3, <3>4, CentsExact
      <4>6. u * n \in Int
        OBVIOUS
      <4>7. Offered(k)' \in Int /\ Offered(k)' + a = Offered(k)
        BY <3>5, <4>4, <4>5, <4>6
      <4>8. /\ Offered(k)' + Active(k)' + Actual(k)' + Own(p, k)'
                 = Offered(k) + Active(k) + Actual(k) + Own(p, k)
            /\ Offered(k) + Active(k) + Actual(k) + Own(p, k) \in Int
        BY <3>2, <3>3, <3>5, <3>6, <4>3, <4>6, <4>7
      <4> QED BY <1>5, <1>6, <4>1, <4>7, <4>8, BalanceKept
    <3>8. CASE k \notin KeySet(r)
      <4>1. counter'[k] = n
        BY <1>9, <3>1, <3>8
      <4>2. ~ Counts(k, r, 0)
        BY <3>8, OneDay DEF CapInv, FullInv
      <4>3. Own(p, k)' = 0
        BY <1>1, <1>5, <2>1, <4>2 DEF Own, HeldOf
      <4>4. Offered(k)' = u * n /\ u * n \in Int
        BY <3>4, <4>1 DEF Offered
      <4>5. /\ Offered(k)' + Active(k)' + Actual(k)' + Own(p, k)'
                 = Offered(k) + Active(k) + Actual(k) + Own(p, k)
            /\ Offered(k) + Active(k) + Actual(k) + Own(p, k) \in Int
        BY <3>2, <3>3, <3>5, <3>6, <4>3, <4>4
      <4> QED BY <1>5, <1>6, <4>1, <4>4, <4>5, BalanceKept
    <3> QED BY <3>7, <3>8
  <2>5. RowsWhole'
    BY <1>5 DEF CapInv, RowsWhole
  <2> QED BY <1>5, <1>6, <2>2, <2>4, <2>5, CapAssembled
<1> QED BY <1>5, <1>8, <1>9

\* Starting a credit of a whole number of cents, from a call that held `had`.
LEMMA CreditHeld ==
  ASSUME PlainUse, FullInv, NEW p \in Procs, NEW r \in Runs, NEW a \in Nat, Whole(a),
         CreditLater(p, r, a), Whole(call[p].actual)
  PROVE  /\ \A k \in Keys : Own(p, k)' = IF Counts(k, r, 0) THEN a ELSE 0
         /\ Secure(p)' /\ \A q \in Procs \ {p} : pc'[q] = pc[q] /\ call'[q] = call[q] /\ todo'[q] = todo[q]
<1>0. /\ pc \in [Procs -> Labels] /\ call \in [Procs -> CallRecord] /\ todo \in [Procs -> Seq(Keys)]
  BY DEF FullInv, Inv, LedgerTypeOK, CountersTyped
<1>1. PICK c \in Nat : c = UsdToCents(a) /\ UnitsPerCent * c = a
  BY CentsExact
<1>2. CASE c > 0
  <2>1. PICK keys : keys = <<TicketKey(r), DailyKey(0), MonthlyKey>>
    OBVIOUS
  <2>2. /\ todo' = [todo EXCEPT ![p] = keys] /\ pc' = [pc EXCEPT ![p] = "credit"]
        /\ call' = [call EXCEPT ![p].run = r, ![p].amount = a]
    BY <1>1, <1>2, <2>1, OneDay DEF CreditLater, Goto, FullInv
  <2>3. /\ todo'[p] = keys /\ pc'[p] = "credit" /\ call'[p].amount = a /\ call'[p].actual = call[p].actual
        /\ \A q \in Procs \ {p} : pc'[q] = pc[q] /\ call'[q] = call[q] /\ todo'[q] = todo[q]
    BY <1>0, <2>2 DEF CallRecord
  <2>4. Len(keys) = 3 /\ keys[1] = TicketKey(r) /\ keys[2] = DailyKey(0) /\ keys[3] = MonthlyKey
    BY <2>1
  <2>5. ASSUME NEW k \in Keys PROVE Counts(k, r, 0) <=> \E n \in 1..Len(keys) : keys[n] = k
    <3>1. Counts(k, r, 0) <=> k \in {TicketKey(r), DailyKey(0), MonthlyKey}
      BY OneDay DEF KeySet, FullInv
    <3>2. 1..3 = {1, 2, 3}
      OBVIOUS
    <3>3. (\E n \in {1, 2, 3} : keys[n] = k) <=> k \in {TicketKey(r), DailyKey(0), MonthlyKey}
      BY <2>4
    <3> QED BY <2>4, <3>1, <3>2, <3>3
  <2>6. \A k \in Keys : Own(p, k)' = IF Counts(k, r, 0) THEN a ELSE 0
    BY <2>3, <2>5 DEF Own, HeldOf
  <2>7. Secure(p)'
    BY <2>1, <2>3 DEF Secure
  <2> QED BY <2>3, <2>6, <2>7
<1>3. CASE c = 0
  <2>1. a = 0
    BY <1>1, <1>3, BudgetAssumption
  <2>2. /\ pc' = [pc EXCEPT ![p] = "idle"] /\ call' = [call EXCEPT ![p] = NoCall]
        /\ todo' = [todo EXCEPT ![p] = <<>>]
    BY <1>1, <1>3 DEF CreditLater, Done, Goto
  <2>3. /\ pc'[p] = "idle" /\ call'[p] = NoCall
        /\ \A q \in Procs \ {p} : pc'[q] = pc[q] /\ call'[q] = call[q] /\ todo'[q] = todo[q]
    BY <1>0, <2>2
  <2>4. \A k \in Keys : Own(p, k)' = 0
    BY <2>3 DEF Own, HeldOf
  <2>5. Secure(p)'
    BY <2>3, NoCallSecure
  <2> QED BY <2>1, <2>3, <2>4, <2>5
<1> QED BY <1>2, <1>3


\* A commit that writes row i moves money between the row and p's own part.
LEMMA CapCommit ==
  ASSUME CapInv, FullInv', NEW p \in Procs, pc[p] # "crashed", NEW i \in Ids,
         UNCHANGED <<ticket_cap, counter, faults>>,
         \A j \in Ids \ {i} : reservations'[j] = reservations[j] /\ charges'[j] = charges[j],
         \A q \in Procs \ {p} : pc'[q] = pc[q] /\ call'[q] = call[q] /\ todo'[q] = todo[q],
         \A q \in Procs \ {p} : pc[q] \in {"settle", "release"} => call[q].id # i,
         reservations'[i] # None => Whole(reservations'[i].amount), Secure(p)',
         \A k \in Keys : ActiveShare(reservations'[i], k) + ActualShare(charges'[i], k) + Own(p, k)'
                           = ActiveShare(reservations[i], k) + ActualShare(charges[i], k) + Own(p, k)
  PROVE  CapInv'
<1>1. ASSUME NEW k \in Keys PROVE Balanced(k)'
  <2>1. /\ Active(k)' = Active(k) - ActiveShare(reservations[i], k) + ActiveShare(reservations'[i], k)
        /\ Actual(k)' = Actual(k) - ActualShare(charges[i], k) + ActualShare(charges'[i], k)
        /\ Active(k) \in Nat /\ Actual(k) \in Nat
        /\ ActiveShare(reservations[i], k) \in Nat /\ ActiveShare(reservations'[i], k) \in Nat
        /\ ActualShare(charges[i], k) \in Nat /\ ActualShare(charges'[i], k) \in Nat
    BY RowMoves DEF CapInv
  <2>2. Own(p, k) \in Nat /\ Own(p, k)' \in Nat
    BY HeldMoves DEF CapInv
  <2>3. Offered(k)' = Offered(k) /\ Offered(k) \in Int
    BY BudgetAssumption DEF Offered, CapInv
  <2>4. /\ Offered(k)' + Active(k)' + Actual(k)' + Own(p, k)'
             = Offered(k) + Active(k) + Actual(k) + Own(p, k)
        /\ Offered(k) + Active(k) + Actual(k) + Own(p, k) \in Int
    BY <2>1, <2>2, <2>3
  <2> QED BY <2>3, <2>4, BalanceKept
<1>2. RowsWhole'
  BY DEF CapInv, RowsWhole
<1>3. \A k \in Keys : counter'[k] \in Nat
  BY DEF CapInv
<1>4. ASSUME NEW q \in Procs \ {p}, pc[q] \in {"settle", "release"}
      PROVE  /\ reservations'[call[q].id].status = reservations[call[q].id].status
             /\ reservations'[call[q].id].owner = reservations[call[q].id].owner
  <2>1. call[q].id \in Ids \ {i}
    BY <1>4 DEF CapInv, FullInv, Inv, CallsRemember, Remembers
  <2> QED BY <2>1
<1> QED BY <1>1, <1>2, <1>3, <1>4, CapAssembled

LEMMA CapInsert ==
  ASSUME PlainUse, CapInv, FullInv', NEW p \in Procs, InsertReservation(p)
  PROVE  CapInv'
<1>0. /\ pc \in [Procs -> Labels] /\ call \in [Procs -> CallRecord] /\ todo \in [Procs -> Seq(Keys)]
      /\ reservations \in [Ids -> Row \cup {None}] /\ Secure(p)
  BY DEF CapInv, FullInv, Inv, LedgerTypeOK, CountersTyped
<1>1. PICK r \in Runs : r = call[p].run
  BY DEF CapInv, FullInv, Inv, CallsRemember, Remembers, InsertReservation
<1>2. PICK i \in Ids : i = call[p].id
  BY DEF CapInv, FullInv, Inv, CallsRemember, Remembers, InsertReservation
<1>3. PICK a \in Nat : a = call[p].amount
  BY <1>0 DEF CallRecord
<1>4. /\ pc[p] = "insert" /\ reservations[i] = None /\ Whole(a) /\ Whole(call[p].actual)
      /\ UNCHANGED <<ticket_cap, charges, counter, faults>>
  <2>1. pc[p] = "insert" /\ i # None
    BY BudgetAssumption DEF InsertReservation
  <2>2. Reserving(p)
    BY <1>2, <2>1 DEF Reserving
  <2> QED BY <1>0, <1>2, <1>3, <2>1, <2>2
          DEF InsertReservation, env, Secure, CapInv, FullInv, Inv, CallsRemember, Remembers
<1>5. ASSUME NEW q \in Procs \ {p}, pc[q] \in {"settle", "release"} PROVE call[q].id # i
  BY <1>4, <1>5 DEF CapInv, FullInv, Inv, CallsRemember, Remembers
<1>6. \A k \in Keys : Own(p, k) = IF Counts(k, r, 0) THEN a ELSE 0
  BY <1>1, <1>3, <1>4 DEF Own, HeldOf
<1>7. CASE UNCHANGED reservations /\ CreditLater(p, r, a)
  <2>1. /\ \A k \in Keys : Own(p, k)' = IF Counts(k, r, 0) THEN a ELSE 0
        /\ Secure(p)' /\ \A q \in Procs \ {p} : pc'[q] = pc[q] /\ call'[q] = call[q] /\ todo'[q] = todo[q]
    BY <1>4, <1>7, CreditHeld DEF CapInv
  <2>2. \A k \in Keys : Own(p, k)' = Own(p, k)
    BY <1>6, <2>1
  <2> QED BY <1>4, <1>5, <1>7, <2>1, <2>2, CapCommit
<1>8. CASE Done(p)
      /\ reservations' = [reservations EXCEPT ![i] =
             [run |-> r, amount |-> a, status |-> "active", day |-> day, owner |-> p]]
  <2>1. PICK row : row = [run |-> r, amount |-> a, status |-> "active", day |-> 0, owner |-> p]
    OBVIOUS
  <2>2. day = 0
    BY OneDay DEF CapInv, FullInv
  <2>3. reservations' = [reservations EXCEPT ![i] = row]
    BY <1>8, <2>1, <2>2
  <2>4. reservations'[i] = row /\ \A j \in Ids \ {i} : reservations'[j] = reservations[j] /\ charges'[j] = charges[j]
    BY <1>0, <1>4, <2>3
  <2>5. /\ pc' = [pc EXCEPT ![p] = "idle"] /\ call' = [call EXCEPT ![p] = NoCall]
        /\ todo' = [todo EXCEPT ![p] = <<>>]
    BY <1>8 DEF Done, Goto
  <2>6. /\ pc'[p] = "idle" /\ call'[p] = NoCall
        /\ \A q \in Procs \ {p} : pc'[q] = pc[q] /\ call'[q] = call[q] /\ todo'[q] = todo[q]
    BY <1>0, <2>5
  <2>7. Secure(p)'
    BY <2>6, NoCallSecure
  <2>8. row # None
    <3>1. row \in Row
      BY <2>1, BudgetAssumption DEF Row
    <3> QED BY <3>1, BudgetAssumption
  <2>9. ASSUME NEW k \in Keys
        PROVE  ActiveShare(reservations'[i], k) + ActualShare(charges'[i], k) + Own(p, k)'
                 = ActiveShare(reservations[i], k) + ActualShare(charges[i], k) + Own(p, k)
    <3>1. ActiveShare(reservations'[i], k) = IF Counts(k, r, 0) THEN a ELSE 0
      BY <2>1, <2>4, <2>8 DEF ActiveShare
    <3>2. ActiveShare(reservations[i], k) = 0
      BY <1>4 DEF ActiveShare
    <3>3. Own(p, k)' = 0
      BY <2>6 DEF Own, HeldOf
    <3>4. PICK s \in Nat : s = ActualShare(charges[i], k)
      BY ActualTotal DEF CapInv, FullInv, Inv, LedgerTypeOK
    <3>5. ActualShare(charges'[i], k) = s
      BY <1>4, <3>4
    <3> QED BY <1>6, <3>1, <3>2, <3>3, <3>4, <3>5
  <2>10. Whole(reservations'[i].amount)
    BY <1>4, <2>1, <2>4
  <2> QED BY <1>4, <1>5, <2>4, <2>6, <2>7, <2>9, <2>10, CapCommit
<1> QED BY <1>1, <1>2, <1>3, <1>7, <1>8 DEF InsertReservation

\* The row of a settlement or of a release belongs to that call alone.
LEMMA OwnRow ==
  ASSUME PlainUse, CapInv, NEW p \in Procs, pc[p] \in {"settle", "release"}
  PROVE  /\ call[p].id \in Ids /\ reservations[call[p].id] \in Row /\ reservations[call[p].id] # None
         /\ charges[call[p].id] = None
         /\ reservations[call[p].id].status = "active" /\ reservations[call[p].id].day = 0
         /\ call[p].run = reservations[call[p].id].run /\ call[p].run \in Runs
         /\ call[p].amount = reservations[call[p].id].amount /\ call[p].actual <= call[p].amount
         /\ \A q \in Procs \ {p} : pc[q] \in {"settle", "release"} => call[q].id # call[p].id
<1>1. PICK i \in Ids : i = call[p].id
  BY DEF CapInv, FullInv, Inv, CallsRemember, Remembers
<1>2. /\ reservations[i] # None /\ call[p].run = reservations[i].run
      /\ call[p].amount = reservations[i].amount /\ call[p].actual <= call[p].amount
  BY <1>1 DEF CapInv, FullInv, Inv, CallsRemember, Remembers
<1>3. reservations[i] \in Row /\ reservations[i].run \in Runs /\ reservations[i].owner \in Procs
  BY <1>2 DEF CapInv, FullInv, Inv, LedgerTypeOK, Row
<1>4. Secure(p)
  BY DEF CapInv
<1>5. reservations[i].status = "active"
  BY <1>1, <1>4 DEF Secure
<1>6. charges[i] = None
  BY <1>5 DEF CapInv, FullInv, Inv, LedgerConsistent
<1>7. reservations[i].day = 0
  BY <1>2, OneDay DEF CapInv, FullInv
<1>8. ASSUME NEW q \in Procs \ {p}, pc[q] \in {"settle", "release"}, call[q].id = i PROVE FALSE
  <2>1. Secure(q)
    BY DEF CapInv
  <2>2. pc[p] = "settle" => reservations[i].owner = p
    BY <1>1, <1>4 DEF Secure
  <2>3. pc[p] = "release" => p \in Sweepers /\ pc[reservations[i].owner] = "crashed"
    BY <1>1, <1>4 DEF Secure
  <2>4. pc[q] = "settle" => reservations[i].owner = q
    BY <1>8, <2>1 DEF Secure
  <2>5. pc[q] = "release" => q \in Sweepers /\ pc[reservations[i].owner] = "crashed"
    BY <1>8, <2>1 DEF Secure
  <2> QED BY <1>8, <2>2, <2>3, <2>4, <2>5 DEF PlainUse
<1> QED BY <1>1, <1>2, <1>3, <1>5, <1>6, <1>7, <1>8

LEMMA CapRelease ==
  ASSUME PlainUse, CapInv, FullInv', NEW p \in Procs, ReleaseCommit(p)
  PROVE  CapInv'
<1>0. /\ pc[p] = "release" /\ UNCHANGED <<ticket_cap, charges, counter, faults>> /\ Secure(p)
      /\ reservations \in [Ids -> Row \cup {None}] /\ call \in [Procs -> CallRecord]
  BY DEF ReleaseCommit, env, CapInv, FullInv, Inv, LedgerTypeOK
<1>1. PICK i \in Ids : i = call[p].id
  BY <1>0, OwnRow
<1>2. PICK row \in Row : row = reservations[i]
  BY <1>0, <1>1, OwnRow
<1>3. /\ row # None /\ row.status = "active" /\ row.day = 0 /\ charges[i] = None
      /\ row.run \in Runs /\ row.amount \in Nat
      /\ call[p].run = row.run /\ call[p].amount = row.amount
      /\ \A q \in Procs \ {p} : pc[q] \in {"settle", "release"} => call[q].id # i
  BY <1>0, <1>1, <1>2, OwnRow DEF Row
<1>4. PICK a \in Nat : a = row.amount
  BY <1>3
<1>5. PICK r \in Runs : r = row.run
  BY <1>3
<1>6. Whole(a) /\ Whole(call[p].actual)
  BY <1>0, <1>3, <1>4 DEF Secure
<1>7. CreditLater(p, r, a) /\ reservations' = [reservations EXCEPT ![i].status = "released"]
  BY <1>1, <1>3, <1>4, <1>5 DEF ReleaseCommit
<1>8. /\ \A k \in Keys : Own(p, k)' = IF Counts(k, r, 0) THEN a ELSE 0
      /\ Secure(p)' /\ \A q \in Procs \ {p} : pc'[q] = pc[q] /\ call'[q] = call[q] /\ todo'[q] = todo[q]
  BY <1>6, <1>7, CreditHeld DEF CapInv
<1>9. /\ reservations'[i].status = "released" /\ reservations'[i].amount = a
      /\ \A j \in Ids \ {i} : reservations'[j] = reservations[j] /\ charges'[j] = charges[j]
  BY <1>0, <1>2, <1>4, <1>7 DEF Row
<1>10. ASSUME NEW k \in Keys
       PROVE  ActiveShare(reservations'[i], k) + ActualShare(charges'[i], k) + Own(p, k)'
                 = ActiveShare(reservations[i], k) + ActualShare(charges[i], k) + Own(p, k)
  <2>1. ActiveShare(reservations[i], k) = IF Counts(k, r, 0) THEN a ELSE 0
    BY <1>2, <1>3, <1>4, <1>5 DEF ActiveShare
  <2>2. ActiveShare(reservations'[i], k) = 0
    BY <1>9 DEF ActiveShare
  <2>3. ActualShare(charges[i], k) = 0 /\ ActualShare(charges'[i], k) = 0
    BY <1>0, <1>3 DEF ActualShare
  <2>4. Own(p, k) = 0
    BY <1>0 DEF Own, HeldOf
  <2> QED BY <1>8, <2>1, <2>2, <2>3, <2>4
<1> QED BY <1>0, <1>3, <1>6, <1>8, <1>9, <1>10, CapCommit


\* A call that ends without giving back what it held: the counters offer less.
LEMMA CapLost ==
  ASSUME CapInv, FullInv', NEW p \in Procs, pc[p] # "crashed", pc'[p] \in {"idle", "crashed"},
         call'[p] = NoCall, UNCHANGED <<ticket_cap, reservations, charges, counter>>, faults' = faults + 1,
         \A q \in Procs \ {p} : pc'[q] = pc[q] /\ call'[q] = call[q] /\ todo'[q] = todo[q]
  PROVE  CapInv'
<1>0. faults' # 0
  BY BudgetAssumption DEF CapInv, FullInv, CountersTyped
<1>1. ASSUME NEW k \in Keys PROVE Balanced(k)'
  <2>1. Own(p, k)' = 0
    BY DEF Own, HeldOf
  <2>2. Own(p, k) \in Nat
    BY HeldMoves DEF CapInv
  <2>3. Active(k)' = Active(k) /\ Actual(k)' = Actual(k)
    BY RowsStay
  <2>4. Active(k) \in Nat /\ Actual(k) \in Nat
    BY SumsNat DEF CapInv, FullInv
  <2>5. Offered(k)' = Offered(k) /\ Offered(k) \in Int
    BY BudgetAssumption DEF Offered, CapInv
  <2>6. Offered(k)' + Active(k)' + Actual(k)' + Own(p, k)' <= Offered(k) + Active(k) + Actual(k) + Own(p, k)
    BY <2>1, <2>2, <2>3, <2>4, <2>5
  <2> QED BY <1>0, <2>5, <2>6, BalanceKept
<1>2. RowsWhole'
  BY DEF CapInv, RowsWhole
<1>3. \A k \in Keys : counter'[k] \in Nat
  BY DEF CapInv
<1>4. Secure(p)'
  BY NoCallSecure
<1> QED BY <1>1, <1>2, <1>3, <1>4, CapAssembled


LEMMA CapSettle ==
  ASSUME PlainUse, CapInv, FullInv', NEW p \in Procs, SettleCommit(p)
  PROVE  CapInv'
<1>0. /\ pc[p] = "settle" /\ UNCHANGED <<ticket_cap, counter, faults>> /\ Secure(p)
      /\ reservations \in [Ids -> Row \cup {None}] /\ charges \in [Ids -> ChargeRow \cup {None}]
      /\ call \in [Procs -> CallRecord]
  BY DEF SettleCommit, env, CapInv, FullInv, Inv, LedgerTypeOK
<1>1. PICK i \in Ids : i = call[p].id
  BY <1>0, OwnRow
<1>2. PICK row \in Row : row = reservations[i]
  BY <1>0, <1>1, OwnRow
<1>3. /\ row # None /\ row.status = "active" /\ row.day = 0 /\ charges[i] = None
      /\ row.run \in Runs /\ row.amount \in Nat
      /\ call[p].run = row.run /\ call[p].amount = row.amount /\ call[p].actual <= row.amount
      /\ \A q \in Procs \ {p} : pc[q] \in {"settle", "release"} => call[q].id # i
  BY <1>0, <1>1, <1>2, OwnRow DEF Row
<1>4. PICK a \in Nat : a = row.amount
  BY <1>3
<1>5. PICK r \in Runs : r = row.run
  BY <1>3
<1>6. PICK b \in Nat : b = call[p].actual /\ b <= a
  BY <1>0, <1>3, <1>4 DEF CallRecord
<1>7. Whole(a) /\ Whole(b) /\ a - b \in Nat /\ Whole(a - b)
  BY <1>0, <1>3, <1>4, <1>6, WholeLess DEF Secure
<1>8. PICK new : new = [run |-> r, actual |-> b, day |-> 0]
  OBVIOUS
<1>9. day = 0
  BY OneDay DEF CapInv, FullInv
<1>10. /\ CreditLater(p, r, a - b) /\ reservations' = [reservations EXCEPT ![i].status = "settled"]
       /\ charges' = [charges EXCEPT ![i] = new]
  BY <1>1, <1>3, <1>4, <1>5, <1>6, <1>8, <1>9 DEF SettleCommit, MayCharge
<1>11. /\ \A k \in Keys : Own(p, k)' = IF Counts(k, r, 0) THEN a - b ELSE 0
       /\ Secure(p)' /\ \A q \in Procs \ {p} : pc'[q] = pc[q] /\ call'[q] = call[q] /\ todo'[q] = todo[q]
  BY <1>6, <1>7, <1>10, CreditHeld DEF CapInv
<1>12. /\ reservations'[i].status = "settled" /\ reservations'[i].amount = a /\ charges'[i] = new
       /\ \A j \in Ids \ {i} : reservations'[j] = reservations[j] /\ charges'[j] = charges[j]
  BY <1>0, <1>2, <1>4, <1>10 DEF Row
<1>13. new # None
  <2>1. new \in ChargeRow
    BY <1>8, BudgetAssumption DEF ChargeRow
  <2> QED BY <2>1, BudgetAssumption
<1>14. ASSUME NEW k \in Keys
       PROVE  ActiveShare(reservations'[i], k) + ActualShare(charges'[i], k) + Own(p, k)'
                 = ActiveShare(reservations[i], k) + ActualShare(charges[i], k) + Own(p, k)
  <2>1. ActiveShare(reservations[i], k) = IF Counts(k, r, 0) THEN a ELSE 0
    BY <1>2, <1>3, <1>4, <1>5 DEF ActiveShare
  <2>2. ActiveShare(reservations'[i], k) = 0
    BY <1>12 DEF ActiveShare
  <2>3. ActualShare(charges[i], k) = 0
    BY <1>3 DEF ActualShare
  <2>4. ActualShare(charges'[i], k) = IF Counts(k, r, 0) THEN b ELSE 0
    BY <1>8, <1>12, <1>13 DEF ActualShare
  <2>5. Own(p, k) = 0
    BY <1>0 DEF Own, HeldOf
  <2> QED BY <1>11, <2>1, <2>2, <2>3, <2>4, <2>5
<1> QED BY <1>0, <1>3, <1>7, <1>11, <1>12, <1>14, CapCommit

\* The keys a credit still has to work through: the next one and the rest.
KeyOrder(sq) ==
  /\ Len(sq) # 1 => Tail(sq) = <<DailyKey(0), MonthlyKey>> \/ Tail(sq) = <<MonthlyKey>>
  /\ \A k : (\E n \in 1..Len(sq) : sq[n] = k) <=>
              (k = Head(sq) \/ \E n \in 1..Len(Tail(sq)) : Tail(sq)[n] = k)
  /\ ~ \E n \in 1..Len(Tail(sq)) : Tail(sq)[n] = Head(sq)
  /\ Len(sq) = 1 => 1..Len(Tail(sq)) = {}

LEMMA KeysInOrder ==
  ASSUME NEW r, NEW sq,
         \/ sq = <<TicketKey(r), DailyKey(0), MonthlyKey>>
         \/ sq = <<DailyKey(0), MonthlyKey>>
         \/ sq = <<MonthlyKey>>
  PROVE  KeyOrder(sq)
<1>0. 1..3 = {1, 2, 3} /\ 1..2 = {1, 2} /\ 1..1 = {1} /\ 1..0 = {}
  OBVIOUS
<1>1. PICK t, d, m : t = TicketKey(r) /\ d = DailyKey(0) /\ m = MonthlyKey
  OBVIOUS
<1>2. t # d /\ t # m /\ d # m
  BY <1>1 DEF TicketKey, DailyKey, MonthlyKey
<1>3. CASE sq = <<t, d, m>>
  <2>1. /\ Len(sq) = 3 /\ sq[1] = t /\ sq[2] = d /\ sq[3] = m /\ Head(sq) = t /\ Tail(sq) = <<d, m>>
    BY <1>3
  <2>2. PICK rest : rest = Tail(sq) /\ rest = <<d, m>>
    BY <2>1
  <2>3. Len(rest) = 2 /\ rest[1] = d /\ rest[2] = m
    BY <2>2
  <2> QED BY <1>0, <1>1, <1>2, <2>1, <2>2, <2>3 DEF KeyOrder
<1>4. CASE sq = <<d, m>>
  <2>1. /\ Len(sq) = 2 /\ sq[1] = d /\ sq[2] = m /\ Head(sq) = d /\ Tail(sq) = <<m>>
    BY <1>4
  <2>2. PICK rest : rest = Tail(sq) /\ rest = <<m>>
    BY <2>1
  <2>3. Len(rest) = 1 /\ rest[1] = m
    BY <2>2
  <2> QED BY <1>0, <1>1, <1>2, <2>1, <2>2, <2>3 DEF KeyOrder
<1>5. CASE sq = <<m>>
  <2>1. Len(sq) = 1 /\ sq[1] = m /\ Head(sq) = m /\ Tail(sq) = <<>>
    BY <1>5
  <2>2. Len(Tail(sq)) = 0
    BY <2>1
  <2> QED BY <1>0, <1>1, <2>1, <2>2 DEF KeyOrder
<1> QED BY <1>1, <1>3, <1>4, <1>5

LEMMA CapCredit ==
  ASSUME PlainUse, CapInv, FullInv', NEW p \in Procs, Credit(p)
  PROVE  CapInv'
<1>0. /\ pc \in [Procs -> Labels] /\ call \in [Procs -> CallRecord] /\ todo \in [Procs -> Seq(Keys)]
      /\ counter \in [Keys -> Nat \cup {None}] /\ faults \in 0..MaxFaults /\ Secure(p)
      /\ pc[p] = "credit" /\ UNCHANGED <<ticket_cap, reservations, charges>>
  BY DEF CapInv, FullInv, Inv, LedgerTypeOK, CountersTyped, Credit, postgres
<1>1. PICK sq \in Seq(Keys) : sq = todo[p] /\ Len(sq) \in 1..3
  BY <1>0 DEF CapInv, FullInv, KeysLeft
<1>2. PICK r \in Runs :
       \/ sq = <<TicketKey(r), DailyKey(0), MonthlyKey>>
       \/ sq = <<DailyKey(0), MonthlyKey>>
       \/ sq = <<MonthlyKey>>
  BY <1>0, <1>1 DEF Secure
<1>3. PICK top \in Keys : top = Head(sq)
  BY <1>1, HeadTail
<1>4. /\ Len(sq) # 1 => Tail(sq) = <<DailyKey(0), MonthlyKey>> \/ Tail(sq) = <<MonthlyKey>>
      /\ \A k : (\E n \in 1..Len(sq) : sq[n] = k) <=>
                  (k = top \/ \E n \in 1..Len(Tail(sq)) : Tail(sq)[n] = k)
      /\ ~ \E n \in 1..Len(Tail(sq)) : Tail(sq)[n] = top
      /\ Len(sq) = 1 => 1..Len(Tail(sq)) = {}
  <2> USE DEF KeyOrder
  <2>1. KeyOrder(sq)
    BY <1>2, KeysInOrder
  <2> QED BY <1>3, <2>1
<1>5. PICK a \in Nat : a = call[p].amount /\ Whole(a)
  BY <1>0 DEF CallRecord, Secure
<1>6. PICK c \in Nat : c = UsdToCents(a) /\ UnitsPerCent * c = a
  BY <1>5, CentsExact
<1>7. PICK u \in Nat : u = UnitsPerCent
  BY BudgetAssumption
<1>8. \A k : Own(p, k) = IF k = top \/ \E n \in 1..Len(Tail(sq)) : Tail(sq)[n] = k THEN a ELSE 0
  BY ZenonT(40), <1>0, <1>1, <1>4, <1>5 DEF Own, HeldOf
<1>9. RowsWhole'
  BY <1>0 DEF CapInv, RowsWhole
<1>10. ASSUME NEW k \in Keys
       PROVE  /\ Active(k)' = Active(k) /\ Actual(k)' = Actual(k) /\ Active(k) \in Nat /\ Actual(k) \in Nat
              /\ counter[k] \in Nat /\ Offered(k) = u * counter[k] /\ Offered(k) \in Int
  BY <1>0, <1>7, RowsStay, SumsNat DEF CapInv, FullInv, Offered
<1>11. CASE /\ counter' = [counter EXCEPT ![top] = IncrBy(top, c)] /\ UNCHANGED faults
            /\ IF Len(sq) = 1 THEN Done(p)
               ELSE todo' = [todo EXCEPT ![p] = Tail(sq)] /\ UNCHANGED <<pc, call>>
  <2>1. /\ \A q \in Procs \ {p} : pc'[q] = pc[q] /\ call'[q] = call[q] /\ todo'[q] = todo[q]
        /\ Secure(p)'
        /\ \A k : Own(p, k)' = IF \E n \in 1..Len(Tail(sq)) : Tail(sq)[n] = k THEN a ELSE 0
    <3>1. CASE Len(sq) = 1
      <4>1. /\ pc' = [pc EXCEPT ![p] = "idle"] /\ call' = [call EXCEPT ![p] = NoCall]
            /\ todo' = [todo EXCEPT ![p] = <<>>]
        BY <1>11, <3>1 DEF Done, Goto
      <4>2. /\ pc'[p] = "idle" /\ call'[p] = NoCall
            /\ \A q \in Procs \ {p} : pc'[q] = pc[q] /\ call'[q] = call[q] /\ todo'[q] = todo[q]
        BY <1>0, <4>1
      <4>3. Secure(p)'
        BY <4>2, NoCallSecure
      <4>4. \A k : Own(p, k)' = 0
        BY <4>2 DEF Own, HeldOf
      <4> QED BY <1>4, <3>1, <4>2, <4>3, <4>4
    <3>2. CASE Len(sq) # 1
      <4>1. /\ todo'[p] = Tail(sq) /\ pc'[p] = "credit" /\ call'[p] = call[p]
            /\ \A q \in Procs \ {p} : pc'[q] = pc[q] /\ call'[q] = call[q] /\ todo'[q] = todo[q]
        BY <1>0, <1>11, <3>2
      <4>2. Secure(p)'
        BY <1>0, <1>2, <1>4, <3>2, <4>1 DEF Secure
      <4>3. \A k : Own(p, k)' = IF \E n \in 1..Len(Tail(sq)) : Tail(sq)[n] = k THEN a ELSE 0
        BY <1>5, <4>1 DEF Own, HeldOf
      <4> QED BY <4>1, <4>2, <4>3
    <3> QED BY <3>1, <3>2
  <2>2. ASSUME NEW k \in Keys PROVE counter'[k] \in Nat /\ Balanced(k)'
    <3>1. PICK n \in Nat : n = counter[k]
      BY <1>10
    <3>2. CASE k = top
      <4>1. counter'[k] = n + c
        <5>1. IncrBy(top, c) = n + c
          BY <3>1, <3>2, BudgetAssumption DEF IncrBy
        <5> QED BY <1>0, <1>11, <3>2, <5>1
      <4>2. Offered(k)' = u * n + u * c
        BY <1>7, <4>1, Times DEF Offered
      <4>3. u * n \in Int /\ u * c = a
        BY <1>6, <1>7
      <4>4. Own(p, k) = a /\ Own(p, k)' = 0
        BY <1>4, <1>8, <2>1, <3>2
      <4>5. Offered(k)' \in Int /\ Offered(k)' = Offered(k) + a /\ Offered(k) \in Int
        <5>1. Offered(k) = u * n
          BY <1>10, <3>1
        <5>2. PICK m \in Int : m = u * n
          BY <4>3
        <5>3. Offered(k)' = m + a /\ Offered(k) = m
          BY <4>2, <4>3, <5>1, <5>2
        <5> QED BY <5>3
      <4>6. /\ Offered(k)' + Active(k)' + Actual(k)' + Own(p, k)'
                 = Offered(k) + Active(k) + Actual(k) + Own(p, k)
            /\ Offered(k) + Active(k) + Actual(k) + Own(p, k) \in Int
        BY <1>10, <4>4, <4>5
      <4>7. Balanced(k)'
        BY <1>0, <1>11, <2>1, <4>5, <4>6, BalanceKept
      <4> QED BY <4>1, <4>7
    <3>3. CASE k # top
      <4>1. counter'[k] = n
        BY <1>0, <1>11, <3>1, <3>3
      <4>2. Offered(k)' = Offered(k) /\ Offered(k) \in Int
        BY <1>7, <1>10, <3>1, <4>1 DEF Offered
      <4>3. Own(p, k) = Own(p, k)' /\ Own(p, k) \in Nat
        BY <1>8, <2>1, <3>3
      <4>4. /\ Offered(k)' + Active(k)' + Actual(k)' + Own(p, k)'
                 = Offered(k) + Active(k) + Actual(k) + Own(p, k)
            /\ Offered(k) + Active(k) + Actual(k) + Own(p, k) \in Int
        BY <1>10, <4>2, <4>3
      <4>5. Balanced(k)'
        BY <1>0, <1>11, <2>1, <4>2, <4>4, BalanceKept
      <4> QED BY <4>1, <4>5
    <3> QED BY <3>2, <3>3
  <2> QED BY <1>0, <1>9, <2>1, <2>2, CapAssembled
<1>12. CASE faults' = faults + 1 /\ Done(p) /\ UNCHANGED counter
  <2>1. /\ pc' = [pc EXCEPT ![p] = "idle"] /\ call' = [call EXCEPT ![p] = NoCall]
        /\ todo' = [todo EXCEPT ![p] = <<>>]
    BY <1>12 DEF Done, Goto
  <2>2. /\ pc'[p] = "idle" /\ call'[p] = NoCall
        /\ \A q \in Procs \ {p} : pc'[q] = pc[q] /\ call'[q] = call[q] /\ todo'[q] = todo[q]
    BY <1>0, <2>1
  <2> QED BY <1>0, <1>12, <2>2, CapLost
<1> QED BY <1>1, <1>3, <1>5, <1>6, <1>11, <1>12 DEF Credit


LEMMA CapNext == PlainUse /\ CapInv /\ [Next]_vars => CapInv'
<1> SUFFICES ASSUME PlainUse, CapInv, [Next]_vars PROVE CapInv'
  OBVIOUS
<1>0. FullInv'
  BY FullStep DEF CapInv
<1>1. CASE UNCHANGED vars
  <2>1. UNCHANGED <<ticket_cap, reservations, charges, counter, pc, call, todo, faults>>
    BY <1>1 DEF vars, postgres, local, env
  <2>2. RowsWhole' /\ \A k \in Keys : counter'[k] \in Nat
    BY <2>1 DEF CapInv, RowsWhole
  <2>3. \A p \in Procs : Secure(p)'
    BY <2>1 DEF CapInv, Secure
  <2>4. ASSUME NEW k \in Keys PROVE Balanced(k)'
    <3>1. Active(k)' = Active(k) /\ Actual(k)' = Actual(k)
      BY <2>1, RowsStay
    <3>2. Held(k)' = Held(k)
      BY <2>1 DEF Held, Own, Total, AddsUp
    <3>3. Cap(k)' = Cap(k) /\ Offered(k)' = Offered(k)
      BY <2>1 DEF Cap, Offered
    <3>4. Balanced(k)
      BY DEF CapInv
    <3> QED BY <2>1, <3>1, <3>2, <3>3, <3>4 DEF Balanced
  <2> QED BY <1>0, <2>1, <2>2, <2>3, <2>4 DEF CapInv
<1>2. ~ RedisReset /\ ~ NextDay
  BY DEF PlainUse, CapInv, FullInv, Inv, LedgerTypeOK, CountersTyped, RedisReset, NextDay
<1>3. ASSUME NEW p \in Procs, Crash(p) PROVE CapInv'
  <2>1. /\ pc[p] # "crashed" /\ pc'[p] = "crashed" /\ call'[p] = NoCall /\ faults' = faults + 1
        /\ UNCHANGED <<ticket_cap, reservations, charges, counter>>
        /\ \A q \in Procs \ {p} : pc'[q] = pc[q] /\ call'[q] = call[q] /\ todo'[q] = todo[q]
    BY <1>3 DEF Crash, Goto, postgres, CapInv, FullInv, Inv, LedgerTypeOK, CountersTyped
  <2> QED BY <1>0, <2>1, CapLost
<1>4. ASSUME NEW p \in Procs, ReconcileRead(p) \/ ReconcileSet(p) PROVE FALSE
  BY <1>4 DEF ReconcileRead, ReconcileSet, CapInv, Secure
<1>5. ASSUME NEW p \in Procs, \/ \E r \in Runs, c \in TicketCaps : ConfigureCaps(p, r, c)
                              \/ \E r \in Runs : Balance(p, r) PROVE FALSE
  BY <1>5 DEF ConfigureCaps, Balance, PlainUse
<1> QED BY <1>0, <1>1, <1>2, <1>3, <1>4, <1>5, CapLocal, CapEval, CapInsert, CapSettle, CapRelease, CapCredit
        DEF Next, ProcStep

LEMMA EmptyTotal ==
  ASSUME NEW S, IsFiniteSet(S), NEW F, \A x \in S : F[x] = 0
  PROVE  Total(F, S) = 0
<1>0. IsFiniteSet({})
  BY FS_EmptySet
<1>1. Total(F, {}) = 0
  BY <1>0, TotalUnfolds
<1>2. {} \in SUBSET S
  OBVIOUS
<1>3. \A x \in S : F[x] \in Nat
  OBVIOUS
<1>4. Total(F, S) = Total(F, {})
  BY <1>2, <1>3, TotalZeros
<1> QED BY <1>1, <1>4

\* Nothing is held while no call is between a grant and its row.
LEMMA NothingHeld ==
  ASSUME \A p \in Procs : pc[p] \notin {"insert", "credit"}, NEW k
  PROVE  Held(k) = 0
<1>1. PICK F : F = [p \in Procs |-> Own(p, k)]
  OBVIOUS
<1>2. \A p \in Procs : F[p] = 0
  BY <1>1 DEF Own, HeldOf
<1>3. Total(F, Procs) = 0
  BY <1>2, EmptyTotal, BudgetAssumption
<1> QED BY <1>1, <1>3 DEF Held

LEMMA NothingReserved ==
  ASSUME Inv, \A i \in Ids : reservations[i] # None => reservations[i].status # "active", NEW k
  PROVE  Active(k) = 0
<1>1. PICK F : F = [i \in Ids |-> ActiveShare(reservations[i], k)]
  OBVIOUS
<1>2. \A i \in Ids : F[i] = 0
  BY <1>1 DEF ActiveShare
<1>3. Total(F, Ids) = 0
  BY <1>2, EmptyTotal, BudgetAssumption
<1> QED BY <1>1, <1>3, ActiveTotal, SumsNow DEF Inv, LedgerTypeOK

LEMMA CapInit == PlainUse /\ Init => CapInv
<1> SUFFICES ASSUME PlainUse, Init PROVE CapInv
  OBVIOUS
<1>0. FullInv
  BY FullInit
<1>1. RowsWhole /\ ticket_cap = [r \in Runs |-> InitialCap] /\ faults = 0
  BY DEF Init, RowsWhole
<1>2. ASSUME NEW p \in Procs PROVE Secure(p)
  <2>1. call[p] = NoCall /\ pc[p] = "idle"
    BY DEF Init
  <2> QED BY <2>1, WholeZero DEF Secure, NoCall
<1>3. ASSUME NEW k \in Keys PROVE counter[k] \in Nat /\ Balanced(k)
  <2>1. Cap(k) \in Nat /\ Whole(Cap(k))
    BY <1>1, BudgetAssumption DEF PlainUse, Cap, Keys, TicketKey, DailyKey, MonthlyKey
  <2>2. counter[k] = UsdToCents(Cap(k))
    <3>1. 0..MaxDay = {0}
      BY DEF PlainUse
    <3>2. k = DailyKey(0) \/ k[1] # "daily"
      BY <3>1 DEF Keys, TicketKey, DailyKey, MonthlyKey
    <3> QED BY <3>2 DEF Init
  <2>3. counter[k] \in Nat /\ Offered(k) = Cap(k)
    BY <2>1, <2>2, CentsExact DEF Offered
  <2>4. Held(k) = 0
    BY NothingHeld DEF Init
  <2>5. Active(k) = 0
    BY <1>0, NothingReserved DEF Init, FullInv
  <2>6. Actual(k) = 0
    <3>1. PICK F : F = [i \in Ids |-> ActualShare(charges[i], k)]
      OBVIOUS
    <3>2. \A i \in Ids : F[i] = 0
      BY <3>1 DEF ActualShare, Init
    <3>3. Total(F, Ids) = 0
      BY <3>2, EmptyTotal, BudgetAssumption
    <3> QED BY <1>0, <3>1, <3>3, ActualTotal, SumsNow DEF FullInv, Inv, LedgerTypeOK
  <2> QED BY <2>1, <2>3, <2>4, <2>5, <2>6 DEF Balanced
<1> QED BY <1>0, <1>1, <1>2, <1>3 DEF CapInv

LEMMA CapHolds == ASSUME PlainUse PROVE Spec => []CapInv
<1>1. Init => CapInv
  BY CapInit
<1>2. CapInv /\ [Next]_vars => CapInv'
  BY CapNext
<1> QED BY <1>1, <1>2, PTL DEF Spec

LEMMA CapGives ==
  ASSUME CapInv, NEW k \in Keys
  PROVE  /\ Offered(k) \in Nat /\ Active(k) \in Nat /\ Actual(k) \in Nat /\ Held(k) \in Nat /\ Cap(k) \in Nat
         /\ Offered(k) + Active(k) + Actual(k) + Held(k) <= Cap(k)
         /\ faults = 0 => Offered(k) + Active(k) + Actual(k) + Held(k) = Cap(k)
<1>1. Active(k) \in Nat /\ Actual(k) \in Nat
  BY SumsNat DEF CapInv, FullInv
<1>2. Offered(k) \in Nat
  BY BudgetAssumption DEF Offered, CapInv
<1>3. Held(k) \in Nat
  <2>1. PICK F : F = [p \in Procs |-> Own(p, k)]
    OBVIOUS
  <2>2. call \in [Procs -> CallRecord]
    BY DEF CapInv, FullInv, Inv, LedgerTypeOK
  <2>3. \A p \in Procs : F[p] \in Nat
    BY <2>1, <2>2, OwnNat DEF Own
  <2>4. Total(F, Procs) \in Nat
    BY <2>3, TotalNat, BudgetAssumption
  <2> QED BY <2>1, <2>4 DEF Held
<1>4. Cap(k) \in Nat
  BY BudgetAssumption DEF CapInv, Cap, Keys, TicketKey, DailyKey, MonthlyKey
<1>5. Balanced(k)
  BY DEF CapInv
<1> QED BY <1>1, <1>2, <1>3, <1>4, <1>5 DEF Balanced

\* Hard caps: the Lua grant, the row that follows it, the settlement and the
\* release never let what is reserved or spent exceed the cap, for any number
\* of callers and any crash or credit cut short.
THEOREM CapsHold == ASSUME PlainUse PROVE Spec => []NoOverspend
<1>1. ASSUME CapInv PROVE NoOverspend
  <2> SUFFICES ASSUME NEW k \in Keys PROVE Active(k) + Actual(k) <= Cap(k)
    BY DEF NoOverspend
  <2>1. /\ Offered(k) \in Nat /\ Active(k) \in Nat /\ Actual(k) \in Nat /\ Held(k) \in Nat /\ Cap(k) \in Nat
        /\ Offered(k) + Active(k) + Actual(k) + Held(k) <= Cap(k)
    BY <1>1, CapGives
  <2> QED BY <2>1
<1> QED BY <1>1, CapHolds, PTL

\* The counters of Redis never offer more than PostgreSQL has left, and say
\* exactly that once no call is under way, unless a fault lost a credit.
THEOREM CountersCorrect == ASSUME PlainUse PROVE Spec => []CounterInvariant
<1>1. ASSUME CapInv PROVE CounterInvariant
  <2>1. CountersAreConservative
    <3> SUFFICES ASSUME NEW k \in Keys
                 PROVE  UnitsPerCent * counter[k] + Active(k) + Actual(k) <= Cap(k)
      BY DEF CountersAreConservative
    <3>1. /\ Offered(k) \in Nat /\ Active(k) \in Nat /\ Actual(k) \in Nat /\ Held(k) \in Nat /\ Cap(k) \in Nat
          /\ Offered(k) + Active(k) + Actual(k) + Held(k) <= Cap(k)
      BY <1>1, CapGives
    <3>2. Offered(k) + Active(k) + Actual(k) <= Cap(k)
      BY <3>1
    <3> QED BY <3>2 DEF Offered
  <2>2. CountersAgreeWhenQuiet
    <3> SUFFICES ASSUME Quiet, faults = 0, NEW k \in Keys
                 PROVE  counter[k] = UsdToCents(Remaining(k))
      BY DEF CountersAgreeWhenQuiet
    <3>1. Held(k) = 0
      BY NothingHeld DEF Quiet
    <3>2. Active(k) = 0
      BY <1>1, NothingReserved DEF Quiet, CapInv, FullInv
    <3>3. /\ Offered(k) \in Nat /\ Actual(k) \in Nat /\ Cap(k) \in Nat
          /\ Offered(k) + Active(k) + Actual(k) + Held(k) = Cap(k)
      BY <1>1, CapGives
    <3>4. Remaining(k) = Offered(k)
      BY <3>1, <3>2, <3>3 DEF Remaining, AtLeastZero
    <3>5. PICK u \in Nat \ {0} : u = UnitsPerCent
      BY BudgetAssumption
    <3>6. PICK n \in Nat : n = counter[k]
      BY <1>1 DEF CapInv
    <3>7. Offered(k) = u * n /\ Whole(Offered(k))
      BY <3>5, <3>6 DEF Offered, Whole
    <3>8. PICK m \in Nat : m = UsdToCents(Offered(k)) /\ u * m = u * n
      BY <3>3, <3>5, <3>7, CentsExact
    <3>9. u * m + 0 = u * n + 0
      BY <3>8
    <3>10. m = n
      BY <3>9, QuotientUnique
    <3> QED BY <3>4, <3>6, <3>8, <3>10
  <2> QED BY <2>1, <2>2 DEF CounterInvariant
<1> QED BY <1>1, CapHolds, PTL
=============================================================================
