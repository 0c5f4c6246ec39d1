---------------------------- MODULE BudgetLedger ----------------------------
(***************************************************************************)
(* PostgresBudgetLedger (persistence/governance.py) for one team: budget   *)
(* reservations held in three Redis counters (ticket, daily, monthly) and  *)
(* in durable PostgreSQL rows, used by concurrent processes.               *)
(*                                                                         *)
(* A step is one Redis command, one Lua script, or the read or the commit  *)
(* of one PostgreSQL transaction (READ COMMITTED, no row locks).  Amounts  *)
(* in rows are exact, in units of 1/UnitsPerCent cent; the counters hold   *)
(* whole cents.  One month is modelled; days may pass.                     *)
(***************************************************************************)
EXTENDS Integers, Sequences, FiniteSets, FiniteSetsExt

CONSTANTS
  Callers,        \* threads that reserve and settle
  Sweepers,       \* threads that call release_orphaned
  Admins,         \* threads that configure caps, reconcile or ask a balance
  Runs,           \* run ids of the team
  Ids,            \* reservation ids uuid4 will produce
  Amounts,        \* worst-case and actual costs, in units
  TicketCaps,     \* ticket caps an admin may configure, in units
  InitialCap,     \* ticket cap every run starts with, in units
  DailyCap, MonthlyCap,
  UnitsPerCent,
  OrphansOnly,    \* usage: callers settle what they reserved, sweepers release
                  \* only what a dead caller left behind
  MaxDay, MaxResets, MaxFaults,  \* bounds: days, Redis resets, crashes and
                                 \* credits cut short
  None

Procs == Callers \cup Sweepers \cup Admins

\* Rows of budget_reservations and budget_charges.
Row == [run: Runs, amount: Nat, status: {"active", "settled", "released"},
        day: 0..MaxDay, owner: Procs]
ChargeRow == [run: Runs, actual: Nat, day: 0..MaxDay]

Labels == {"idle", "ensure", "read", "set", "eval", "eval_again", "deny",
           "insert", "settle", "release", "credit", "crashed"}

ASSUME BudgetAssumption ==
  /\ Amounts \subseteq Nat /\ TicketCaps \subseteq Nat
  /\ InitialCap \in Nat /\ DailyCap \in Nat /\ MonthlyCap \in Nat
  /\ UnitsPerCent \in Nat \ {0}
  /\ OrphansOnly \in BOOLEAN
  /\ IsFiniteSet(Procs) /\ IsFiniteSet(Ids)
  /\ MaxDay \in Nat /\ MaxResets \in Nat /\ MaxFaults \in Nat
  /\ None \notin Int \cup Procs \cup Runs \cup Ids
  /\ None \notin Row /\ None \notin ChargeRow

VARIABLES
  \* PostgreSQL
  ticket_cap,    \* budget_cap_snapshots: cap per run
  reservations,  \* budget_reservations: id -> row or None
  charges,       \* budget_charges, unique on reservation_id
  denials,       \* budget_denials, by the id the denied call had drawn
  \* Redis
  counter,       \* counter key -> cents, or None when the key is missing
  \* processes
  pc, call, todo, snap, return,
  \* environment
  day, resets, faults

postgres == <<ticket_cap, reservations, charges, denials>>
local    == <<call, todo, snap, return>>
env      == <<day, resets, faults>>
vars     == <<postgres, counter, pc, local, env>>

TicketKey(r) == <<"ticket", r>>
DailyKey(d)  == <<"daily", d>>
MonthlyKey   == <<"monthly", 0>>
Keys == {TicketKey(r) : r \in Runs} \cup {DailyKey(d) : d \in 0..MaxDay}
        \cup {MonthlyKey}

\* _counter_keys(context, now)
CounterKeys(r) == <<TicketKey(r), DailyKey(day), MonthlyKey>>
KeySet(r) == {TicketKey(r), DailyKey(day), MonthlyKey}

\* _usd_to_cents: ROUND_HALF_UP
UsdToCents(amount) == (amount + (UnitsPerCent \div 2)) \div UnitsPerCent

AtLeastZero(n) == IF n > 0 THEN n ELSE 0

-----------------------------------------------------------------------------
(* What PostgreSQL knows: the SUM queries of _remaining_from_postgres.     *)

\* The rows a counter key is about: a run's, those created on a day, all.
Counts(k, r, d) == \/ k[1] = "ticket" /\ k[2] = r
                   \/ k[1] = "daily" /\ k[2] = d
                   \/ k[1] = "monthly"

Active(k) ==
  MapThenSumSet(LAMBDA i : reservations[i].amount,
    {i \in Ids : /\ reservations[i] # None
                 /\ reservations[i].status = "active"
                 /\ Counts(k, reservations[i].run, reservations[i].day)})

Actual(k) ==
  MapThenSumSet(LAMBDA i : charges[i].actual,
    {i \in Ids : /\ charges[i] # None
                 /\ Counts(k, charges[i].run, charges[i].day)})

Cap(k) == IF k[1] = "ticket" THEN ticket_cap[k[2]]
          ELSE IF k[1] = "daily" THEN DailyCap ELSE MonthlyCap

\* Mutant: a cap lowered below the spend leaves a negative remainder.
RemainingUnclamped(k) == Cap(k) - Active(k) - Actual(k)

Remaining(k) == AtLeastZero(Cap(k) - Active(k) - Actual(k))

-----------------------------------------------------------------------------
NoCall == [run |-> None, id |-> None, amount |-> 0, actual |-> 0]

Init ==
  /\ ticket_cap = [r \in Runs |-> InitialCap]
  /\ reservations = [i \in Ids |-> None]
  /\ charges = [i \in Ids |-> None]
  /\ denials = {}
  /\ counter = [k \in Keys |->
       IF k = DailyKey(0) \/ k[1] # "daily" THEN UsdToCents(Cap(k)) ELSE None]
  /\ pc = [p \in Procs |-> "idle"]
  /\ call = [p \in Procs |-> NoCall]
  /\ todo = [p \in Procs |-> <<>>]
  /\ snap = [p \in Procs |-> <<0, 0, 0>>]
  /\ return = [p \in Procs |-> "idle"]
  /\ day = 0 /\ resets = 0 /\ faults = 0

Goto(p, label) == pc' = [pc EXCEPT ![p] = label]

\* The call of p returns or raises.
Done(p) == /\ Goto(p, "idle")
           /\ call' = [call EXCEPT ![p] = NoCall]
           /\ todo' = [todo EXCEPT ![p] = <<>>]

\* The counters are in place: go on with the call that needed them.
Resume(p) ==
  /\ Goto(p, return[p])
  /\ return' = [return EXCEPT ![p] = "idle"]
  /\ call' = IF return[p] = "idle" THEN [call EXCEPT ![p] = NoCall] ELSE call

Drawn == {i \in Ids : reservations[i] # None} \cup denials
         \cup {call[p].id : p \in Procs}

-----------------------------------------------------------------------------
(* reserve(): _ensure_counters, the Lua script, then the row.              *)

Reserve(p, r, amount, i) ==
  /\ pc[p] = "idle" /\ p \in Callers
  /\ i \notin Drawn
  /\ call' = [call EXCEPT ![p] = [run |-> r, id |-> i, amount |-> amount,
                                  actual |-> 0]]
  /\ return' = [return EXCEPT ![p] = "eval"]
  /\ Goto(p, "ensure")
  /\ UNCHANGED <<postgres, counter, todo, snap, env>>

\* _ensure_counters
EnsureCounters(p) ==
  /\ pc[p] = "ensure"
  /\ IF \E k \in KeySet(call[p].run) : counter[k] = None
     THEN Goto(p, "read") /\ UNCHANGED <<call, return>>
     ELSE Resume(p)
  /\ UNCHANGED <<postgres, counter, todo, snap, env>>

\* reconcile(), first half: what is left according to PostgreSQL.
ReconcileRead(p) ==
  /\ pc[p] = "read"
  /\ LET keys == CounterKeys(call[p].run) IN
       /\ todo' = [todo EXCEPT ![p] = keys]
       /\ snap' = [snap EXCEPT ![p] = [n \in 1..3 |-> Remaining(keys[n])]]
  /\ Goto(p, "set")
  /\ UNCHANGED <<postgres, counter, call, return, env>>

\* reconcile(), second half: one SET per counter, in order.
ReconcileSet(p) ==
  /\ pc[p] = "set"
  /\ LET k == Head(todo[p]) IN
       counter' = [counter EXCEPT ![k] =
                     UsdToCents(snap[p][4 - Len(todo[p])])]
  /\ todo' = [todo EXCEPT ![p] = Tail(@)]
  /\ IF Len(todo[p]) = 1
     THEN Resume(p) /\ snap' = [snap EXCEPT ![p] = <<0, 0, 0>>]
     ELSE UNCHANGED <<pc, call, snap, return>>
  /\ UNCHANGED <<postgres, env>>

\* Mutant: the script does not look at the monthly counter.
ScriptCoversTwoPools(r, cents) ==
  \A k \in {TicketKey(r), DailyKey(day)} : counter[k] >= cents

\* The script's condition for taking the amount from all three counters.
ScriptCovers(r, cents) == \A k \in KeySet(r) : counter[k] >= cents

\* _reserve_cents: _RESERVATION_SCRIPT is atomic; a missing counter is
\* reconciled and the script tried once more.
Eval(p) ==
  /\ pc[p] \in {"eval", "eval_again"}
  /\ LET r == call[p].run
         cents == UsdToCents(call[p].amount)
         missing == \E k \in KeySet(r) : counter[k] = None
     IN \/ /\ missing /\ pc[p] = "eval"
           /\ return' = [return EXCEPT ![p] = "eval_again"]
           /\ Goto(p, "read")
           /\ UNCHANGED counter
        \/ /\ \/ missing /\ pc[p] = "eval_again"
              \/ ~missing /\ ~ScriptCovers(r, cents)
           /\ Goto(p, "deny")
           /\ UNCHANGED <<return, counter>>
        \/ /\ ~missing /\ ScriptCovers(r, cents)
           /\ counter' = [k \in Keys |-> IF k \in KeySet(r)
                                         THEN counter[k] - cents
                                         ELSE counter[k]]
           /\ Goto(p, "insert")
           /\ UNCHANGED return
  /\ UNCHANGED <<postgres, call, todo, snap, env>>

\* The denial row is a transaction of its own; BudgetExceededError follows.
Deny(p) ==
  /\ pc[p] = "deny"
  /\ denials' = denials \cup {call[p].id}
  /\ Done(p)
  /\ UNCHANGED <<ticket_cap, reservations, charges, counter, snap, return, env>>

\* Start _credit_counters: its keys are computed once, before the first INCRBY.
CreditLater(p, r, amount) ==
  IF UsdToCents(amount) > 0
  THEN /\ todo' = [todo EXCEPT ![p] = CounterKeys(r)]
       /\ call' = [call EXCEPT ![p].run = r, ![p].amount = amount]
       /\ Goto(p, "credit")
  ELSE Done(p)

InsertReservation(p) ==
  /\ pc[p] = "insert"
  /\ \/ /\ reservations' = [reservations EXCEPT ![call[p].id] =
             [run |-> call[p].run, amount |-> call[p].amount,
              status |-> "active", day |-> day, owner |-> p]]
        /\ Done(p)
     \* the insert raises: the counters are credited and the error re-raised
     \/ /\ CreditLater(p, call[p].run, call[p].amount)
        /\ UNCHANGED reservations
  /\ UNCHANGED <<ticket_cap, charges, denials, counter, snap, return, env>>

-----------------------------------------------------------------------------
(* settle() and release_orphaned(): both read the row first and check its  *)
(* status, then write; nothing locks the row in between.                   *)

Orphan(i) == pc[reservations[i].owner] = "crashed"

\* Mutant: an actual cost above the reserved worst case is accepted.
AnyActual(i, actual) == TRUE

WithinReservation(i, actual) == actual <= reservations[i].amount

SettleRead(p, i, actual) ==
  /\ pc[p] = "idle" /\ p \in Callers
  /\ reservations[i] # None /\ reservations[i].status = "active"
  /\ OrphansOnly => reservations[i].owner = p
  /\ WithinReservation(i, actual)
  /\ call' = [call EXCEPT ![p] = [run |-> reservations[i].run, id |-> i,
                                  amount |-> reservations[i].amount,
                                  actual |-> actual]]
  /\ Goto(p, "settle")
  /\ UNCHANGED <<postgres, counter, todo, snap, return, env>>

\* Mutant: charges has no unique constraint on the reservation.
MayChargeAgain(i) == TRUE

\* The unique constraint of budget_charges.
MayCharge(i) == charges[i] = None

SettleCommit(p) ==
  /\ pc[p] = "settle"
  /\ LET i == call[p].id IN
     \/ /\ MayCharge(i)
        /\ charges' = [charges EXCEPT ![i] = [run |-> call[p].run,
                         actual |-> call[p].actual, day |-> day]]
        /\ reservations' = [reservations EXCEPT ![i].status = "settled"]
        /\ CreditLater(p, call[p].run, call[p].amount - call[p].actual)
     \* the insert violates the constraint: the transaction rolls back
     \/ /\ ~MayCharge(i)
        /\ Done(p)
        /\ UNCHANGED <<charges, reservations>>
  /\ UNCHANGED <<ticket_cap, denials, counter, snap, return, env>>

ReleaseRead(p, i) ==
  /\ pc[p] = "idle" /\ p \in Sweepers
  /\ reservations[i] # None /\ reservations[i].status = "active"
  /\ OrphansOnly => Orphan(i)
  /\ call' = [call EXCEPT ![p] = [run |-> reservations[i].run, id |-> i,
                                  amount |-> reservations[i].amount,
                                  actual |-> 0]]
  /\ Goto(p, "release")
  /\ UNCHANGED <<postgres, counter, todo, snap, return, env>>

ReleaseCommit(p) ==
  /\ pc[p] = "release"
  /\ reservations' = [reservations EXCEPT ![call[p].id].status = "released"]
  /\ CreditLater(p, call[p].run, call[p].amount)
  /\ UNCHANGED <<ticket_cap, charges, denials, counter, snap, return, env>>

\* Mutant: a credit is applied twice.
IncrByTwice(k, cents) == (IF counter[k] = None THEN 0 ELSE counter[k])
                         + 2 * cents

\* INCRBY starts a missing key at 0.
IncrBy(k, cents) == (IF counter[k] = None THEN 0 ELSE counter[k]) + cents

\* _credit_counters: one INCRBY per counter; an exception ends it silently.
Credit(p) ==
  /\ pc[p] = "credit"
  /\ LET k == Head(todo[p]) IN
     \/ /\ counter' = [counter EXCEPT ![k] =
                         IncrBy(k, UsdToCents(call[p].amount))]
        /\ IF Len(todo[p]) = 1 THEN Done(p)
           ELSE /\ todo' = [todo EXCEPT ![p] = Tail(@)]
                /\ UNCHANGED <<pc, call>>
        /\ UNCHANGED faults
     \/ /\ faults < MaxFaults /\ faults' = faults + 1
        /\ Done(p)
        /\ UNCHANGED counter
  /\ UNCHANGED <<postgres, snap, return, day, resets>>

-----------------------------------------------------------------------------
(* configure_caps() and balance().                                         *)

ConfigureCaps(p, r, cap) ==
  /\ pc[p] = "idle" /\ p \in Admins
  /\ ticket_cap' = [ticket_cap EXCEPT ![r] = cap]
  /\ call' = [call EXCEPT ![p] = [NoCall EXCEPT !.run = r]]
  /\ return' = [return EXCEPT ![p] = "idle"]
  /\ Goto(p, "read")
  /\ UNCHANGED <<reservations, charges, denials, counter, todo, snap, env>>

Balance(p, r) ==
  /\ pc[p] = "idle" /\ p \in Admins
  /\ call' = [call EXCEPT ![p] = [NoCall EXCEPT !.run = r]]
  /\ return' = [return EXCEPT ![p] = "idle"]
  /\ Goto(p, "ensure")
  /\ UNCHANGED <<postgres, counter, todo, snap, env>>

-----------------------------------------------------------------------------
(* The environment: a process dies, Redis loses its keys, a day begins.    *)

Crash(p) ==
  /\ faults < MaxFaults /\ faults' = faults + 1
  /\ pc[p] # "crashed"
  /\ Goto(p, "crashed")
  /\ call' = [call EXCEPT ![p] = NoCall]
  /\ todo' = [todo EXCEPT ![p] = <<>>]
  /\ snap' = [snap EXCEPT ![p] = <<0, 0, 0>>]
  /\ return' = [return EXCEPT ![p] = "idle"]
  /\ UNCHANGED <<postgres, counter, day, resets>>

RedisReset ==
  /\ resets < MaxResets /\ resets' = resets + 1
  /\ counter' = [k \in Keys |-> None]
  /\ UNCHANGED <<postgres, pc, local, day, faults>>

NextDay ==
  /\ day < MaxDay /\ day' = day + 1
  /\ UNCHANGED <<postgres, counter, pc, local, resets, faults>>

ProcStep(p) ==
  \/ \E r \in Runs, a \in Amounts, i \in Ids : Reserve(p, r, a, i)
  \/ EnsureCounters(p) \/ ReconcileRead(p) \/ ReconcileSet(p)
  \/ Eval(p) \/ Deny(p) \/ InsertReservation(p)
  \/ \E i \in Ids, a \in Amounts \cup {0} : SettleRead(p, i, a)
  \/ SettleCommit(p)
  \/ \E i \in Ids : ReleaseRead(p, i)
  \/ ReleaseCommit(p) \/ Credit(p)
  \/ \E r \in Runs, c \in TicketCaps : ConfigureCaps(p, r, c)
  \/ \E r \in Runs : Balance(p, r)
  \/ Crash(p)

Next == (\E p \in Procs : ProcStep(p)) \/ RedisReset \/ NextDay

Spec == Init /\ [][Next]_vars

-----------------------------------------------------------------------------
(* Properties.                                                             *)

CallRecord == [run: Runs \cup {None}, id: Ids \cup {None},
               amount: Nat, actual: Nat]

LedgerTypeOK ==
  /\ ticket_cap \in [Runs -> Nat]
  /\ reservations \in [Ids -> Row \cup {None}]
  /\ charges \in [Ids -> ChargeRow \cup {None}]
  /\ denials \subseteq Ids
  /\ pc \in [Procs -> Labels]
  /\ call \in [Procs -> CallRecord]
  /\ return \in [Procs -> {"idle", "eval", "eval_again"}]
  /\ day \in 0..MaxDay

\* Type invariant; in particular neither the Lua script nor a reconcile ever
\* leaves a counter negative.
TypeOK ==
  /\ LedgerTypeOK
  /\ counter \in [Keys -> Nat \cup {None}]
  /\ todo \in [Procs -> Seq(Keys)]
  /\ snap \in [Procs -> [1..3 -> Nat]]
  /\ resets \in 0..MaxResets /\ faults \in 0..MaxFaults

\* The durable ledger is consistent at every commit, whatever races, resets
\* or crashes happen around it: a charge belongs to a closed reservation of
\* its run and stays within it, a settled reservation has its charge, and a
\* denied call left no reservation.
LedgerConsistent ==
  \A i \in Ids :
    /\ charges[i] # None =>
         /\ reservations[i] # None
         /\ reservations[i].status # "active"
         /\ charges[i].run = reservations[i].run
         /\ charges[i].actual <= reservations[i].amount
    /\ reservations[i] # None /\ reservations[i].status = "settled" =>
         charges[i] # None
    /\ i \in denials => reservations[i] = None

LeavesFinal(i) ==
  /\ charges[i] # None => charges'[i] = charges[i]
  /\ reservations[i] # None =>
       /\ reservations'[i].amount = reservations[i].amount
       /\ reservations[i].status # "active"
            => reservations'[i].status # "active"

\* A charge is never rewritten and a closed reservation never reopens, even
\* when two settlements of one reservation overlap.
ChargeIsFinal == [][\A i \in Ids : LeavesFinal(i)]_vars

\* Hard caps: what is reserved or spent in PostgreSQL never exceeds the cap.
NoOverspend == \A k \in Keys : Active(k) + Actual(k) <= Cap(k)

\* The counters err on the safe side: at every moment, also between a Lua
\* grant and its row, a counter offers no more than PostgreSQL has left.
\* With caps fixed and counters in place this survives crashes, failed
\* inserts and credits cut short.
CountersAreConservative ==
  \A k \in Keys : counter[k] # None =>
    UnitsPerCent * counter[k] + Active(k) + Actual(k) <= Cap(k)

\* Once no call is under way and no reservation is open, every counter says
\* what PostgreSQL says, unless a process died, a credit was cut short or
\* Redis lost its keys: no budget is lost or created.
Quiet == /\ \A p \in Procs : pc[p] \in {"idle", "crashed"}
         /\ \A i \in Ids : reservations[i] # None =>
              reservations[i].status # "active"

CountersAgreeWhenQuiet ==
  Quiet /\ faults = 0 /\ resets = 0 =>
    \A k \in Keys : counter[k] # None => counter[k] = UsdToCents(Remaining(k))

\* The counters of Redis against the rows of PostgreSQL, at every moment and
\* once all is quiet.
CounterInvariant == CountersAreConservative /\ CountersAgreeWhenQuiet
=============================================================================
