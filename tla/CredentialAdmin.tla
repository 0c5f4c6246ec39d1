--------------------------- MODULE CredentialAdmin ---------------------------
(***************************************************************************)
(* The routes of credentials/admin.py: break-glass grants that two people  *)
(* approve, the default key-encryption key, and the rotation schedule that *)
(* blocks a scope with an overdue credential.                              *)
(*                                                                         *)
(* Each request is one READ COMMITTED transaction.  The approval reads the *)
(* row and updates it by id without a lock, so another request may commit  *)
(* in between; a default rotation is three statements, and an UPDATE waits *)
(* for the rows another transaction has changed and then looks again at    *)
(* those rows only.                                                        *)
(***************************************************************************)
EXTENDS Integers, FiniteSets

CONSTANTS
  Grants, Admins,      \* break-glass grants and the people who act on them
  GrantLife,           \* duration_hours
  Keks,                \* key ids
  Rotators,            \* concurrent default rotations
  Credentials, RotationSla,
  Day, WarningDays,    \* clock units in a day; how long before the due date to warn
  MaxAdminTime         \* bound on the clock

Nobody == "nobody"

ASSUME CredentialAssumption ==
  /\ {GrantLife, RotationSla, WarningDays, MaxAdminTime} \subseteq Nat /\ Day \in Nat \ {0}
  /\ Nobody \notin Admins
NoTime == -1

VARIABLES
  adminTime,
  grant,        \* break_glass_grants: first, second, granted, revoked, expires
  approving,    \* admin -> the approval whose row was read and not yet updated
  approvals,    \* history: <<grant, admin>> that called approve
  outdated,     \* history: admins whose read is older than another's update
  keks,         \* kek_versions introduced
  retired,      \* those with retired_at
  defaults,     \* those with is_default, committed
  rotating,     \* rotator -> the statements of its transaction
  kekOverlap,   \* history: two default rotations overlapped
  schedule      \* credential -> [due, overdue] or NoSchedule

credentialVars == <<adminTime, grant, approving, approvals, outdated,
                    keks, retired, defaults, rotating, kekOverlap, schedule>>
grantVars == <<grant, approving, approvals, outdated>>
kekVars   == <<keks, retired, defaults, rotating, kekOverlap>>

NoGrant == [first |-> Nobody, second |-> Nobody, granted |-> FALSE, revoked |-> FALSE,
            expires |-> NoTime]
NoApproval == [step |-> "idle"]
NoRotationRun == [step |-> "idle", seen |-> {}]
NoSchedule == [due |-> NoTime, overdue |-> FALSE]

CredentialInit ==
  /\ adminTime = 0
  /\ grant = [g \in Grants |-> NoGrant] /\ approving = [a \in Admins |-> NoApproval]
  /\ approvals = {} /\ outdated = {}
  /\ keks = {} /\ retired = {} /\ defaults = {}
  /\ rotating = [r \in Rotators |-> NoRotationRun] /\ kekOverlap = FALSE
  /\ schedule = [c \in Credentials |-> NoSchedule]

AdminTick ==
  /\ adminTime < MaxAdminTime
  /\ adminTime' = adminTime + 1
  /\ UNCHANGED <<grantVars, kekVars, schedule>>

-----------------------------------------------------------------------------
(* Break-glass *)

Requested(g) == grant[g].expires # NoTime

RequestBreakGlass(g) ==
  /\ ~ Requested(g)
  /\ grant' = [grant EXCEPT ![g] = [NoGrant EXCEPT !.expires = adminTime + GrantLife]]
  /\ UNCHANGED <<adminTime, approving, approvals, outdated, kekVars, schedule>>

\* Mutant: the first approver may approve again.
AnyApprover(row, a) == TRUE

MayApprove(row, a) == row.first # a

Approvers(row, a) ==
  IF row.first = Nobody THEN [first |-> a, second |-> Nobody] ELSE [first |-> row.first, second |-> a]

\* approve_break_glass decides on the row it reads.
ApproveReads(a, g) ==
  /\ approving[a] = NoApproval
  /\ Requested(g) /\ ~ grant[g].revoked /\ MayApprove(grant[g], a)
  /\ approving' = [approving EXCEPT ![a] =
       [step |-> "update", grant |-> g, by |-> Approvers(grant[g], a)]]
  /\ approvals' = approvals \cup {<<g, a>>}
  /\ UNCHANGED <<adminTime, grant, outdated, kekVars, schedule>>

\* The update overwrites both approvers and granted_at, whatever is there now.
ApproveWrites(a) ==
  /\ approving[a] # NoApproval
  /\ LET p == approving[a]
     IN  grant' = [grant EXCEPT ![p.grant].first = p.by.first, ![p.grant].second = p.by.second,
                                ![p.grant].granted = (p.by.second # Nobody)]
  /\ outdated' = (outdated \ {a}) \cup
       {b \in Admins \ {a} : approving[b] # NoApproval /\ approving[b].grant = approving[a].grant}
  /\ approving' = [approving EXCEPT ![a] = NoApproval]
  /\ UNCHANGED <<adminTime, approvals, kekVars, schedule>>

RevokeBreakGlass(g) ==
  /\ Requested(g)
  /\ grant' = [grant EXCEPT ![g].revoked = TRUE]
  /\ UNCHANGED <<adminTime, approving, approvals, outdated, kekVars, schedule>>

\* The status list_break_glass_grants derives from a row
Active(g) ==
  /\ grant[g].granted /\ grant[g].second # Nobody
  /\ adminTime <= grant[g].expires /\ ~ grant[g].revoked

-----------------------------------------------------------------------------
(* Key-encryption keys *)

IntroduceKek(k) ==
  /\ k \notin keks
  /\ keks' = keks \cup {k}
  /\ UNCHANGED <<adminTime, grantVars, retired, defaults, rotating, kekOverlap, schedule>>

\* Rows a transaction has changed and not committed
Held(r) == IF rotating[r].step = "cleared" THEN rotating[r].seen ELSE {}
HeldByOthers(r) == UNION {Held(s) : s \in Rotators \ {r}}

\* The target is looked up, then the UPDATE of the defaults takes its snapshot.
RotateStarts(r, k) ==
  /\ rotating[r].step = "idle" /\ k \in keks
  /\ rotating' = [rotating EXCEPT ![r] = [step |-> "clearing", target |-> k, seen |-> defaults]]
  /\ kekOverlap' = (kekOverlap \/ \E s \in Rotators \ {r} : rotating[s].step # "idle")
  /\ UNCHANGED <<adminTime, grantVars, keks, retired, defaults, schedule>>

RotateClears(r) ==
  /\ rotating[r].step = "clearing" /\ rotating[r].seen \cap HeldByOthers(r) = {}
  /\ rotating' = [rotating EXCEPT ![r].step = "cleared", ![r].seen = @ \cap defaults]
  /\ UNCHANGED <<adminTime, grantVars, keks, retired, defaults, kekOverlap, schedule>>

\* Mutant: the old defaults are not cleared.
KeepDefaults(r) == defaults \cup {rotating[r].target}

NewDefaults(r) == (defaults \ rotating[r].seen) \cup {rotating[r].target}

\* The new default is set and everything is committed.
RotateCommits(r) ==
  /\ rotating[r].step = "cleared" /\ rotating[r].target \notin HeldByOthers(r)
  /\ defaults' = NewDefaults(r)
  /\ rotating' = [rotating EXCEPT ![r] = NoRotationRun]
  /\ UNCHANGED <<adminTime, grantVars, keks, retired, kekOverlap, schedule>>

\* The request fails or is the victim of a deadlock.
RotateAborts(r) ==
  /\ rotating[r].step # "idle"
  /\ rotating' = [rotating EXCEPT ![r] = NoRotationRun]
  /\ UNCHANGED <<adminTime, grantVars, keks, retired, defaults, kekOverlap, schedule>>

\* A key whose row a rotation holds is waited for.
Retirable(k) == k \in keks /\ k \notin defaults /\ \A r \in Rotators : k \notin Held(r)

RetireKek(k) ==
  /\ Retirable(k) /\ k \notin retired
  /\ retired' = retired \cup {k}
  /\ UNCHANGED <<adminTime, grantVars, keks, defaults, rotating, kekOverlap, schedule>>

-----------------------------------------------------------------------------
(* Rotation schedule *)

\* upsert_rotation_schedule only inserts; the unique constraint refuses a
\* credential that has a row.
ScheduleRotation(c) ==
  /\ schedule[c] = NoSchedule
  /\ schedule' = [schedule EXCEPT ![c] = [due |-> adminTime + RotationSla, overdue |-> FALSE]]
  /\ UNCHANGED <<adminTime, grantVars, kekVars>>

\* Mutant: the last day counts as overdue.
DueToday(days, was) == days <= 0

\* Rows further away than the warning are not updated.
Overdue(days, was) == days < 0 \/ (days > WarningDays /\ was)

\* evaluate_rotation_schedule, one transaction; .days rounds down.
EvaluateSchedule ==
  /\ schedule' = [c \in Credentials |->
       IF schedule[c] = NoSchedule THEN NoSchedule
       ELSE [schedule[c] EXCEPT !.overdue = Overdue((schedule[c].due - adminTime) \div Day, @)]]
  /\ UNCHANGED <<adminTime, grantVars, kekVars>>

-----------------------------------------------------------------------------
GrantNext ==
  \/ \E g \in Grants : RequestBreakGlass(g) \/ RevokeBreakGlass(g)
  \/ \E a \in Admins : ApproveWrites(a) \/ \E g \in Grants : ApproveReads(a, g)

KekNext ==
  \/ \E k \in Keks : IntroduceKek(k) \/ RetireKek(k)
  \/ \E r \in Rotators :
       RotateClears(r) \/ RotateCommits(r) \/ RotateAborts(r) \/ \E k \in Keks : RotateStarts(r, k)

ScheduleNext == EvaluateSchedule \/ \E c \in Credentials : ScheduleRotation(c)

CredentialNext == AdminTick \/ GrantNext \/ KekNext \/ ScheduleNext

CredentialSpec == CredentialInit /\ [][CredentialNext]_credentialVars

-----------------------------------------------------------------------------
(* Properties *)

\* Dual control: a grant in force was approved by two different people, both of
\* whom asked for it, however their requests and revocations interleave.
TwoPeopleApproved ==
  \A g \in Grants : Active(g) =>
    /\ grant[g].first # grant[g].second
    /\ {<<g, grant[g].first>>, <<g, grant[g].second>>} \subseteq approvals

\* Break-glass under concurrent approvals: no step puts a grant in force without
\* two people, and a grant in force ends only by revocation or expiry, unless an
\* approval that read the row before another one wrote it overwrites both.
GrantsAreSound ==
  [][/\ TwoPeopleApproved'
     /\ \A g \in Grants : Active(g) /\ ~ grant'[g].granted =>
          \E a \in outdated : approving[a] # NoApproval /\ approving'[a] = NoApproval]_credentialVars

\* No two keys become the default unless two rotations overlapped, and once there
\* is a default key a failed, deadlocked or overlapping rotation leaves one.
DefaultIsKept ==
  [][/\ kekOverlap' \/ Cardinality(defaults') <= 1
     /\ defaults # {} => defaults' # {}]_credentialVars

\* A scope is never blocked for a credential that is still in time.
BlockedOnlyWhenPastDue ==
  \A c \in Credentials : schedule[c].overdue => schedule[c].due < adminTime
=============================================================================
