------------------------ MODULE CredentialAdminProofs ------------------------
(* Proofs about CredentialAdmin, for every number of grants, administrators, *)
(* keys, concurrent rotations and credentials, and every clock.              *)
EXTENDS CredentialAdmin, TLAPS, FiniteSetTheorems

Person == Admins \cup {Nobody}
Row == [first: Person, second: Person, granted: BOOLEAN, revoked: BOOLEAN,
        expires: Int]
Pending == [step: {"update"}, grant: Grants, by: [first: Person, second: Person]]

GrantsTyped ==
  /\ adminTime \in Nat
  /\ grant \in [Grants -> Row]
  /\ approving \in [Admins -> Pending \cup {NoApproval}]

\* What two approver columns may hold, on a row or in a request that has read it.
TwoPeople(g, by) ==
  /\ by.first # Nobody => <<g, by.first>> \in approvals
  /\ by.second # Nobody =>
       /\ by.first # Nobody /\ by.first # by.second
       /\ <<g, by.second>> \in approvals

RowOk(g) ==
  /\ TwoPeople(g, grant[g])
  /\ grant[g].granted => grant[g].second # Nobody

\* A request that would take the second approver away read a row without one;
\* unless the row has changed since, nobody is lost.
PendingOk(a) ==
  LET p == approving[a] IN
  p # NoApproval =>
    /\ TwoPeople(p.grant, p.by)
    /\ a \notin outdated /\ p.by.second = Nobody => grant[p.grant].first = Nobody

Approved == (\A g \in Grants : RowOk(g)) /\ (\A a \in Admins : PendingOk(a))

GrantInv == GrantsTyped /\ Approved

LEMMA NoApprovalFields == NoApproval \notin Pending /\ NoGrant \in Row
  BY DEF NoApproval, Pending, NoGrant, Row, Person, NoTime

LEMMA InitGrants == CredentialInit => GrantInv
<1> SUFFICES ASSUME CredentialInit PROVE GrantInv
  OBVIOUS
<1>1. GrantsTyped
  BY NoApprovalFields DEF CredentialInit, GrantsTyped
<1>2. /\ \A g \in Grants : grant[g] = NoGrant
      /\ \A a \in Admins : approving[a] = NoApproval
  BY DEF CredentialInit
<1>3. NoGrant.first = Nobody /\ NoGrant.second = Nobody /\ ~ NoGrant.granted
  BY DEF NoGrant
<1> QED BY <1>1, <1>2, <1>3 DEF GrantInv, Approved, RowOk, PendingOk, TwoPeople

\* Approvals are never taken back.
LEMMA MoreApprovals ==
  ASSUME NEW g, NEW by, TwoPeople(g, by), approvals \subseteq approvals'
  PROVE  /\ by.first # Nobody => <<g, by.first>> \in approvals'
         /\ by.second # Nobody =>
              /\ by.first # Nobody /\ by.first # by.second
              /\ <<g, by.second>> \in approvals'
  BY DEF TwoPeople

LEMMA RequestKeeps ==
  ASSUME GrantInv, NEW g \in Grants, RequestBreakGlass(g) PROVE GrantInv'
<1>1. /\ grant' = [grant EXCEPT ![g] = [NoGrant EXCEPT !.expires = adminTime + GrantLife]]
      /\ UNCHANGED <<adminTime, approving, approvals, outdated>>
  BY DEF RequestBreakGlass
<1> DEFINE row == [NoGrant EXCEPT !.expires = adminTime + GrantLife]
<1>2. /\ row \in Row /\ row.first = Nobody /\ row.second = Nobody
      /\ ~ row.granted
  <2>1. /\ NoGrant \in Row /\ NoGrant.first = Nobody
        /\ NoGrant.second = Nobody /\ ~ NoGrant.granted
    BY NoApprovalFields DEF NoGrant
  <2>2. adminTime + GrantLife \in Int
    BY CredentialAssumption DEF GrantInv, GrantsTyped
  <2> QED BY <2>1, <2>2 DEF Row
<1>3. grant' = [grant EXCEPT ![g] = row]
  BY <1>1
<1> HIDE DEF row
<1>4. GrantsTyped'
  BY <1>1, <1>2, <1>3 DEF GrantInv, GrantsTyped
<1>5. /\ grant'[g] = row
      /\ \A h \in Grants : h # g => grant'[h] = grant[h]
  BY <1>3 DEF GrantInv, GrantsTyped
<1>6. ASSUME NEW h \in Grants PROVE RowOk(h)'
  <2>1. RowOk(h) /\ approvals' = approvals
    BY <1>1 DEF GrantInv, Approved
  <2>2. CASE h = g
    BY <1>2, <1>5, <2>2 DEF RowOk, TwoPeople
  <2>3. CASE h # g
    BY <1>5, <2>1, <2>3 DEF RowOk, TwoPeople
  <2> QED BY <2>2, <2>3
<1>7. ASSUME NEW a \in Admins PROVE PendingOk(a)'
  <2>1. CASE approving[a] = NoApproval
    BY <1>1, <2>1 DEF PendingOk
  <2>2. CASE approving[a] # NoApproval
    <3>1. approving[a].grant \in Grants /\ PendingOk(a)
      BY <2>2 DEF GrantInv, GrantsTyped, Pending, Approved
    <3> QED BY <1>1, <1>2, <1>5, <3>1 DEF PendingOk, TwoPeople
  <2> QED BY <2>1, <2>2
<1> QED BY <1>4, <1>6, <1>7 DEF GrantInv, Approved

LEMMA ReadKeeps ==
  ASSUME GrantInv, NEW a \in Admins, NEW g \in Grants, ApproveReads(a, g)
  PROVE  GrantInv'
<1> DEFINE by == Approvers(grant[g], a)
           p  == [step |-> "update", grant |-> g, by |-> by]
<1>1. /\ grant[g].first # a /\ approving[a] = NoApproval
      /\ approving' = [approving EXCEPT ![a] = p]
      /\ approvals' = approvals \cup {<<g, a>>}
      /\ UNCHANGED <<adminTime, grant, outdated>>
  BY DEF ApproveReads, MayApprove
<1>2. /\ by \in [first: Person, second: Person]
      /\ a # Nobody /\ RowOk(g)
      /\ \/ grant[g].first = Nobody /\ by.first = a /\ by.second = Nobody
         \/ grant[g].first # Nobody /\ by.first = grant[g].first /\ by.second = a
  <2>1. grant[g].first \in Person /\ a \in Person /\ Nobody \in Person
    BY DEF GrantInv, GrantsTyped, Row, Person
  <2> QED BY <2>1, CredentialAssumption DEF Approvers, GrantInv, Approved
<1> HIDE DEF by
<1>3. p \in Pending /\ p.by = by /\ p.grant = g
  BY <1>2 DEF Pending
<1> HIDE DEF p
<1>4. approvals \subseteq approvals'
  BY <1>1
<1>5. GrantsTyped'
  BY <1>1, <1>3 DEF GrantInv, GrantsTyped
<1>6. ASSUME NEW h \in Grants PROVE RowOk(h)'
  <2>1. RowOk(h)
    BY DEF GrantInv, Approved
  <2> QED BY <1>1, <1>4, <2>1 DEF RowOk, TwoPeople
<1>7. ASSUME NEW b \in Admins PROVE PendingOk(b)'
  <2>1. CASE b = a
    <3>1. approving'[b] = p
      BY <1>1, <2>1 DEF GrantInv, GrantsTyped
    <3>2. /\ <<g, a>> \in approvals'
          /\ grant[g].first # Nobody => <<g, grant[g].first>> \in approvals'
      BY <1>1, <1>2 DEF RowOk, TwoPeople
    <3> QED BY <1>1, <1>2, <1>3, <2>1, <3>1, <3>2 DEF PendingOk, TwoPeople
  <2>2. CASE b # a
    <3>1. approving'[b] = approving[b] /\ PendingOk(b)
      BY <1>1, <2>2 DEF GrantInv, GrantsTyped, Approved
    <3> QED BY <1>1, <1>4, <3>1 DEF PendingOk, TwoPeople
  <2> QED BY <2>1, <2>2
<1> QED BY <1>5, <1>6, <1>7 DEF GrantInv, Approved

\* The update of a pending approval, column by column.
LEMMA WriteEffect ==
  ASSUME GrantInv, NEW a \in Admins, ApproveWrites(a)
  PROVE  \E g \in Grants : \E by, row :
           /\ approving[a] # NoApproval
           /\ approving[a].grant = g /\ approving[a].by = by
           /\ row \in Row /\ grant' = [grant EXCEPT ![g] = row]
           /\ row.first = by.first /\ row.second = by.second
           /\ row.granted = (by.second # Nobody)
           /\ approving' = [approving EXCEPT ![a] = NoApproval]
           /\ outdated' = (outdated \ {a}) \cup
                {b \in Admins \ {a} : approving[b] # NoApproval
                                      /\ approving[b].grant = g}
           /\ UNCHANGED <<adminTime, approvals>>
<1>1. approving[a] \in Pending /\ approving[a] # NoApproval
  BY DEF ApproveWrites, GrantInv, GrantsTyped
<1>2. PICK g \in Grants, by \in [first: Person, second: Person] :
        approving[a].grant = g /\ approving[a].by = by
  BY <1>1 DEF Pending
<1>3. /\ grant' = [grant EXCEPT ![g].first = by.first, ![g].second = by.second,
                                ![g].granted = (by.second # Nobody)]
      /\ approving' = [approving EXCEPT ![a] = NoApproval]
      /\ outdated' = (outdated \ {a}) \cup
           {b \in Admins \ {a} : approving[b] # NoApproval
                                 /\ approving[b].grant = g}
      /\ UNCHANGED <<adminTime, approvals>>
  BY <1>2 DEF ApproveWrites
<1> DEFINE row == [grant[g] EXCEPT !.first = by.first, !.second = by.second,
                                   !.granted = (by.second # Nobody)]
<1>4. grant[g] \in Row /\ grant \in [Grants -> Row]
  BY DEF GrantInv, GrantsTyped
<1>5. /\ row \in Row /\ row.first = by.first /\ row.second = by.second
      /\ row.granted = (by.second # Nobody)
  BY <1>4 DEF Row
<1>6. grant' = [grant EXCEPT ![g] = row]
  BY <1>3, <1>4
<1> HIDE DEF row
<1> WITNESS g \in Grants
<1> WITNESS by, row
<1> QED BY <1>1, <1>2, <1>3, <1>5, <1>6

LEMMA WriteKeeps ==
  ASSUME GrantInv, NEW a \in Admins, ApproveWrites(a) PROVE GrantInv'
<1>1. PICK g \in Grants : \E by, row :
           /\ approving[a] # NoApproval
           /\ approving[a].grant = g /\ approving[a].by = by
           /\ row \in Row /\ grant' = [grant EXCEPT ![g] = row]
           /\ row.first = by.first /\ row.second = by.second
           /\ row.granted = (by.second # Nobody)
           /\ approving' = [approving EXCEPT ![a] = NoApproval]
           /\ outdated' = (outdated \ {a}) \cup
                {b \in Admins \ {a} : approving[b] # NoApproval
                                      /\ approving[b].grant = g}
           /\ UNCHANGED <<adminTime, approvals>>
  BY WriteEffect
<1>2. PICK by, row :
           /\ approving[a] # NoApproval
           /\ approving[a].grant = g /\ approving[a].by = by
           /\ row \in Row /\ grant' = [grant EXCEPT ![g] = row]
           /\ row.first = by.first /\ row.second = by.second
           /\ row.granted = (by.second # Nobody)
           /\ approving' = [approving EXCEPT ![a] = NoApproval]
           /\ outdated' = (outdated \ {a}) \cup
                {b \in Admins \ {a} : approving[b] # NoApproval
                                      /\ approving[b].grant = g}
           /\ UNCHANGED <<adminTime, approvals>>
  BY <1>1
<1>3. TwoPeople(g, by) /\ approvals' = approvals
  BY <1>2 DEF GrantInv, Approved, PendingOk
<1>4. GrantsTyped'
  BY <1>2 DEF GrantInv, GrantsTyped
<1>5. /\ grant'[g] = row
      /\ \A h \in Grants : h # g => grant'[h] = grant[h]
      /\ approving'[a] = NoApproval
      /\ \A b \in Admins : b # a => approving'[b] = approving[b]
  BY <1>2 DEF GrantInv, GrantsTyped
<1>6. ASSUME NEW h \in Grants PROVE RowOk(h)'
  <2>1. CASE h = g
    BY ZenonT(40), <1>2, <1>3, <1>5, <2>1 DEF RowOk, TwoPeople
  <2>2. CASE h # g
    <3>1. RowOk(h) /\ grant'[h] = grant[h]
      BY <1>5, <2>2 DEF GrantInv, Approved
    <3> QED BY <1>3, <3>1 DEF RowOk, TwoPeople
  <2> QED BY <2>1, <2>2
<1>7. ASSUME NEW b \in Admins PROVE PendingOk(b)'
  <2>1. CASE approving'[b] = NoApproval
    BY <2>1 DEF PendingOk
  <2>2. CASE approving'[b] # NoApproval
    <3>1. b # a /\ approving'[b] = approving[b] /\ PendingOk(b)
      BY <1>5, <2>2 DEF GrantInv, Approved
    <3>2. TwoPeople(approving[b].grant, approving[b].by)
      BY <2>2, <3>1 DEF PendingOk
    <3>3. ASSUME b \notin outdated', approving[b].by.second = Nobody
          PROVE  grant'[approving[b].grant].first = Nobody
      <4>1. approving[b].grant \in Grants
        BY <2>2, <3>1 DEF GrantInv, GrantsTyped, Pending
      <4>2. approving[b].grant # g /\ b \notin outdated
        BY <1>2, <2>2, <3>1, <3>3
      <4> QED BY <1>5, <2>2, <3>1, <3>3, <4>1, <4>2 DEF PendingOk
    <3> QED BY <1>3, <3>1, <3>2, <3>3 DEF PendingOk, TwoPeople
  <2> QED BY <2>1, <2>2
<1> QED BY <1>4, <1>6, <1>7 DEF GrantInv, Approved

LEMMA RevokeKeeps ==
  ASSUME GrantInv, NEW g \in Grants, RevokeBreakGlass(g) PROVE GrantInv'
<1>1. /\ grant' = [grant EXCEPT ![g].revoked = TRUE]
      /\ UNCHANGED <<adminTime, approving, approvals, outdated>>
  BY DEF RevokeBreakGlass
<1>2. GrantsTyped'
  BY <1>1 DEF GrantInv, GrantsTyped, Row
<1>3. \A h \in Grants : /\ grant'[h].first = grant[h].first
                        /\ grant'[h].second = grant[h].second
                        /\ grant'[h].granted = grant[h].granted
  BY <1>1 DEF GrantInv, GrantsTyped, Row
<1>4. \A h \in Grants : RowOk(h)'
  BY <1>1, <1>3 DEF GrantInv, Approved, RowOk, TwoPeople
<1>5. ASSUME NEW a \in Admins PROVE PendingOk(a)'
  <2>1. CASE approving[a] = NoApproval
    BY <1>1, <2>1 DEF PendingOk
  <2>2. CASE approving[a] # NoApproval
    <3>1. approving[a].grant \in Grants /\ PendingOk(a)
      BY <2>2 DEF GrantInv, GrantsTyped, Pending, Approved
    <3> QED BY <1>1, <1>3, <3>1 DEF PendingOk, TwoPeople
  <2> QED BY <2>1, <2>2
<1> QED BY <1>2, <1>4, <1>5 DEF GrantInv, Approved

LEMMA GrantsUntouched ==
  ASSUME GrantInv, UNCHANGED grantVars, adminTime' \in Nat PROVE GrantInv'
<1>1. UNCHANGED <<grant, approving, approvals, outdated>>
  BY DEF grantVars
<1> QED
  BY <1>1
  DEF GrantInv, GrantsTyped, Approved, RowOk, PendingOk, TwoPeople

\* Steps of the keys and of the schedule.
LEMMA OthersKeepGrants ==
  ASSUME GrantInv, AdminTick \/ KekNext \/ ScheduleNext
  PROVE  UNCHANGED grantVars /\ adminTime' \in Nat
<1>1. UNCHANGED grantVars
  BY DEF AdminTick, KekNext, ScheduleNext, IntroduceKek, RetireKek, RotateClears,
         RotateCommits, RotateAborts, RotateStarts, EvaluateSchedule,
         ScheduleRotation
<1>2. adminTime' \in {adminTime, adminTime + 1}
  BY DEF AdminTick, KekNext, ScheduleNext, IntroduceKek, RetireKek, RotateClears,
         RotateCommits, RotateAborts, RotateStarts, EvaluateSchedule,
         ScheduleRotation
<1> QED BY <1>1, <1>2 DEF GrantInv, GrantsTyped

LEMMA GrantsStep == GrantInv /\ [CredentialNext]_credentialVars => GrantInv'
<1> SUFFICES ASSUME GrantInv, [CredentialNext]_credentialVars PROVE GrantInv'
  OBVIOUS
<1>1. CASE GrantNext
  BY <1>1, RequestKeeps, RevokeKeeps, ReadKeeps, WriteKeeps DEF GrantNext
<1>2. CASE AdminTick \/ KekNext \/ ScheduleNext
  BY <1>2, OthersKeepGrants, GrantsUntouched
<1>3. CASE UNCHANGED credentialVars
  BY <1>3, GrantsUntouched DEF credentialVars, grantVars, GrantInv, GrantsTyped
<1> QED BY <1>1, <1>2, <1>3 DEF CredentialNext

\* A grant in force loses its date of granting only to a request whose read is
\* outdated.
LEMMA LostToOutdated ==
  ASSUME GrantInv, [CredentialNext]_credentialVars, NEW g \in Grants,
         Active(g), ~ grant'[g].granted
  PROVE  \E a \in outdated : approving[a] # NoApproval /\ approving'[a] = NoApproval
<1>1. /\ grant[g].granted /\ grant[g].second # Nobody /\ grant[g].first # Nobody
      /\ grant[g].expires # NoTime
  <2>1. /\ grant[g].granted /\ grant[g].second # Nobody
        /\ adminTime <= grant[g].expires /\ adminTime \in Nat
    BY DEF Active, GrantInv, GrantsTyped
  <2>2. grant[g].first # Nobody
    BY <2>1 DEF GrantInv, Approved, RowOk, TwoPeople
  <2> QED BY <2>1, <2>2 DEF NoTime
<1>2. ASSUME NEW a \in Admins, ApproveWrites(a)
      PROVE  a \in outdated /\ approving[a] # NoApproval /\ approving'[a] = NoApproval
  <2>1. \E h \in Grants : \E by, row :
           /\ approving[a] # NoApproval
           /\ approving[a].grant = h /\ approving[a].by = by
           /\ grant' = [grant EXCEPT ![h] = row]
           /\ row.granted = (by.second # Nobody)
           /\ approving' = [approving EXCEPT ![a] = NoApproval]
    BY <1>2, WriteEffect
  <2>2. /\ approving[a] # NoApproval /\ approving[a].grant = g
        /\ approving[a].by.second = Nobody
        /\ approving' = [approving EXCEPT ![a] = NoApproval]
    BY <1>1, <2>1 DEF GrantInv, GrantsTyped
  <2>3. PendingOk(a) /\ approving'[a] = NoApproval
    BY <2>2 DEF GrantInv, GrantsTyped, Approved
  <2> QED BY <1>1, <2>1, <2>2, <2>3 DEF PendingOk
<1>3. ASSUME NEW h \in Grants, RequestBreakGlass(h) PROVE FALSE
  BY <1>1, <1>3 DEF RequestBreakGlass, Requested, GrantInv, GrantsTyped
<1>4. ASSUME NEW h \in Grants, RevokeBreakGlass(h) PROVE FALSE
  BY <1>1, <1>4 DEF RevokeBreakGlass, GrantInv, GrantsTyped, Row
<1>5. ASSUME NEW a \in Admins, NEW h \in Grants, ApproveReads(a, h) PROVE FALSE
  BY <1>1, <1>5 DEF ApproveReads
<1>6. ~ (AdminTick \/ KekNext \/ ScheduleNext)
  BY <1>1, OthersKeepGrants DEF grantVars
<1>7. ~ UNCHANGED credentialVars
  BY <1>1 DEF credentialVars
<1> QED
  BY <1>2, <1>3, <1>4, <1>5, <1>6, <1>7 DEF CredentialNext, GrantNext

\* Dual control of break-glass, for every number of grants and administrators:
\* a grant in force always has two different approvers who both asked for it,
\* and it ends early only when an approval overwrites a row that has changed.
THEOREM GrantsSound == CredentialSpec => GrantsAreSound
<1>1. GrantInv => TwoPeopleApproved
  <2> SUFFICES ASSUME GrantInv, NEW g \in Grants, Active(g)
               PROVE  /\ grant[g].first # grant[g].second
                      /\ {<<g, grant[g].first>>, <<g, grant[g].second>>} \subseteq approvals
    BY DEF TwoPeopleApproved
  <2> QED BY DEF Active, GrantInv, Approved, RowOk, TwoPeople
<1>2. GrantInv /\ GrantInv' /\ [CredentialNext]_credentialVars =>
        [/\ TwoPeopleApproved'
         /\ \A g \in Grants : Active(g) /\ ~ grant'[g].granted =>
              \E a \in outdated : approving[a] # NoApproval /\ approving'[a] = NoApproval]_credentialVars
  <2>1. GrantInv' => TwoPeopleApproved'
    BY <1>1, PTL
  <2> QED BY <2>1, LostToOutdated
<1> QED BY <1>2, InitGrants, GrantsStep, PTL DEF CredentialSpec, GrantsAreSound

-----------------------------------------------------------------------------
(* The default key.  Until two rotations overlap, the one in progress has    *)
(* seen the default that is committed.                                       *)

Run == [step: {"clearing", "cleared"}, target: Keks, seen: SUBSET Keks]

KeksTyped ==
  /\ defaults \subseteq Keks
  /\ rotating \in [Rotators -> Run \cup {NoRotationRun}]

OneRotation ==
  /\ \E k : defaults \subseteq {k}
  /\ \A r \in Rotators : rotating[r].step # "idle" => defaults \subseteq rotating[r].seen
  /\ \A r, s \in Rotators : r # s => rotating[r].step = "idle" \/ rotating[s].step = "idle"

KekInv == KeksTyped /\ kekOverlap \in BOOLEAN /\ (~ kekOverlap => OneRotation)

LEMMA RunFields ==
  ASSUME KeksTyped, NEW r \in Rotators
  PROVE  /\ rotating[r] = NoRotationRun \/ rotating[r] \in Run
         /\ rotating[r] = NoRotationRun => rotating[r].step = "idle"
         /\ rotating[r] \in Run =>
              /\ rotating[r].step \in {"clearing", "cleared"}
              /\ rotating[r].target \in Keks /\ rotating[r].seen \subseteq Keks
  BY DEF KeksTyped, Run, NoRotationRun

LEMMA InitKeks == CredentialInit => KekInv
<1> SUFFICES ASSUME CredentialInit PROVE KekInv
  OBVIOUS
<1>1. KeksTyped /\ kekOverlap = FALSE /\ defaults = {}
  BY DEF CredentialInit, KeksTyped
<1>2. \A r \in Rotators : rotating[r].step = "idle"
  BY DEF CredentialInit, NoRotationRun
<1> QED BY <1>1, <1>2 DEF KekInv, OneRotation

\* A rotation that ends or aborts becomes idle; the others keep their runs.
LEMMA EndsIdle ==
  ASSUME KeksTyped, NEW r \in Rotators,
         rotating' = [rotating EXCEPT ![r] = NoRotationRun]
  PROVE  /\ rotating' \in [Rotators -> Run \cup {NoRotationRun}]
         /\ rotating'[r].step = "idle"
         /\ \A s \in Rotators : s # r => rotating'[s] = rotating[s]
<1>1. rotating'[r] = NoRotationRun
  BY DEF KeksTyped
<1> QED BY <1>1 DEF KeksTyped, NoRotationRun

LEMMA StartKeeps ==
  ASSUME KekInv, NEW r \in Rotators, NEW k \in Keks, RotateStarts(r, k)
  PROVE  KekInv'
<1> DEFINE run == [step |-> "clearing", target |-> k, seen |-> defaults]
<1>1. /\ rotating[r].step = "idle" /\ UNCHANGED defaults
      /\ rotating' = [rotating EXCEPT ![r] = run]
      /\ kekOverlap' = (kekOverlap \/ \E s \in Rotators \ {r} : rotating[s].step # "idle")
  BY DEF RotateStarts
<1>2. run \in Run /\ run.seen = defaults
  BY DEF Run, KekInv, KeksTyped
<1> HIDE DEF run
<1>3. KeksTyped'
  BY <1>1, <1>2 DEF KekInv, KeksTyped
<1>4. /\ rotating'[r] = run
      /\ \A s \in Rotators : s # r => rotating'[s] = rotating[s]
  BY <1>1 DEF KekInv, KeksTyped
<1>5. ASSUME ~ kekOverlap' PROVE OneRotation'
  <2>1. /\ OneRotation
        /\ \A s \in Rotators : s # r => rotating[s].step = "idle"
    BY <1>1, <1>5 DEF KekInv
  <2>2. \E d : defaults' \subseteq {d}
    BY <1>1, <2>1 DEF OneRotation
  <2>3. \A s \in Rotators : rotating'[s].step # "idle" => defaults' \subseteq rotating'[s].seen
    BY <1>1, <1>2, <1>4, <2>1
  <2>4. \A s \in Rotators : s # r => rotating'[s].step = "idle"
    BY <1>4, <2>1
  <2> QED BY <2>2, <2>3, <2>4 DEF OneRotation
<1>6. kekOverlap' \in BOOLEAN
  BY <1>1
<1> QED BY <1>3, <1>5, <1>6 DEF KekInv

LEMMA ClearKeeps ==
  ASSUME KekInv, NEW r \in Rotators, RotateClears(r) PROVE KekInv'
<1> DEFINE run == [rotating[r] EXCEPT !.step = "cleared", !.seen = @ \cap defaults]
<1>1. /\ rotating[r].step = "clearing" /\ UNCHANGED <<defaults, kekOverlap>>
      /\ rotating' = [rotating EXCEPT ![r].step = "cleared", ![r].seen = @ \cap defaults]
  BY DEF RotateClears
<1>2. rotating[r] \in Run
  BY <1>1, RunFields DEF KekInv
<1>3. /\ run \in Run /\ run.step = "cleared"
      /\ run.seen = rotating[r].seen \cap defaults
  BY <1>2 DEF Run
<1>4. rotating' = [rotating EXCEPT ![r] = run]
  BY <1>1 DEF KekInv, KeksTyped
<1> HIDE DEF run
<1>5. KeksTyped'
  BY <1>1, <1>3, <1>4 DEF KekInv, KeksTyped
<1>6. /\ rotating'[r] = run
      /\ \A s \in Rotators : s # r => rotating'[s] = rotating[s]
  BY <1>4 DEF KekInv, KeksTyped
<1>7. ASSUME ~ kekOverlap' PROVE OneRotation'
  <2>1. OneRotation
    BY <1>1, <1>7 DEF KekInv
  <2>2. \E d : defaults' \subseteq {d}
    BY <1>1, <2>1 DEF OneRotation
  <2>3. ASSUME NEW s \in Rotators, rotating'[s].step # "idle"
        PROVE  defaults' \subseteq rotating'[s].seen
    BY <1>1, <1>3, <1>6, <2>1, <2>3 DEF OneRotation
  <2>4. \A s \in Rotators : s # r => rotating'[s].step = "idle"
    BY <1>1, <1>6, <2>1 DEF OneRotation
  <2> QED BY <2>2, <2>3, <2>4 DEF OneRotation
<1> QED BY <1>1, <1>5, <1>7 DEF KekInv

LEMMA CommitKeeps ==
  ASSUME KekInv, NEW r \in Rotators, RotateCommits(r) PROVE KekInv'
<1>1. /\ rotating[r].step = "cleared" /\ UNCHANGED kekOverlap
      /\ defaults' = (defaults \ rotating[r].seen) \cup {rotating[r].target}
      /\ rotating' = [rotating EXCEPT ![r] = NoRotationRun]
  BY DEF RotateCommits, NewDefaults
<1>2. rotating[r] \in Run /\ rotating[r].target \in Keks
  BY <1>1, RunFields DEF KekInv
<1>3. /\ rotating' \in [Rotators -> Run \cup {NoRotationRun}]
      /\ rotating'[r].step = "idle"
      /\ \A s \in Rotators : s # r => rotating'[s] = rotating[s]
  BY <1>1, EndsIdle DEF KekInv
<1>4. KeksTyped'
  BY <1>1, <1>2, <1>3 DEF KekInv, KeksTyped
<1>5. ASSUME ~ kekOverlap' PROVE OneRotation'
  <2>1. OneRotation
    BY <1>1, <1>5 DEF KekInv
  <2>2. defaults' = {rotating[r].target}
    BY <1>1, <2>1 DEF OneRotation
  <2>3. \A s \in Rotators : rotating'[s].step = "idle"
    BY <1>1, <1>3, <2>1 DEF OneRotation
  <2> QED BY <2>2, <2>3 DEF OneRotation
<1> QED BY <1>1, <1>4, <1>5 DEF KekInv

LEMMA AbortKeeps ==
  ASSUME KekInv, NEW r \in Rotators, RotateAborts(r) PROVE KekInv'
<1>1. /\ UNCHANGED <<defaults, kekOverlap>>
      /\ rotating' = [rotating EXCEPT ![r] = NoRotationRun]
  BY DEF RotateAborts
<1>2. /\ rotating' \in [Rotators -> Run \cup {NoRotationRun}]
      /\ rotating'[r].step = "idle"
      /\ \A s \in Rotators : s # r => rotating'[s] = rotating[s]
  BY <1>1, EndsIdle DEF KekInv
<1>3. KeksTyped'
  BY <1>1, <1>2 DEF KekInv, KeksTyped
<1>4. ASSUME OneRotation PROVE OneRotation'
  <2>1. \E d : defaults' \subseteq {d}
    BY <1>1, <1>4 DEF OneRotation
  <2>2. \A s \in Rotators : rotating'[s].step # "idle" => defaults' \subseteq rotating'[s].seen
    BY <1>1, <1>2, <1>4 DEF OneRotation
  <2>3. \A s, t \in Rotators :
          s # t => rotating'[s].step = "idle" \/ rotating'[t].step = "idle"
    BY <1>2, <1>4 DEF OneRotation
  <2> QED BY <2>1, <2>2, <2>3 DEF OneRotation
<1> QED BY <1>1, <1>3, <1>4 DEF KekInv

LEMMA KeksUntouched ==
  ASSUME KekInv, UNCHANGED <<defaults, rotating, kekOverlap>> PROVE KekInv'
  BY DEF KekInv, KeksTyped, OneRotation

LEMMA OthersKeepKeks ==
  ASSUME \/ AdminTick \/ GrantNext \/ ScheduleNext \/ UNCHANGED credentialVars
         \/ \E k \in Keks : IntroduceKek(k) \/ RetireKek(k)
  PROVE  UNCHANGED <<defaults, rotating, kekOverlap>>
  BY DEF AdminTick, GrantNext, ScheduleNext, credentialVars, IntroduceKek, RetireKek,
         RequestBreakGlass, RevokeBreakGlass, ApproveReads, ApproveWrites,
         EvaluateSchedule, ScheduleRotation, kekVars

LEMMA KeksStep == KekInv /\ [CredentialNext]_credentialVars => KekInv'
  BY StartKeeps, ClearKeeps, CommitKeeps, AbortKeeps, OthersKeepKeks, KeksUntouched
  DEF CredentialNext, KekNext

\* For every number of keys and concurrent rotations: there is at most one
\* default key unless rotations overlapped, and a default is never left empty.
THEOREM DefaultKept == CredentialSpec => DefaultIsKept
<1> DEFINE AtMostOne == kekOverlap \/ Cardinality(defaults) <= 1
<1>1. KekInv => AtMostOne
  <2> SUFFICES ASSUME KekInv, ~ kekOverlap PROVE Cardinality(defaults) <= 1
    OBVIOUS
  <2>1. PICK k : defaults \subseteq {k}
    BY DEF KekInv, OneRotation
  <2>2. defaults = {} \/ defaults = {k}
    BY <2>1
  <2>3. Cardinality({}) = 0
    BY FS_EmptySet
  <2>4. Cardinality({k}) = 1
    BY FS_Singleton
  <2> QED BY <2>2, <2>3, <2>4
<1>2. KekInv' => AtMostOne'
  BY <1>1, PTL
<1>3. ASSUME [CredentialNext]_credentialVars, defaults # {} PROVE defaults' # {}
  <2>1. ASSUME NEW r \in Rotators, RotateCommits(r) PROVE defaults' # {}
    BY <2>1 DEF RotateCommits, NewDefaults
  <2>2. ASSUME NEW r \in Rotators,
               RotateClears(r) \/ RotateAborts(r) \/ \E k \in Keks : RotateStarts(r, k)
        PROVE  UNCHANGED defaults
    BY <2>2 DEF RotateClears, RotateAborts, RotateStarts
  <2> QED BY <1>3, <2>1, <2>2, OthersKeepKeks DEF CredentialNext, KekNext
<1>4. KekInv /\ KekInv' /\ [CredentialNext]_credentialVars =>
        [/\ kekOverlap' \/ Cardinality(defaults') <= 1
         /\ defaults # {} => defaults' # {}]_credentialVars
  BY <1>2, <1>3
<1> QED BY <1>4, InitKeks, KeksStep, PTL DEF CredentialSpec, DefaultIsKept

-----------------------------------------------------------------------------
(* The rotation schedule *)

ScheduleInv ==
  /\ adminTime \in Nat
  /\ schedule \in [Credentials -> [due: Int, overdue: BOOLEAN]]
  /\ BlockedOnlyWhenPastDue

\* .days of a time that has not passed is not negative.
LEMMA DaysRoundDown ==
  ASSUME NEW n \in Nat, NEW d \in Nat \ {0} PROVE n \div d >= 0
  OBVIOUS

LEMMA EvaluateKeeps ==
  ASSUME ScheduleInv, EvaluateSchedule PROVE ScheduleInv'
<1>1. /\ adminTime' = adminTime
      /\ schedule' = [c \in Credentials |->
           IF schedule[c] = NoSchedule THEN NoSchedule
           ELSE [schedule[c] EXCEPT
                   !.overdue = Overdue((schedule[c].due - adminTime) \div Day, @)]]
  BY DEF EvaluateSchedule
<1>2. ASSUME NEW c \in Credentials
      PROVE  /\ schedule'[c] \in [due: Int, overdue: BOOLEAN]
             /\ schedule'[c].overdue => schedule'[c].due < adminTime
  <2> DEFINE days == (schedule[c].due - adminTime) \div Day
  <2>1. schedule[c] \in [due: Int, overdue: BOOLEAN] /\ adminTime \in Nat
    BY DEF ScheduleInv
  <2>2. CASE schedule[c] = NoSchedule
    BY <1>1, <2>1, <2>2 DEF NoSchedule
  <2>3. CASE schedule[c] # NoSchedule
    <3>1. schedule'[c] = [schedule[c] EXCEPT !.overdue = Overdue(days, schedule[c].overdue)]
      BY <1>1, <2>3
    <3>2. days < 0 => schedule[c].due < adminTime
      BY <2>1, CredentialAssumption, DaysRoundDown
    <3>3. /\ Overdue(days, schedule[c].overdue) \in BOOLEAN
          /\ Overdue(days, schedule[c].overdue) => days < 0 \/ schedule[c].overdue
      BY <2>1 DEF Overdue
    <3> HIDE DEF days
    <3>4. /\ schedule'[c] \in [due: Int, overdue: BOOLEAN]
          /\ schedule'[c].due = schedule[c].due
          /\ schedule'[c].overdue = Overdue(days, schedule[c].overdue)
      BY <2>1, <3>1, <3>3
    <3> QED BY <3>2, <3>3, <3>4 DEF ScheduleInv, BlockedOnlyWhenPastDue
  <2> QED BY <2>2, <2>3
<1>3. schedule' \in [Credentials -> [due: Int, overdue: BOOLEAN]]
  <2>1. schedule' = [c \in Credentials |-> schedule'[c]]
    BY <1>1
  <2> QED BY <1>2, <2>1
<1> QED BY <1>1, <1>2, <1>3 DEF ScheduleInv, BlockedOnlyWhenPastDue

LEMMA ScheduleStep == ScheduleInv /\ [CredentialNext]_credentialVars => ScheduleInv'
<1> SUFFICES ASSUME ScheduleInv, [CredentialNext]_credentialVars PROVE ScheduleInv'
  OBVIOUS
<1>1. CASE EvaluateSchedule
  BY <1>1, EvaluateKeeps
<1>2. ASSUME NEW c \in Credentials, ScheduleRotation(c) PROVE ScheduleInv'
  <2>1. /\ adminTime' = adminTime
        /\ schedule' = [schedule EXCEPT
             ![c] = [due |-> adminTime + RotationSla, overdue |-> FALSE]]
    BY <1>2 DEF ScheduleRotation
  <2>2. adminTime + RotationSla \in Int
    BY CredentialAssumption DEF ScheduleInv
  <2> QED BY <2>1, <2>2 DEF ScheduleInv, BlockedOnlyWhenPastDue
<1>3. CASE AdminTick
  <2>1. adminTime' = adminTime + 1 /\ schedule' = schedule
    BY <1>3 DEF AdminTick
  <2> QED BY <2>1 DEF ScheduleInv, BlockedOnlyWhenPastDue
<1>4. CASE GrantNext \/ KekNext \/ UNCHANGED credentialVars
  <2>1. UNCHANGED <<adminTime, schedule>>
    BY <1>4
    DEF GrantNext, KekNext, credentialVars, IntroduceKek, RetireKek,
        RequestBreakGlass, RevokeBreakGlass, ApproveReads, ApproveWrites,
        RotateStarts, RotateClears, RotateCommits, RotateAborts
  <2> QED BY <2>1 DEF ScheduleInv, BlockedOnlyWhenPastDue
<1> QED BY <1>1, <1>2, <1>3, <1>4 DEF CredentialNext, ScheduleNext

\* For every credential, SLA, length of day and warning period: a scope is
\* never blocked for a credential whose due date has not passed.
THEOREM NeverBlockedEarly == CredentialSpec => []BlockedOnlyWhenPastDue
<1>1. CredentialInit => ScheduleInv
  <2>1. /\ NoSchedule \in [due: Int, overdue: BOOLEAN]
        /\ NoSchedule.overdue = FALSE
    BY DEF NoSchedule, NoTime
  <2> QED BY <2>1 DEF CredentialInit, ScheduleInv, BlockedOnlyWhenPastDue
<1>2. ScheduleInv => BlockedOnlyWhenPastDue
  BY DEF ScheduleInv
<1> QED BY <1>1, <1>2, ScheduleStep, PTL DEF CredentialSpec
=============================================================================
