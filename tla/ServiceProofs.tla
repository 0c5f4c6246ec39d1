---------------------------- MODULE ServiceProofs ----------------------------
(* Proofs about rate cards, the run store, key rotation, provider routing,   *)
(* metering, the knowledge base and the graph validator, each for its own    *)
(* specification and for every value of its constants.                       *)
EXTENDS RateCards, RunStore, EnvelopeRotation, ProviderRouting, Metering,
        KnowledgeBase, GraphValidator, FiniteSetTheorems, NaturalsInduction,
        WellFoundedInduction, TLAPS

-----------------------------------------------------------------------------
(* Rate cards *)

CardsTyped == DOMAIN cards = Cards

\* For every number of cards and requests: an activation that comes after the
\* deletion of its card does not bring the card back.
THEOREM CardsStayDeleted == CardSpec => DeletedCardsStayDeleted
<1>1. CardInit => CardsTyped
  BY DEF CardInit, CardsTyped
<1>2. CardsTyped /\ [CardNext]_cardVars => CardsTyped'
  BY DEF CardsTyped, CardNext, CreateCard, DeleteCard, ChangeCard, UpdateCard,
         FindCard, cardVars
<1>3. CardsTyped /\ [CardNext]_cardVars =>
        [\A c \in Cards : cards[c] = "none" => cards'[c] \in {"none", "draft"}]_cardVars
  <2> SUFFICES ASSUME CardsTyped, CardNext, NEW c \in Cards, cards[c] = "none"
               PROVE  cards'[c] \in {"none", "draft"}
    OBVIOUS
  <2>1. ASSUME NEW d \in Cards, CreateCard(d) \/ DeleteCard(d)
        PROVE  cards'[c] \in {"none", "draft"}
    BY <2>1 DEF CardsTyped, CreateCard, DeleteCard
  <2>2. ASSUME NEW b \in CardClients, ChangeCard(b) PROVE cards'[c] = "none"
    BY <2>2 DEF CardsTyped, ChangeCard, UpdateCard
  <2>3. ASSUME NEW b \in CardClients, NEW d \in Cards, NEW next, FindCard(b, d, next)
        PROVE  cards'[c] = "none"
    BY <2>3 DEF FindCard
  <2> QED BY <2>1, <2>2, <2>3 DEF CardNext
<1> QED BY <1>1, <1>2, <1>3, PTL DEF CardSpec, DeletedCardsStayDeleted

-----------------------------------------------------------------------------
(* The run store.  A resume under way holds the lock of the row it has read, *)
(* so that the row is still the one it will write back.                      *)

RunRecord == [progress: Nat, status: {"running", "paused"}]

RunTyped ==
  /\ runRow \in RunRecord
  /\ copy \in [Executors -> RunRecord]
  /\ resuming \in [Executors -> RunRecord \cup {NotResuming}]

LockHeld ==
  \A e \in Executors : resuming[e] # NotResuming => lockedBy = e /\ resuming[e] = runRow

RunStoreInv == RunTyped /\ LockHeld

LEMMA UpsertKeeps ==
  ASSUME RunStoreInv, NEW e \in Executors, NEW state \in RunRecord, UpsertRun(e, state)
  PROVE  RunStoreInv' /\ UNCHANGED resuming
<1>1. /\ lockedBy = Unlocked /\ runRow' = state /\ copy' = [copy EXCEPT ![e] = state]
      /\ UNCHANGED <<resuming, lockedBy>>
  BY DEF UpsertRun
<1>2. \A f \in Executors : resuming[f] = NotResuming
  BY <1>1, RunStoreAssumption DEF RunStoreInv, LockHeld
<1> QED BY <1>1, <1>2 DEF RunStoreInv, RunTyped, LockHeld

LEMMA RunStoreStep ==
  ASSUME RunStoreInv, [RunNext]_runVars
  PROVE  /\ RunStoreInv'
         /\ \A e \in Executors : resuming[e] # NotResuming /\ resuming'[e] = NotResuming =>
              runRow'.progress >= runRow.progress
<1>0. runRow.progress \in Nat /\ runRow # NotResuming
  BY DEF RunStoreInv, RunTyped, RunRecord, NotResuming
<1>1. ASSUME NEW e \in Executors, LoadRun(e) PROVE RunStoreInv' /\ UNCHANGED resuming
  BY <1>1 DEF LoadRun, RunStoreInv, RunTyped, LockHeld
<1>2. ASSUME NEW e \in Executors, Work(e) PROVE RunStoreInv' /\ UNCHANGED resuming
  <2>1. /\ copy' = [copy EXCEPT ![e].progress = @ + 1]
        /\ UNCHANGED <<runRow, resuming, lockedBy>>
    BY <1>2 DEF Work
  <2>2. copy' \in [Executors -> RunRecord]
    BY <2>1 DEF RunStoreInv, RunTyped, RunRecord
  <2> QED BY <2>1, <2>2 DEF RunStoreInv, RunTyped, LockHeld
<1>3. ASSUME NEW e \in Executors, SaveRun(e) PROVE RunStoreInv' /\ UNCHANGED resuming
  BY <1>3, UpsertKeeps DEF SaveRun, RunStoreInv, RunTyped
<1>4. ASSUME NEW e \in Executors, PauseRun(e) PROVE RunStoreInv' /\ UNCHANGED resuming
  <2>1. [copy[e] EXCEPT !.status = "paused"] \in RunRecord
    BY DEF RunStoreInv, RunTyped, RunRecord
  <2> QED BY <1>4, <2>1, UpsertKeeps DEF PauseRun
<1>5. ASSUME NEW e \in Executors, ResumeReads(e)
      PROVE  RunStoreInv' /\ \A f \in Executors : resuming[f] = NotResuming
  <2>1. /\ lockedBy = Unlocked /\ resuming' = [resuming EXCEPT ![e] = runRow]
        /\ lockedBy' = e /\ UNCHANGED <<runRow, copy>>
    BY <1>5 DEF ResumeReads, SelectForUpdate
  <2>2. \A f \in Executors : resuming[f] = NotResuming
    BY <2>1, RunStoreAssumption DEF RunStoreInv, LockHeld
  <2> QED BY <2>1, <2>2 DEF RunStoreInv, RunTyped, LockHeld
<1>6. ASSUME NEW e \in Executors, ResumeWrites(e)
      PROVE  RunStoreInv' /\ runRow'.progress = runRow.progress
  <2>1. PICK row : row = [resuming[e] EXCEPT !.status = "running"]
    OBVIOUS
  <2>2. /\ resuming[e] # NotResuming /\ runRow' = row
        /\ copy' = [copy EXCEPT ![e] = row]
        /\ resuming' = [resuming EXCEPT ![e] = NotResuming]
    BY <1>6, <2>1 DEF ResumeWrites
  <2>3. resuming[e] = runRow /\ \A f \in Executors : f # e => resuming[f] = NotResuming
    BY <2>2 DEF RunStoreInv, LockHeld
  <2>4. row \in RunRecord /\ row.progress = runRow.progress
    BY <2>1, <2>3 DEF RunStoreInv, RunTyped, RunRecord
  <2> QED BY <2>2, <2>3, <2>4 DEF RunStoreInv, RunTyped, LockHeld
<1>7. ASSUME NEW e \in Executors, ResumeDies(e) PROVE RunStoreInv' /\ UNCHANGED runRow
  <2>1. /\ resuming[e] # NotResuming /\ UNCHANGED <<runRow, copy>>
        /\ resuming' = [resuming EXCEPT ![e] = NotResuming]
    BY <1>7 DEF ResumeDies
  <2>2. \A f \in Executors : f # e => resuming[f] = NotResuming
    BY <2>1 DEF RunStoreInv, LockHeld
  <2> QED BY <2>1, <2>2 DEF RunStoreInv, RunTyped, LockHeld
<1>8. CASE UNCHANGED runVars
  BY <1>8 DEF runVars, RunStoreInv, RunTyped, LockHeld
<1>9. UNCHANGED runVars => UNCHANGED runRow
  BY DEF runVars
<1> QED
  BY <1>0, <1>1, <1>2, <1>3, <1>4, <1>5, <1>6, <1>7, <1>8, <1>9 DEF RunNext

\* For every number of processes on a run: a resume stores the progress it
\* finds, whatever the executors store before and after it.
THEOREM ResumeSafe == RunSpec => ResumeKeepsProgress
<1>1. RunInit => RunStoreInv
  <2> SUFFICES ASSUME RunInit PROVE RunStoreInv
    OBVIOUS
  <2>1. runRow \in RunRecord
    BY DEF RunInit, RunRecord
  <2> QED BY <2>1 DEF RunInit, RunStoreInv, RunTyped, LockHeld
<1>2. RunStoreInv /\ [RunNext]_runVars => RunStoreInv'
  BY RunStoreStep
<1>3. RunStoreInv /\ [RunNext]_runVars =>
        [\A e \in Executors : resuming[e] # NotResuming /\ resuming'[e] = NotResuming =>
           runRow'.progress >= runRow.progress]_runVars
  BY RunStoreStep
<1> QED BY <1>1, <1>2, <1>3, PTL DEF RunSpec, ResumeKeepsProgress

-----------------------------------------------------------------------------
(* Key rotation.  An envelope was issued while its key was active, so that a *)
(* run a whole SLA after that finds it due.                                  *)

Envelope == [key: WrappingKeys, issued: Nat]

EnvelopeTyped ==
  /\ wrapTime \in Nat /\ activeKey \in WrappingKeys /\ swept \subseteq WrappingKeys
  /\ envelopes \in [Slots -> Envelope \cup {NoEnvelope}]
  /\ lastActive \in [WrappingKeys -> Nat]

EnvelopeInv ==
  /\ EnvelopeTyped
  /\ lastActive[activeKey] = wrapTime /\ activeKey \notin swept
  /\ \A k \in WrappingKeys : lastActive[k] <= wrapTime
  /\ \A s \in Slots : envelopes[s] # NoEnvelope =>
       /\ envelopes[s].issued <= lastActive[envelopes[s].key]
       /\ envelopes[s].key \notin swept

LEMMA RotateKeeps == ASSUME EnvelopeInv, RotateStaleEnvelopes PROVE EnvelopeInv'
<1> DEFINE wrapped == {s \in Slots : envelopes[s] # NoEnvelope}
           due == {s \in wrapped : RotationDue(envelopes[s])}
<1>1. /\ envelopes' = [s \in Slots |-> IF s \in due THEN Encrypted ELSE envelopes[s]]
      /\ swept' = swept \cup {k \in WrappingKeys \ {activeKey} : wrapTime >= lastActive[k] + KeySla}
      /\ UNCHANGED <<wrapTime, activeKey, lastActive>>
  BY DEF RotateStaleEnvelopes
<1>2. /\ Encrypted \in Envelope
      /\ Encrypted.key = activeKey /\ Encrypted.issued = wrapTime
  BY DEF Encrypted, Envelope, EnvelopeInv, EnvelopeTyped
<1>3. EnvelopeTyped'
  BY <1>1, <1>2 DEF EnvelopeInv, EnvelopeTyped
<1>4. ASSUME NEW s \in Slots, envelopes'[s] # NoEnvelope
      PROVE  /\ envelopes'[s].issued <= lastActive[envelopes'[s].key]
             /\ envelopes'[s].key \notin swept'
  <2>1. CASE s \in due
    <3>1. envelopes'[s] = Encrypted
      BY <1>1, <2>1
    <3> QED BY <1>1, <1>2, <3>1 DEF EnvelopeInv, EnvelopeTyped
  <2>2. CASE s \notin due
    <3>1. envelopes'[s] = envelopes[s] /\ envelopes[s] \in Envelope
      BY <1>1, <1>4, <2>2 DEF EnvelopeInv, EnvelopeTyped
    <3>2. ~ (wrapTime >= envelopes[s].issued + KeySla)
      BY <1>4, <2>2, <3>1 DEF RotationDue
    <3>3. /\ envelopes[s].issued <= lastActive[envelopes[s].key]
          /\ envelopes[s].key \notin swept /\ envelopes[s].key \in WrappingKeys
          /\ envelopes[s].issued \in Nat /\ lastActive[envelopes[s].key] \in Nat
      BY <1>4, <3>1 DEF EnvelopeInv, EnvelopeTyped, Envelope
    <3>4. ~ (wrapTime >= lastActive[envelopes[s].key] + KeySla)
      BY <3>2, <3>3, EnvelopeAssumption DEF EnvelopeInv, EnvelopeTyped
    <3> QED BY <1>1, <3>1, <3>3, <3>4
  <2> QED BY <2>1, <2>2
<1> QED BY <1>1, <1>3, <1>4 DEF EnvelopeInv

LEMMA EnvelopeStep == EnvelopeInv /\ [EnvelopeNext]_envelopeVars => EnvelopeInv'
<1> SUFFICES ASSUME EnvelopeInv, [EnvelopeNext]_envelopeVars PROVE EnvelopeInv'
  OBVIOUS
<1>0. EnvelopeTyped
  BY DEF EnvelopeInv
<1>1. CASE RotateStaleEnvelopes
  BY <1>1, RotateKeeps
<1>2. CASE WrapTick
  <2>1. /\ wrapTime' = wrapTime + 1
        /\ lastActive' = [lastActive EXCEPT ![activeKey] = wrapTime + 1]
        /\ UNCHANGED <<activeKey, envelopes, swept>>
    BY <1>2 DEF WrapTick
  <2>2. /\ EnvelopeTyped' /\ lastActive'[activeKey] = wrapTime + 1
        /\ \A k \in WrappingKeys : lastActive[k] <= lastActive'[k] /\ lastActive'[k] <= wrapTime + 1
    BY <1>0, <2>1 DEF EnvelopeInv, EnvelopeTyped
  <2>3. ASSUME NEW s \in Slots, envelopes[s] # NoEnvelope
        PROVE  envelopes[s].issued <= lastActive'[envelopes[s].key]
    <3>1. envelopes[s].key \in WrappingKeys /\ envelopes[s].issued \in Nat
      BY <1>0, <2>3 DEF EnvelopeTyped, Envelope
    <3>2. /\ envelopes[s].issued <= lastActive[envelopes[s].key]
          /\ lastActive[envelopes[s].key] \in Nat /\ lastActive'[envelopes[s].key] \in Nat
      BY <2>2, <2>3, <3>1 DEF EnvelopeInv, EnvelopeTyped
    <3> QED BY <2>2, <3>1, <3>2
  <2> QED BY <2>1, <2>2, <2>3 DEF EnvelopeInv
<1>3. ASSUME NEW s \in Slots, Encrypt(s) PROVE EnvelopeInv'
  <2>1. /\ envelopes' = [envelopes EXCEPT ![s] = Encrypted]
        /\ UNCHANGED <<wrapTime, activeKey, lastActive, swept>>
    BY <1>3 DEF Encrypt
  <2>2. /\ Encrypted \in Envelope
        /\ Encrypted.key = activeKey /\ Encrypted.issued = wrapTime
    BY <1>0 DEF Encrypted, Envelope, EnvelopeTyped
  <2> QED BY <2>1, <2>2 DEF EnvelopeInv, EnvelopeTyped
<1>4. ASSUME NEW k \in WrappingKeys, ActivateKey(k) PROVE EnvelopeInv'
  <2>1. /\ activeKey' = k /\ lastActive' = [lastActive EXCEPT ![k] = wrapTime]
        /\ swept' = swept \ {k} /\ UNCHANGED <<wrapTime, envelopes>>
    BY <1>4 DEF ActivateKey
  <2>2. /\ EnvelopeTyped' /\ lastActive'[k] = wrapTime
        /\ \A x \in WrappingKeys : lastActive[x] <= lastActive'[x] /\ lastActive'[x] <= wrapTime
    BY <1>0, <2>1 DEF EnvelopeInv, EnvelopeTyped
  <2>3. ASSUME NEW s \in Slots, envelopes[s] # NoEnvelope
        PROVE  envelopes[s].issued <= lastActive'[envelopes[s].key]
    <3>1. envelopes[s].key \in WrappingKeys /\ envelopes[s].issued \in Nat
      BY <1>0, <2>3 DEF EnvelopeTyped, Envelope
    <3>2. /\ envelopes[s].issued <= lastActive[envelopes[s].key]
          /\ lastActive[envelopes[s].key] \in Nat /\ lastActive'[envelopes[s].key] \in Nat
      BY <2>2, <2>3, <3>1 DEF EnvelopeInv, EnvelopeTyped
    <3> QED BY <2>2, <3>1, <3>2
  <2> QED BY <2>1, <2>2, <2>3 DEF EnvelopeInv
<1>5. ASSUME NEW k \in WrappingKeys, DropKey(k) PROVE EnvelopeInv'
  BY <1>5 DEF DropKey, EnvelopeInv, EnvelopeTyped
<1>6. CASE UNCHANGED envelopeVars
  BY <1>6 DEF envelopeVars, EnvelopeInv, EnvelopeTyped
<1> QED BY <1>1, <1>2, <1>3, <1>4, <1>5, <1>6 DEF EnvelopeNext

\* For every SLA and every sequence of deployments: a key a run passed over a
\* whole SLA after it was last active protects no stored value.
THEOREM SweptUnused == EnvelopeSpec => []SweptKeysAreUnused
<1>1. EnvelopeInit => EnvelopeInv
  BY EnvelopeAssumption DEF EnvelopeInit, EnvelopeInv, EnvelopeTyped
<1>2. EnvelopeInv => SweptKeysAreUnused
  BY DEF EnvelopeInv, SweptKeysAreUnused
<1> QED BY <1>1, <1>2, EnvelopeStep, PTL DEF EnvelopeSpec
-----------------------------------------------------------------------------
(* Provider routing.  A breaker that is open without an event row was opened *)
(* by a caller that is still about to insert the row.                        *)

BreakerRow == [state: {"closed", "open", "half_open"}, failures: Nat, probes: Nat]

RoutingTyped ==
  /\ health \in [Providers -> BreakerRow] /\ probed \in [Providers -> Nat]
  /\ DOMAIN caller = RouteCallers
  /\ routeFaults \in Nat

Reporting(p) ==
  \E c \in RouteCallers :
    caller[c].step = "report" /\ caller[c].provider = p /\ caller[c].state = "open"

OpenIsReported ==
  routeFaults = 0 =>
    \A p \in Providers : health[p].state = "open" => p \in healthEvents \/ Reporting(p)

BreakerInv == RoutingTyped /\ BreakerIsConsistent /\ ProbesAreBounded /\ OpenIsReported

\* A step that changes no breaker, and of no caller that is reporting.
LEMMA BreakersKept ==
  ASSUME BreakerInv, UNCHANGED <<health, probed>>, healthEvents \subseteq healthEvents',
         routeFaults' \in Nat, routeFaults' = 0 => routeFaults = 0,
         DOMAIN caller' = RouteCallers,
         \A d \in RouteCallers : caller[d].step = "report" => caller'[d] = caller[d]
  PROVE  BreakerInv'
<1>1. (RoutingTyped /\ BreakerIsConsistent /\ ProbesAreBounded)'
  BY DEF BreakerInv, RoutingTyped, BreakerIsConsistent, ProbesAreBounded
<1>2. \A p \in Providers : Reporting(p) => Reporting(p)'
  BY DEF Reporting
<1>3. OpenIsReported'
  BY <1>2 DEF BreakerInv, OpenIsReported
<1> QED BY <1>1, <1>3 DEF BreakerInv

\* A step that changes the breaker of one provider.
LEMMA BreakerChanged ==
  ASSUME BreakerInv, NEW p, NEW h, NEW n,
         health' = [health EXCEPT ![p] = h], probed' = [probed EXCEPT ![p] = n],
         p \in Providers =>
           /\ h \in BreakerRow /\ n \in Nat
           /\ h.state = "closed" => h.failures < FailureThreshold \/ h = Closed
           /\ h.state = "open" => h.failures >= FailureThreshold
           /\ h.probes > 0 => h.state = "half_open"
           /\ h.state = "half_open" => n + h.probes <= RecoveryProbeLimit
           /\ h.state = "open" => p \in healthEvents \/ Reporting(p)',
         UNCHANGED <<healthEvents, routeFaults>>, DOMAIN caller' = RouteCallers,
         \A d \in RouteCallers : caller[d].step = "report" => caller'[d] = caller[d]
  PROVE  BreakerInv'
<1>1. RoutingTyped'
  BY DEF BreakerInv, RoutingTyped
<1>2. \A q \in Providers : IF q = p THEN health'[q] = h /\ probed'[q] = n
                           ELSE health'[q] = health[q] /\ probed'[q] = probed[q]
  BY DEF BreakerInv, RoutingTyped
<1>3. BreakerIsConsistent' /\ ProbesAreBounded'
  BY <1>2 DEF BreakerInv, BreakerIsConsistent, ProbesAreBounded
<1>4. \A q \in Providers : Reporting(q) => Reporting(q)'
  BY DEF Reporting
<1>5. OpenIsReported'
  BY <1>2, <1>4 DEF BreakerInv, OpenIsReported
<1> QED BY <1>1, <1>3, <1>5 DEF BreakerInv

LEMMA BreakerInit == RoutingInit => BreakerInv
<1> SUFFICES ASSUME RoutingInit PROVE BreakerInv
  OBVIOUS
<1>1. /\ health = [p \in Providers |-> Closed] /\ probed = [p \in Providers |-> 0]
      /\ caller = [c \in RouteCallers |-> NotCalling] /\ routeFaults = 0
  BY DEF RoutingInit
<1>2. Closed \in BreakerRow /\ Closed.state = "closed" /\ Closed.probes = 0
  BY DEF Closed, BreakerRow
<1> QED BY <1>1, <1>2 DEF BreakerInv, RoutingTyped, BreakerIsConsistent, ProbesAreBounded, OpenIsReported

LEMMA CallerStep ==
  ASSUME BreakerInv, NEW c \in RouteCallers,
         \/ \E a \in Assignments : StartSelection(c, a)
         \/ CheckPrimary(c) \/ ResolveFallback(c)
         \/ AllowRequestFallsBack(c) \/ Answered(c) \/ ReportUncounted(c)
  PROVE  BreakerInv'
<1>1. caller[c].step # "report"
  BY DEF StartSelection, CheckPrimary, ResolveFallback, AllowRequestFallsBack,
         Answered, ReportUncounted, NotCalling
<1>2. /\ UNCHANGED <<health, probed>> /\ healthEvents \subseteq healthEvents'
      /\ routeFaults' = routeFaults \/ routeFaults' = routeFaults + 1
  BY DEF StartSelection, CheckPrimary, ResolveFallback, AllowRequestFallsBack,
         Answered, ReportUncounted, Read, RouteFault, Event
<1>3. \E v : caller' = [caller EXCEPT ![c] = v]
  <2>1. CASE \E a \in Assignments : StartSelection(c, a)
    BY <2>1 DEF StartSelection, Read, Finish
  <2>2. CASE CheckPrimary(c)
    BY <2>2 DEF CheckPrimary, Read, Finish, Goto
  <2>3. CASE ResolveFallback(c)
    BY <2>3 DEF ResolveFallback, Read, Finish
  <2>4. CASE AllowRequestFallsBack(c)
    BY <2>4 DEF AllowRequestFallsBack
  <2>5. CASE Answered(c)
    BY <2>5 DEF Answered
  <2>6. CASE ReportUncounted(c)
    BY <2>6 DEF ReportUncounted
  <2> QED BY <2>1, <2>2, <2>3, <2>4, <2>5, <2>6
<1>4. DOMAIN caller = RouteCallers /\ routeFaults \in Nat
  BY DEF BreakerInv, RoutingTyped
<1>5. /\ DOMAIN caller' = RouteCallers
      /\ \A d \in RouteCallers : d # c => caller'[d] = caller[d]
  BY <1>3, <1>4
<1> QED BY <1>1, <1>2, <1>4, <1>5, BreakersKept

LEMMA AllowStep ==
  ASSUME BreakerInv, NEW c \in RouteCallers, AllowRequest(c)
  PROVE  BreakerInv'
<1>1. PICK p : p = Asked(c)
  OBVIOUS
<1>2. PICK h : h = health[p]
  OBVIOUS
<1>3. PICK v : caller' = [caller EXCEPT ![c] = v]
  BY DEF AllowRequest
<1>4. /\ DOMAIN caller' = RouteCallers
      /\ \A d \in RouteCallers : caller[d].step = "report" => caller'[d] = caller[d]
  BY <1>3 DEF AllowRequest, BreakerInv, RoutingTyped
<1>5. UNCHANGED <<healthEvents, routeFaults>> /\ routeFaults \in Nat
  BY DEF AllowRequest, BreakerInv, RoutingTyped
<1>6. CASE Allowed(h) /\ h.state = "half_open"
  <2>1. PICK n : n = probed[p] + 1
    OBVIOUS
  <2>2. health' = [health EXCEPT ![p] = TakeProbe(h)] /\ probed' = [probed EXCEPT ![p] = n]
    BY <1>1, <1>2, <1>6, <2>1 DEF AllowRequest
  <2>3. ASSUME p \in Providers
        PROVE  /\ TakeProbe(h) \in BreakerRow /\ n \in Nat /\ TakeProbe(h).state = "half_open"
               /\ n + TakeProbe(h).probes <= RecoveryProbeLimit
    <3>1. h \in BreakerRow /\ probed[p] \in Nat /\ probed[p] + h.probes <= RecoveryProbeLimit
      BY <2>3, <1>2, <1>6 DEF BreakerInv, RoutingTyped, ProbesAreBounded
    <3>2. h.probes > 0 /\ h.probes \in Nat
      BY <3>1, <1>6 DEF Allowed, BreakerRow
    <3>3. TakeProbe(h) \in BreakerRow /\ TakeProbe(h).probes = h.probes - 1
          /\ TakeProbe(h).state = "half_open"
      BY <3>1, <3>2, <1>6 DEF TakeProbe, BreakerRow
    <3> QED BY <3>1, <3>2, <3>3, <2>1, RoutingAssumption
  <2> HIDE DEF TakeProbe
  <2> QED BY <2>2, <2>3, <1>4, <1>5, BreakerChanged
<1>7. CASE ~ (Allowed(h) /\ h.state = "half_open")
  <2>1. UNCHANGED <<health, probed>>
    BY <1>1, <1>2, <1>7 DEF AllowRequest
  <2> QED BY <2>1, <1>4, <1>5, BreakersKept
<1> QED BY <1>6, <1>7

LEMMA RoutingBounds == FailureThreshold \in Int /\ RecoveryProbeLimit \in Nat
  BY RoutingAssumption

LEMMA FailureCounts ==
  ASSUME NEW h \in BreakerRow
  PROVE  /\ AfterFailure(h) \in BreakerRow
         /\ \/ /\ AfterFailure(h).state = h.state /\ AfterFailure(h).failures < FailureThreshold
               /\ AfterFailure(h).probes = h.probes /\ AfterFailure(h).failures > h.failures
            \/ /\ AfterFailure(h).state = "open" /\ AfterFailure(h).failures >= FailureThreshold
               /\ AfterFailure(h).probes = 0
<1>1. h.failures \in Nat /\ h.failures + 1 \in Nat /\ h.probes \in Nat
  BY DEF BreakerRow
<1>2. CASE h.failures + 1 >= FailureThreshold
  <2>1. AfterFailure(h) = [state |-> "open", failures |-> h.failures + 1, probes |-> 0]
    BY <1>2 DEF AfterFailure
  <2> QED BY <2>1, <1>1, <1>2 DEF BreakerRow
<1>3. CASE ~ (h.failures + 1 >= FailureThreshold)
  <2>1. AfterFailure(h) = [h EXCEPT !.failures = h.failures + 1]
    BY <1>3 DEF AfterFailure
  <2>2. /\ AfterFailure(h) \in BreakerRow /\ AfterFailure(h).state = h.state
        /\ AfterFailure(h).failures = h.failures + 1 /\ AfterFailure(h).probes = h.probes
    BY <2>1, <1>1 DEF BreakerRow
  <2> QED BY <2>2, <1>1, <1>3, RoutingBounds
<1> QED BY <1>2, <1>3

LEMMA ReportStep ==
  ASSUME BreakerInv, NEW c \in RouteCallers, NEW kind \in {"success", "failure"}, Report(c, kind)
  PROVE  BreakerInv'
<1>1. PICK p : p = caller[c].provider
  OBVIOUS
<1>2. PICK h : h = IF kind = "success" THEN AfterSuccess(health[p]) ELSE AfterFailure(health[p])
  OBVIOUS
<1>3. PICK n : n = IF h.state = "half_open" THEN probed[p] ELSE 0
  OBVIOUS
<1>4. /\ health' = [health EXCEPT ![p] = h] /\ probed' = [probed EXCEPT ![p] = n]
      /\ caller' = [caller EXCEPT ![c] = [step |-> "report", provider |-> p, state |-> h.state]]
      /\ caller[c].step = "call" /\ UNCHANGED <<healthEvents, routeFaults>>
  BY <1>1, <1>2, <1>3 DEF Report
<1>5. DOMAIN caller = RouteCallers
  BY DEF BreakerInv, RoutingTyped
<1>6. /\ DOMAIN caller' = RouteCallers
      /\ \A d \in RouteCallers : caller[d].step = "report" => caller'[d] = caller[d]
      /\ caller'[c] = [step |-> "report", provider |-> p, state |-> h.state]
  BY <1>4, <1>5
<1>7. h.state = "open" => Reporting(p)'
  BY <1>6 DEF Reporting
<1>8. ASSUME p \in Providers
      PROVE  /\ h \in BreakerRow /\ n \in Nat
             /\ h.state = "closed" => h.failures < FailureThreshold \/ h = Closed
             /\ h.state = "open" => h.failures >= FailureThreshold
             /\ h.probes > 0 => h.state = "half_open"
             /\ h.state = "half_open" => n + h.probes <= RecoveryProbeLimit
  <2>1. PICK g : g = health[p]
    OBVIOUS
  <2>2. /\ g \in BreakerRow /\ probed[p] \in Nat
        /\ g.state = "open" => g.failures >= FailureThreshold
        /\ g.probes > 0 => g.state = "half_open"
        /\ g.state = "half_open" => probed[p] + g.probes <= RecoveryProbeLimit
    BY <1>8, <2>1 DEF BreakerInv, RoutingTyped, BreakerIsConsistent, ProbesAreBounded
  <2>3. n \in Nat
    BY <2>2, <1>3
  <2>4. CASE kind = "success"
    <3>1. h = Closed /\ Closed \in BreakerRow /\ Closed.state = "closed" /\ Closed.probes = 0
      BY <2>4, <1>2 DEF AfterSuccess, Closed, BreakerRow
    <3> QED BY <3>1, <2>3
  <2>5. CASE kind # "success"
    <3>1. h = AfterFailure(g)
      BY <2>5, <1>2, <2>1
    <3>2. h \in BreakerRow /\ h.failures \in Nat /\ g.failures \in Nat /\ g.probes \in Nat
      BY <3>1, <2>2, FailureCounts DEF BreakerRow
    <3>3. CASE /\ h.state = g.state /\ h.failures < FailureThreshold
               /\ h.probes = g.probes /\ h.failures > g.failures
      <4>1. h.state # "open"
        BY <3>2, <3>3, <2>2, RoutingBounds
      <4>2. h.state = "half_open" => n + h.probes <= RecoveryProbeLimit
        BY <3>3, <2>2, <1>3
      <4> QED BY <4>1, <4>2, <3>2, <3>3, <2>2, <2>3
    <3>4. CASE h.state = "open" /\ h.failures >= FailureThreshold /\ h.probes = 0
      BY <3>2, <3>4, <2>3
    <3> QED BY <3>1, <3>3, <3>4, <2>2, FailureCounts
  <2> QED BY <2>4, <2>5
<1> QED BY <1>4, <1>6, <1>7, <1>8, BreakerChanged

LEMMA OperatorStep ==
  ASSUME BreakerInv, NEW p \in Providers, MoveToHalfOpen(p) \/ HealthExpires(p)
  PROVE  BreakerInv'
<1>1. /\ DOMAIN caller' = RouteCallers
      /\ \A d \in RouteCallers : caller[d].step = "report" => caller'[d] = caller[d]
  BY DEF BreakerInv, RoutingTyped, MoveToHalfOpen, HealthExpires
<1>2. CASE MoveToHalfOpen(p)
  <2>1. PICK h : h = [health[p] EXCEPT !.state = "half_open", !.probes = RecoveryProbeLimit]
    OBVIOUS
  <2>2. health[p] \in BreakerRow /\ RecoveryProbeLimit \in Nat
    BY RoutingAssumption DEF BreakerInv, RoutingTyped
  <2>3. h \in BreakerRow /\ h.state = "half_open" /\ h.probes = RecoveryProbeLimit
    BY <2>1, <2>2 DEF BreakerRow
  <2>4. health' = [health EXCEPT ![p] = h] /\ probed' = [probed EXCEPT ![p] = 0]
    BY <1>2, <2>1 DEF MoveToHalfOpen, BreakerInv, RoutingTyped
  <2>5. UNCHANGED <<healthEvents, routeFaults>>
    BY <1>2 DEF MoveToHalfOpen, Event
  <2>6. 0 + h.probes <= RecoveryProbeLimit /\ 0 \in Nat
    BY <2>2, <2>3
  <2> QED BY <1>1, <2>3, <2>4, <2>5, <2>6, BreakerChanged
<1>3. CASE HealthExpires(p)
  <2>1. Closed \in BreakerRow /\ Closed.state = "closed" /\ Closed.probes = 0
    BY DEF Closed, BreakerRow
  <2>2. /\ health' = [health EXCEPT ![p] = Closed] /\ probed' = [probed EXCEPT ![p] = 0]
        /\ UNCHANGED <<healthEvents, routeFaults>>
    BY <1>3 DEF HealthExpires
  <2>3. ~ (Closed.probes > 0) /\ 0 \in Nat
    BY <2>1
  <2> QED BY <1>1, <2>1, <2>2, <2>3, BreakerChanged
<1> QED BY <1>2, <1>3

\* EventLost and Reported: a caller stops being about to write.
LEMMA ReportEnds ==
  ASSUME BreakerInv, NEW c \in RouteCallers, EventLost(c) \/ Reported(c)
  PROVE  BreakerInv'
<1>1. /\ caller' = [caller EXCEPT ![c] = NotCalling] /\ DOMAIN caller = RouteCallers
      /\ UNCHANGED <<health, probed>> /\ routeFaults \in Nat
  BY DEF EventLost, Reported, Finish, BreakerInv, RoutingTyped
<1>2. CASE EventLost(c)
  <2>1. routeFaults' = routeFaults + 1
    BY <1>2 DEF EventLost, RouteFault
  <2> QED BY <1>1, <2>1 DEF BreakerInv, RoutingTyped, BreakerIsConsistent, ProbesAreBounded,
                            OpenIsReported
<1>3. CASE Reported(c)
  <2>1. UNCHANGED routeFaults /\ healthEvents \subseteq healthEvents'
        /\ (caller[c].state = "open" => caller[c].provider \in healthEvents')
    BY <1>3 DEF Reported, Event
  <2>2. \A p \in Providers : Reporting(p) => p \in healthEvents' \/ Reporting(p)'
    BY <1>1, <2>1 DEF Reporting
  <2>3. OpenIsReported'
    BY <1>1, <2>1, <2>2 DEF BreakerInv, OpenIsReported
  <2> QED BY <1>1, <2>1, <2>3 DEF BreakerInv, RoutingTyped, BreakerIsConsistent, ProbesAreBounded
<1> QED BY <1>2, <1>3

LEMMA BreakerStep ==
  ASSUME BreakerInv, [RoutingNext]_routingVars
  PROVE  BreakerInv'
<1>1. ASSUME NEW b \in Bundles, ReconcileBundle(b) PROVE BreakerInv'
  BY <1>1, BreakersKept DEF ReconcileBundle, BreakerInv, RoutingTyped
<1>2. ASSUME NEW p \in Providers, MoveToHalfOpenFails(p) PROVE BreakerInv'
  <2>1. /\ UNCHANGED <<health, caller, probed>> /\ routeFaults' = routeFaults + 1
        /\ routeFaults \in Nat /\ DOMAIN caller = RouteCallers
        /\ healthEvents \subseteq healthEvents'
    BY <1>2 DEF MoveToHalfOpenFails, RouteFault, Event, BreakerInv, RoutingTyped
  <2> QED BY <2>1, BreakersKept
<1>3. CASE UNCHANGED routingVars
  BY <1>3, BreakersKept DEF routingVars, BreakerInv, RoutingTyped
<1> QED BY <1>1, <1>2, <1>3, OperatorStep, CallerStep, AllowStep, ReportStep, ReportEnds DEF RoutingNext

\* For every number of providers, callers, faults and operators, and for every
\* threshold and probe limit: the breakers are consistent, let no more probes
\* through than the limit, and every trip is in the event log.
THEOREM BreakersCorrect == RoutingSpec => []BreakerInvariant
<1>1. BreakerInv /\ [RoutingNext]_routingVars => BreakerInv'
  BY BreakerStep
<1>2. BreakerInv => BreakerInvariant
  <2>1. BreakerInv => OpenIsRecorded
    BY DEF BreakerInv, OpenIsReported, OpenIsRecorded, Reporting
  <2> QED BY <2>1 DEF BreakerInv, BreakerInvariant
<1> QED BY BreakerInit, <1>1, <1>2, PTL DEF RoutingSpec

-----------------------------------------------------------------------------
(* Metering.  A build has read facts of one tenant; until another build      *)
(* writes or facts are deleted, they are on record, and among them are those *)
(* of its tenant and period that a rollup names and nobody has deleted.      *)

FactsAreUsages ==
  /\ facts \subseteq Usages /\ DOMAIN job = Builders
  /\ ~ bypassesRls => deleted = {}

RowIsSound(id) ==
  \A f \in Named(id) : /\ f \in facts \cup deleted /\ RollupId(f) = id
                       /\ ~ bypassesRls => f.tenant = rollups[id].tenant

ReadIsSound(b) ==
  b \in Building =>
    /\ job[b].read \subseteq facts \cup deleted
    /\ b \notin overtaken => job[b].read \subseteq facts
    /\ \A f \in job[b].read : f.tenant = job[b].tenant

ReadIsComplete(b) ==
  b \in Building /\ b \notin overtaken =>
    \A id \in RollupIds : \A f \in Named(id) \ deleted :
      f.tenant = job[b].tenant /\ InPeriod(f, job[b].period) => f \in job[b].read

MeterInv ==
  /\ FactsAreUsages
  /\ \A id \in RollupIds : RowIsSound(id)
  /\ \A b \in Builders : ReadIsSound(b) /\ ReadIsComplete(b)

\* The part of the property that a step has to show for one rollup.
Follows(id) ==
  /\ \A f \in Named(id)' \ Named(id) : f \in facts \/ \E b \in overtaken : Finishes(b)
  /\ \A f \in Named(id) \ Named(id)' :
       \/ \E b \in Building : /\ Finishes(b)
                              /\ \/ b \in overtaken
                                 \/ ~ InPeriod(f, job[b].period)
                                 \/ bypassesRls /\ job[b].tenant # f.tenant
       \/ bypassesRls /\ (f \in deleted' \/ rollups[id].tenant # f.tenant)

LEMMA MeterInit == MeteringInit => MeterInv
<1> SUFFICES ASSUME MeteringInit PROVE MeterInv
  OBVIOUS
<1>1. /\ facts = {} /\ deleted = {} /\ \A id \in RollupIds : rollups[id] = NoRow
      /\ job = [b \in Builders |-> NoJob]
  BY DEF MeteringInit
<1>2. Building = {}
  BY <1>1 DEF Building, NoJob
<1>3. \A id \in RollupIds : Named(id) = {}
  BY <1>1 DEF Named
<1> QED BY <1>1, <1>2, <1>3 DEF MeterInv, FactsAreUsages, RowIsSound, ReadIsSound, ReadIsComplete

LEMMA RowIsThere == ASSUME NEW t, NEW u PROVE [tenant |-> t, usage |-> u] # NoRow
<1>1. DOMAIN [tenant |-> t, usage |-> u] = {"tenant", "usage"} /\ DOMAIN NoRow = {"tenant"}
  BY DEF NoRow
<1> QED BY <1>1

LEMMA RecordStep ==
  ASSUME MeterInv, NEW g \in Usages, RecordUsage(g)
  PROVE  MeterInv' /\ UNCHANGED rollups
<1>1. /\ facts' = facts \cup {g}
      /\ UNCHANGED <<bypassesRls, rollups, job, overtaken, deleted>>
  BY DEF RecordUsage
<1>2. Building' = Building /\ \A id \in RollupIds : Named(id)' = Named(id)
  BY <1>1 DEF Building, Named
<1>3. FactsAreUsages'
  BY <1>1 DEF MeterInv, FactsAreUsages
<1>4. \A id \in RollupIds : RowIsSound(id)'
  BY <1>1, <1>2 DEF MeterInv, RowIsSound
<1>5. \A b \in Builders : ReadIsSound(b)' /\ ReadIsComplete(b)'
  BY <1>1, <1>2 DEF MeterInv, ReadIsSound, ReadIsComplete, InPeriod
<1> QED BY <1>1, <1>3, <1>4, <1>5 DEF MeterInv

LEMMA BuildReadsStep ==
  ASSUME MeterInv, NEW b \in Builders, NEW t, NEW p \in Periods, BuildReads(b, t, p)
  PROVE  MeterInv' /\ UNCHANGED rollups
<1>1. PICK rd : rd = FactsForPeriod(t, p)
  OBVIOUS
<1>2. PICK j : j = [step |-> "build", tenant |-> t, period |-> p, read |-> rd]
  OBVIOUS
<1>3. /\ job' = [job EXCEPT ![b] = j]
      /\ UNCHANGED <<bypassesRls, facts, rollups, overtaken, deleted>>
  BY <1>1, <1>2 DEF BuildReads
<1>4. /\ DOMAIN job' = Builders /\ job'[b] = j
      /\ \A c \in Builders : c # b => job'[c] = job[c]
  BY <1>3 DEF MeterInv, FactsAreUsages
<1>5. /\ j.tenant = t /\ j.period = p /\ j.read = rd /\ rd \subseteq facts
      /\ \A f \in facts : f \in rd <=> f.tenant = t /\ InPeriod(f, p)
  BY <1>1, <1>2 DEF FactsForPeriod, InPeriod
<1>6. \A c \in Builders : c # b => (c \in Building' <=> c \in Building)
  BY <1>4 DEF Building
<1>7. \A id \in RollupIds : Named(id)' = Named(id)
  BY <1>3 DEF Named
<1>8. FactsAreUsages'
  BY <1>3, <1>4 DEF MeterInv, FactsAreUsages
<1>9. \A id \in RollupIds : RowIsSound(id)'
  BY <1>3, <1>7 DEF MeterInv, RowIsSound
<1>10. ASSUME NEW c \in Builders PROVE ReadIsSound(c)' /\ ReadIsComplete(c)'
  <2>1. CASE c = b
    <3>1. \A f \in rd : f.tenant = t
      BY <1>5 DEF InPeriod
    <3>2. ReadIsSound(b)'
      BY <3>1, <1>3, <1>4, <1>5 DEF ReadIsSound
    <3>3. ASSUME NEW id \in RollupIds, NEW f \in Named(id) \ deleted, f.tenant = t, InPeriod(f, p)
          PROVE  f \in rd
      <4>1. f \in facts
        BY <3>3 DEF MeterInv, RowIsSound
      <4> QED BY <4>1, <3>3, <1>5
    <3>4. ReadIsComplete(b)'
      BY <3>3, <1>3, <1>4, <1>5, <1>7 DEF ReadIsComplete, InPeriod
    <3> QED BY <2>1, <3>2, <3>4
  <2>2. CASE c # b
    <3>1. ReadIsSound(c)'
      BY <2>2, <1>3, <1>4, <1>6 DEF MeterInv, ReadIsSound
    <3>2. ReadIsComplete(c)'
      BY <2>2, <1>3, <1>4, <1>6, <1>7 DEF MeterInv, ReadIsComplete, InPeriod
    <3> QED BY <3>1, <3>2
  <2> QED BY <2>1, <2>2
<1> QED BY <1>3, <1>8, <1>9, <1>10 DEF MeterInv

LEMMA BuildWritesStep ==
  ASSUME MeterInv, NEW b \in Builders, BuildWrites(b)
  PROVE  MeterInv' /\ \A id \in RollupIds : Follows(id)
<1>1. PICK team \in ScopeTeams(job[b].read) :
        rollups' = IF \A id \in Touched(b) : RowAllowed(b, id, team)
                   THEN [id \in RollupIds |-> IF id \in Touched(b) THEN Upsert(b, id) ELSE rollups[id]]
                   ELSE rollups
  BY DEF BuildWrites
<1>2. /\ b \in Building /\ UNCHANGED <<bypassesRls, facts, deleted>>
      /\ job' = [job EXCEPT ![b] = NoJob]
      /\ \A c \in Building : c # b => c \in overtaken'
  BY DEF BuildWrites, Building
<1>3. /\ DOMAIN job' = Builders /\ job'[b] = NoJob
      /\ \A c \in Builders : c # b => job'[c] = job[c]
  BY <1>2 DEF MeterInv, FactsAreUsages
<1>4. b \notin Building' /\ \A c \in Builders : c # b => (c \in Building' <=> c \in Building)
  BY <1>3 DEF Building, NoJob
<1>5. Finishes(b)
  BY <1>2, <1>3 DEF Finishes
<1>6. ASSUME NEW id \in RollupIds
      PROVE  \/ rollups'[id] = rollups[id]
             \/ /\ RowAllowed(b, id, team) /\ rollups'[id] = Upsert(b, id)
  BY <1>1 DEF Touched
<1>7. /\ job[b].read \subseteq facts \cup deleted
      /\ b \notin overtaken => job[b].read \subseteq facts
      /\ \A f \in job[b].read : f.tenant = job[b].tenant
  BY <1>2 DEF MeterInv, ReadIsSound
<1>8. ASSUME NEW id \in RollupIds
      PROVE  RowIsSound(id)' /\ Follows(id)
  <2>1. CASE rollups'[id] = rollups[id]
    <3>1. Named(id)' = Named(id)
      BY <2>1 DEF Named
    <3> QED BY <2>1, <3>1, <1>2 DEF MeterInv, RowIsSound, Follows
  <2>2. CASE RowAllowed(b, id, team) /\ rollups'[id] = Upsert(b, id)
    <3>1. PICK g : g = Group(job[b].read, id)
      OBVIOUS
    <3>2. Upsert(b, id) # NoRow /\ Upsert(b, id).usage = g
      BY <3>1, RowIsThere DEF Upsert
    <3>3. Named(id)' = g
      BY <2>2, <3>2 DEF Named
    <3>4. ~ bypassesRls => Upsert(b, id).tenant = job[b].tenant
      BY <2>2 DEF RowAllowed, Upsert
    <3>5. g \subseteq job[b].read /\ \A f \in job[b].read : f \in g <=> RollupId(f) = id
      BY <3>1 DEF Group
    <3>6. RowIsSound(id)'
      BY <1>2, <1>7, <2>2, <3>3, <3>4, <3>5 DEF RowIsSound
    <3>7. \A f \in Named(id)' \ Named(id) : f \in facts \/ \E c \in overtaken : Finishes(c)
      BY <1>5, <1>7, <3>3, <3>5
    <3>8. ASSUME NEW f \in Named(id), f \notin g, b \notin overtaken,
                 InPeriod(f, job[b].period), ~ (bypassesRls /\ job[b].tenant # f.tenant)
          PROVE  bypassesRls /\ f \in deleted'
      <4>1. rollups[id] # NoRow
        BY <3>8 DEF Named
      <4>2. f.tenant = job[b].tenant
        BY <3>8, <4>1, <2>2 DEF RowAllowed, MeterInv, RowIsSound
      <4>3. f \in job[b].read \/ f \in deleted
        BY <3>8, <4>2, <1>2 DEF MeterInv, ReadIsComplete
      <4>4. RollupId(f) = id
        BY <3>8 DEF MeterInv, RowIsSound
      <4> QED BY <4>3, <4>4, <3>5, <3>8, <1>2 DEF MeterInv, FactsAreUsages
    <3> QED BY <1>2, <1>5, <3>3, <3>6, <3>7, <3>8 DEF Follows
  <2> QED BY <2>1, <2>2, <1>6
<1>9. FactsAreUsages'
  BY <1>2, <1>3 DEF MeterInv, FactsAreUsages
<1>10. ASSUME NEW c \in Builders PROVE ReadIsSound(c)' /\ ReadIsComplete(c)'
  <2>1. ReadIsComplete(c)'
    BY <1>2, <1>4 DEF ReadIsComplete
  <2>2. ReadIsSound(c)'
    BY <1>2, <1>3, <1>4 DEF MeterInv, ReadIsSound
  <2> QED BY <2>1, <2>2
<1> QED BY <1>8, <1>9, <1>10 DEF MeterInv

\* What both deletions do to the facts and to the builds under way.
LEMMA DeleteStep ==
  ASSUME MeterInv, bypassesRls, NEW fs \in SUBSET Usages, Delete(fs),
         \A id \in RollupIds : rollups'[id] = rollups[id] \/ rollups'[id] = NoRow
  PROVE  MeterInv'
<1>1. /\ facts' = facts \ fs /\ deleted' = deleted \cup (fs \cap facts)
      /\ overtaken' = overtaken \cup Building /\ UNCHANGED <<bypassesRls, job>>
  BY DEF Delete
<1>2. /\ Building' = Building /\ facts \cup deleted \subseteq facts' \cup deleted'
      /\ Building \subseteq overtaken'
  BY <1>1 DEF Building
<1>3. \A id \in RollupIds : Named(id)' \subseteq Named(id)
  BY DEF Named
<1>4. FactsAreUsages'
  BY <1>1 DEF MeterInv, FactsAreUsages
<1>5. \A id \in RollupIds : RowIsSound(id)'
  BY <1>1, <1>2, <1>3 DEF MeterInv, RowIsSound
<1>6. \A b \in Builders : ReadIsSound(b)' /\ ReadIsComplete(b)'
  BY <1>1, <1>2 DEF MeterInv, ReadIsSound, ReadIsComplete
<1> QED BY <1>4, <1>5, <1>6 DEF MeterInv

LEMMA ErasureStep ==
  ASSUME MeterInv, NEW t, ErasureDeletes(t)
  PROVE  MeterInv' /\ \A id \in RollupIds : Follows(id)
<1> DEFINE fs == {f \in Usages : f.tenant = t}
<1>1. /\ bypassesRls /\ Delete(fs)
      /\ \A id \in RollupIds : \/ rollups'[id] = rollups[id]
                               \/ rollups'[id] = NoRow /\ rollups[id].tenant = t
  BY DEF ErasureDeletes
<1>2. deleted' = deleted \cup (fs \cap facts)
  BY <1>1 DEF Delete
<1>3. MeterInv'
  <2>1. fs \in SUBSET Usages
    OBVIOUS
  <2> HIDE DEF fs
  <2> QED BY <1>1, <2>1, DeleteStep
<1>4. ASSUME NEW id \in RollupIds PROVE Follows(id)
  <2>1. Named(id)' \subseteq Named(id)
    BY <1>1 DEF Named
  <2>2. ASSUME NEW f \in Named(id), f \notin Named(id)', f.tenant = rollups[id].tenant
        PROVE  f \in deleted'
    <3>1. rollups[id].tenant = t
      BY <1>1, <2>2 DEF Named
    <3>2. f \in facts => f \in fs
      BY <2>2, <3>1 DEF MeterInv, FactsAreUsages
    <3> QED BY <1>2, <2>2, <3>2 DEF MeterInv, RowIsSound
  <2> QED BY <1>1, <2>1, <2>2 DEF Follows
<1> QED BY <1>3, <1>4

LEMMA MeterFrame ==
  ASSUME MeterInv, UNCHANGED <<bypassesRls, facts, rollups, job, overtaken, deleted>>
  PROVE  MeterInv'
  BY DEF MeterInv, FactsAreUsages, RowIsSound, ReadIsSound, ReadIsComplete, Building,
         Named, InPeriod

LEMMA MeterStep ==
  ASSUME MeterInv, MeteringNext
  PROVE  MeterInv' /\ \A id \in RollupIds : Follows(id)
<1>1. ASSUME UNCHANGED rollups PROVE \A id \in RollupIds : Follows(id)
  BY <1>1 DEF Follows, Named
<1>2. ASSUME NEW f \in Usages, RecordUsage(f) PROVE MeterInv' /\ UNCHANGED rollups
  BY <1>2, RecordStep
<1>3. CASE RunReconciliation
  <2>1. UNCHANGED <<bypassesRls, facts, rollups, job, overtaken, deleted>>
    BY <1>3 DEF RunReconciliation
  <2> QED BY <1>1, <2>1, MeterFrame
<1>4. ASSUME NEW n, RetentionDeletes(n) PROVE MeterInv' /\ UNCHANGED rollups
  <2> DEFINE fs == {f \in Usages : f.time < n}
  <2>1. bypassesRls /\ Delete(fs) /\ UNCHANGED rollups /\ fs \in SUBSET Usages
    BY <1>4 DEF RetentionDeletes
  <2> HIDE DEF fs
  <2> QED BY <2>1, DeleteStep
<1> QED BY <1>1, <1>2, <1>3, <1>4, BuildReadsStep, BuildWritesStep, ErasureStep
         DEF MeteringNext, RollupNext

\* For every set of records, periods and cutoffs, every bucket length and every
\* number of builders: a rollup takes up usage that is not on record only from
\* a build that had read it before a deletion, and loses usage only to builds
\* and deletions that RollupsFollowFacts names.
THEOREM RollupsFollow == MeteringSpec => RollupsFollowFacts
<1>1. MeterInv /\ [MeteringNext]_meteringVars => MeterInv'
  <2>1. ASSUME MeterInv, UNCHANGED meteringVars PROVE MeterInv'
    BY <2>1, MeterFrame DEF meteringVars
  <2> QED BY <2>1, MeterStep
<1>2. MeterInv /\ [MeteringNext]_meteringVars => [\A id \in RollupIds : Follows(id)]_meteringVars
  BY MeterStep
<1>3. RollupsFollowFacts <=> [][\A id \in RollupIds : Follows(id)]_meteringVars
  BY PTL DEF RollupsFollowFacts, Follows
<1> QED BY MeterInit, <1>1, <1>2, <1>3, PTL DEF MeteringSpec

-----------------------------------------------------------------------------
(* The knowledge base.  A document on which no two requests overlapped is    *)
(* settled unless its one request is between deleting and storing chunks.    *)

Works(w, d) == thread[w] # Free /\ thread[w].doc = d

\* Units of chunks that all belong to document d.
AllOf(d, units) == \A c \in units : c[1] = d

RequestState(t) ==
  \/ t = Free
  \/ \E d \in Documents :
       \/ t = [step |-> "update", doc |-> d]
       \/ \E j \in IngestJobs, s \in {"lookup", "run", "save"} :
            t = [step |-> s, doc |-> d, job |-> j] /\ jobs[j] # NotQueued
       \/ \E new : t = [step |-> "snapshot", doc |-> d, stores |-> new] /\ AllOf(d, new)
       \/ \E new, old :
            /\ t = [step |-> "clear", doc |-> d, stores |-> new, list |-> old]
            /\ AllOf(d, new) /\ AllOf(d, old)

JobRow(r) == \E s : \E d \in Documents : r = [status |-> s, doc |-> d]

JobsKept ==
  /\ DOMAIN jobs = IngestJobs
  /\ \A j \in IngestJobs : jobs[j] = NotQueued \/ JobRow(jobs[j])

KnowledgeTyped ==
  /\ DOMAIN thread = Threads /\ DOMAIN latest = Documents /\ JobsKept
  /\ \A w \in Threads : RequestState(thread[w])

Settled(d) == ListedFor(d) = latest[d] /\ (latest[d] # {} => d \in documents)

Progress(t, d) ==
  /\ t.step \in {"update", "lookup", "run", "save"} => Settled(d)
  /\ t.step \in {"run", "save"} => d \in documents
  /\ t.step \in {"snapshot", "clear"} /\ t.stores # {} => d \in documents
  /\ t.step = "clear" => t.list = ListedFor(d)

DocumentKept(d) ==
  d \notin contended =>
    /\ \A v, w \in Threads : Works(v, d) /\ Works(w, d) => v = w
    /\ (\A w \in Threads : ~ Works(w, d)) => Settled(d)
    /\ \A w \in Threads : Works(w, d) => Progress(thread[w], d)

KnowledgeInv == KnowledgeTyped /\ \A d \in Documents : DocumentKept(d)

\* A request that works on document e, or begins to, goes on to state s.
Moves(w, e, s) ==
  /\ thread[w] = Free \/ Works(w, e)
  /\ s = Free \/ s.doc = e
  /\ thread' = [thread EXCEPT ![w] = s]

LEMMA MoveOthers ==
  ASSUME KnowledgeTyped, NEW w \in Threads, NEW e, NEW s, Moves(w, e, s)
  PROVE  /\ thread'[w] = s /\ \A v \in Threads : v # w => thread'[v] = thread[v]
         /\ \A v \in Threads, d \in Documents \ {e} :
              (Works(v, d)' <=> Works(v, d)) /\ (Works(v, d) => thread'[v] = thread[v])
         /\ \A v \in Threads : v # w => (Works(v, e)' <=> Works(v, e))
         /\ Works(w, e)' <=> s # Free
<1>1. thread'[w] = s /\ \A v \in Threads : v # w => thread'[v] = thread[v]
  BY DEF Moves, KnowledgeTyped
<1> QED BY <1>1 DEF Moves, Works

LEMMA MoveTyped ==
  ASSUME KnowledgeTyped, NEW w \in Threads, NEW s, thread' = [thread EXCEPT ![w] = s],
         RequestState(s)', DOMAIN latest' = Documents, JobsKept',
         \A j \in IngestJobs : jobs[j] # NotQueued => jobs'[j] # NotQueued
  PROVE  KnowledgeTyped'
<1>1. \A t : RequestState(t) => RequestState(t)'
  BY DEF RequestState
<1>2. /\ DOMAIN thread' = Threads /\ thread'[w] = s
      /\ \A v \in Threads : v # w => thread'[v] = thread[v]
  BY DEF KnowledgeTyped
<1>3. ASSUME NEW v \in Threads PROVE RequestState(thread[v])'
  <2>1. PICK t : t = thread'[v]
    OBVIOUS
  <2>2. RequestState(t)'
    BY <1>1, <1>2, <2>1 DEF KnowledgeTyped
  <2> QED BY <2>1, <2>2 DEF RequestState
<1> QED BY <1>2, <1>3 DEF KnowledgeTyped

\* A step of a request on document e, seen from the other documents.
LEMMA OneDocument ==
  ASSUME KnowledgeInv, NEW w \in Threads, NEW e \in Documents, NEW s, Moves(w, e, s),
         \A d \in Documents \ {e} :
           /\ ListedFor(d)' = ListedFor(d) /\ latest'[d] = latest[d]
           /\ (d \in documents' <=> d \in documents) /\ (d \in contended <=> d \in contended'),
         KnowledgeTyped', DocumentKept(e)'
  PROVE  KnowledgeInv'
<1>1. ASSUME NEW d \in Documents \ {e} PROVE DocumentKept(d)'
  <2>1. \A v \in Threads :
          (Works(v, d)' <=> Works(v, d)) /\ (Works(v, d) => thread'[v] = thread[v])
    BY MoveOthers DEF KnowledgeInv
  <2>2. Settled(d) => Settled(d)'
    BY DEF Settled
  <2>3. \A v \in Threads : Works(v, d) /\ Progress(thread[v], d) => Progress(thread[v], d)'
    BY <2>1, <2>2 DEF Progress
  <2> QED BY <2>1, <2>2, <2>3 DEF KnowledgeInv, DocumentKept
<1> QED BY <1>1 DEF KnowledgeInv

\* The document of the step, when its request goes on or has ended.
LEMMA GoesOn ==
  ASSUME KnowledgeInv, NEW w \in Threads, NEW e \in Documents, NEW s, Moves(w, e, s), Works(w, e),
         contended' = contended,
         e \notin contended /\ Progress(thread[w], e) =>
           IF s = Free THEN Settled(e)' ELSE Progress(s, e)'
  PROVE  DocumentKept(e)'
<1> SUFFICES ASSUME e \notin contended
             PROVE  /\ \A u, v \in Threads : Works(u, e)' /\ Works(v, e)' => u = v
                    /\ (\A v \in Threads : ~ Works(v, e)') => Settled(e)'
                    /\ \A v \in Threads : Works(v, e)' => Progress(thread[v], e)'
  BY DEF DocumentKept
<1>1. /\ \A v \in Threads : Works(v, e) => v = w
      /\ Progress(thread[w], e)
  BY DEF KnowledgeInv, DocumentKept
<1>2. /\ thread'[w] = s /\ (Works(w, e)' <=> s # Free)
      /\ \A v \in Threads : v # w => (Works(v, e)' <=> Works(v, e))
  BY MoveOthers DEF KnowledgeInv
<1>3. \A v \in Threads : Works(v, e)' => v = w
  BY <1>1, <1>2
<1>4. CASE s = Free
  BY <1>1, <1>2, <1>3, <1>4
<1>5. CASE s # Free
  BY <1>1, <1>2, <1>3, <1>5 DEF Progress
<1> QED BY <1>4, <1>5

LEMMA Begins ==
  ASSUME KnowledgeInv, NEW w \in Threads, NEW e \in Documents, NEW s, s # Free, s.doc = e,
         Begin(w, e, s), Settled(e) => Progress(s, e)'
  PROVE  Moves(w, e, s) /\ DocumentKept(e)'
<1>1. Moves(w, e, s) /\ thread[w] = Free
  BY DEF Begin, Moves
<1>2. SUFFICES ASSUME e \notin contended' PROVE DocumentKept(e)'
  BY <1>1 DEF DocumentKept
<1>3. e \notin contended /\ \A v \in Threads : ~ Works(v, e)
  BY <1>2 DEF Begin, Busy, Works
<1>4. Settled(e)
  BY <1>3 DEF KnowledgeInv, DocumentKept
<1>5. /\ thread'[w] = s /\ Works(w, e)'
      /\ \A v \in Threads : v # w => (Works(v, e)' <=> Works(v, e))
  BY <1>1, MoveOthers DEF KnowledgeInv
<1>6. \A v \in Threads : Works(v, e)' => v = w
  BY <1>3, <1>5
<1>7. Progress(thread[w], e)'
  BY <1>4, <1>5 DEF Progress
<1> QED BY <1>5, <1>6, <1>7 DEF DocumentKept

LEMMA RequestBegins ==
  ASSUME KnowledgeInv, NEW w \in Threads,
         \/ \E d \in Documents : UpdateReads(w, d) \/ DeleteDocument(w, d)
         \/ \E j \in IngestJobs : ProcessJob(w, j)
  PROVE  KnowledgeInv'
<1>0. KnowledgeTyped
  BY DEF KnowledgeInv
<1>1. ASSUME NEW e \in Documents, UpdateReads(w, e) PROVE KnowledgeInv'
  <2>1. PICK s : s = [step |-> "update", doc |-> e]
    OBVIOUS
  <2>2. /\ Begin(w, e, s) /\ UNCHANGED <<documents, jobs, chunks, latest>>
        /\ contended' \in {contended, contended \cup {e}}
    BY <1>1, <2>1 DEF UpdateReads, Begin
  <2>3. s # Free /\ s.doc = e
    BY <2>1 DEF Free
  <2>4. Settled(e) => Progress(s, e)'
    BY <2>1, <2>2 DEF Progress, Settled, ListedFor
  <2>5. Moves(w, e, s) /\ DocumentKept(e)'
    BY <2>2, <2>3, <2>4, Begins
  <2>6. KnowledgeTyped'
    <3>1. RequestState(s)'
      BY <2>1 DEF RequestState
    <3> QED BY <1>0, <2>2, <2>5, <3>1, MoveTyped DEF KnowledgeTyped, JobsKept, Moves
  <2>7. \A d \in Documents \ {e} : ListedFor(d)' = ListedFor(d)
    BY <2>2 DEF ListedFor
  <2> QED BY <2>2, <2>5, <2>6, <2>7, OneDocument
<1>2. ASSUME NEW e \in Documents, DeleteDocument(w, e) PROVE KnowledgeInv'
  <2>1. PICK s : s = [step |-> "snapshot", doc |-> e, stores |-> {}]
    OBVIOUS
  <2>2. /\ Begin(w, e, s) /\ UNCHANGED <<jobs, chunks>>
        /\ documents' = documents \ {e} /\ latest' = [latest EXCEPT ![e] = {}]
        /\ contended' \in {contended, contended \cup {e}}
    BY <1>2, <2>1 DEF DeleteDocument, Begin
  <2>3. s # Free /\ s.doc = e
    BY <2>1 DEF Free
  <2>4. Settled(e) => Progress(s, e)'
    BY <2>1 DEF Progress
  <2>5. Moves(w, e, s) /\ DocumentKept(e)'
    BY <2>2, <2>3, <2>4, Begins
  <2>6. KnowledgeTyped'
    <3>0. AllOf(e, {})
      BY DEF AllOf
    <3>1. RequestState(s)'
      BY <2>1, <3>0 DEF RequestState
    <3> QED BY <1>0, <2>2, <2>5, <3>1, MoveTyped DEF KnowledgeTyped, JobsKept, Moves
  <2>7. \A d \in Documents \ {e} : ListedFor(d)' = ListedFor(d) /\ latest'[d] = latest[d]
    BY <2>2, <1>0 DEF ListedFor, KnowledgeTyped
  <2> QED BY <2>2, <2>5, <2>6, <2>7, OneDocument
<1>3. ASSUME NEW j \in IngestJobs, ProcessJob(w, j) PROVE KnowledgeInv'
  <2>0. PICK e \in Documents : e = jobs[j].doc
    BY <1>0, <1>3 DEF ProcessJob, KnowledgeTyped, JobsKept, JobRow
  <2>1. PICK s : s = [step |-> "lookup", doc |-> e, job |-> j]
    OBVIOUS
  <2>2. /\ Begin(w, e, s) /\ UNCHANGED <<documents, jobs, chunks, latest>>
        /\ contended' \in {contended, contended \cup {e}} /\ jobs[j] # NotQueued
    BY <1>3, <2>0, <2>1 DEF ProcessJob, Begin
  <2>3. s # Free /\ s.doc = e
    BY <2>1 DEF Free
  <2>4. Settled(e) => Progress(s, e)'
    BY <2>1, <2>2 DEF Progress, Settled, ListedFor
  <2>5. Moves(w, e, s) /\ DocumentKept(e)'
    BY <2>2, <2>3, <2>4, Begins
  <2>6. KnowledgeTyped'
    <3>1. RequestState(s)'
      BY <2>1, <2>2 DEF RequestState
    <3> QED BY <1>0, <2>2, <2>5, <3>1, MoveTyped DEF KnowledgeTyped, JobsKept, Moves
  <2>7. \A d \in Documents \ {e} : ListedFor(d)' = ListedFor(d)
    BY <2>2 DEF ListedFor
  <2> QED BY <2>2, <2>5, <2>6, <2>7, OneDocument
<1> QED BY <1>1, <1>2, <1>3

\* The status of a queued job changes.
LEMMA JobChanges ==
  ASSUME KnowledgeTyped, NEW j \in IngestJobs, jobs[j] # NotQueued, NEW x,
         jobs' = [jobs EXCEPT ![j].status = x]
  PROVE  /\ JobsKept' /\ \A k \in IngestJobs : jobs[k] # NotQueued => jobs'[k] # NotQueued
<1>0. PICK s : \E d \in Documents : jobs[j] = [status |-> s, doc |-> d]
  BY DEF KnowledgeTyped, JobsKept, JobRow
<1>1. PICK d \in Documents : jobs[j] = [status |-> s, doc |-> d]
  BY <1>0
<1>2. PICK r : r = [status |-> x, doc |-> d]
  OBVIOUS
<1>3. jobs' = [jobs EXCEPT ![j] = r]
  <2>1. jobs' = [jobs EXCEPT ![j] = [jobs[j] EXCEPT !.status = x]]
    BY DEF KnowledgeTyped, JobsKept
  <2>2. [jobs[j] EXCEPT !.status = x] = r
    BY <1>1, <1>2
  <2> QED BY <2>1, <2>2
<1>4. r # NotQueued
  <2>1. DOMAIN r = {"status", "doc"} /\ DOMAIN NotQueued = {"status"}
    BY <1>2 DEF NotQueued
  <2> QED BY <2>1
<1>5. /\ DOMAIN jobs' = IngestJobs /\ jobs'[j] = r
      /\ \A k \in IngestJobs : k # j => jobs'[k] = jobs[k]
  BY <1>3 DEF KnowledgeTyped, JobsKept
<1>6. JobRow(jobs'[j])
  <2>1. JobRow(r)
    BY <1>2 DEF JobRow
  <2> QED BY <1>5, <2>1
<1>7. JobsKept'
  BY <1>5, <1>6 DEF KnowledgeTyped, JobsKept
<1> QED BY <1>4, <1>5, <1>7

\* The states of a request, one per step.
LEMMA AtUpdate ==
  ASSUME KnowledgeTyped, NEW w \in Threads, thread[w].step = "update"
  PROVE  \E d \in Documents : thread[w] = [step |-> "update", doc |-> d]
  BY DEF KnowledgeTyped, RequestState, Free

LEMMA AtJob ==
  ASSUME KnowledgeTyped, NEW w \in Threads, NEW x \in {"lookup", "run", "save"}, thread[w].step = x
  PROVE  \E d \in Documents, j \in IngestJobs :
           thread[w] = [step |-> x, doc |-> d, job |-> j] /\ jobs[j] # NotQueued
  BY DEF KnowledgeTyped, RequestState, Free

LEMMA AtSnapshot ==
  ASSUME KnowledgeTyped, NEW w \in Threads, thread[w].step = "snapshot"
  PROVE  \E d \in Documents : \E new :
           thread[w] = [step |-> "snapshot", doc |-> d, stores |-> new] /\ AllOf(d, new)
  BY DEF KnowledgeTyped, RequestState, Free

LEMMA AtClear ==
  ASSUME KnowledgeTyped, NEW w \in Threads, thread[w].step = "clear"
  PROVE  \E d \in Documents : \E new, old :
           /\ thread[w] = [step |-> "clear", doc |-> d, stores |-> new, list |-> old]
           /\ AllOf(d, new) /\ AllOf(d, old)
  BY DEF KnowledgeTyped, RequestState, Free

LEMMA UpdateStep ==
  ASSUME KnowledgeInv, NEW w \in Threads, UpdateWrites(w)
  PROVE  KnowledgeInv'
<1>0. KnowledgeTyped
  BY DEF KnowledgeInv
<1>1. PICK e \in Documents : thread[w] = [step |-> "update", doc |-> e]
  BY <1>0, AtUpdate DEF UpdateWrites
<1>2. /\ thread' = [thread EXCEPT ![w] = Free] /\ documents' = documents \cup {e}
      /\ UNCHANGED <<jobs, chunks, latest, contended>>
  BY <1>1 DEF UpdateWrites, Ends
<1>3. Works(w, e) /\ Moves(w, e, Free)
  BY <1>1, <1>2 DEF Works, Moves, Free
<1>4. Progress(thread[w], e) => Settled(e)'
  BY <1>1, <1>2 DEF Progress, Settled, ListedFor
<1>5. DocumentKept(e)'
  BY <1>2, <1>3, <1>4, GoesOn
<1>6. KnowledgeTyped'
  BY <1>0, <1>2, MoveTyped DEF KnowledgeTyped, JobsKept, RequestState
<1>7. \A d \in Documents \ {e} : ListedFor(d)' = ListedFor(d)
  BY <1>2 DEF ListedFor
<1> QED BY <1>2, <1>3, <1>5, <1>6, <1>7, OneDocument

LEMMA LookupStep ==
  ASSUME KnowledgeInv, NEW w \in Threads, LookupPending(w)
  PROVE  KnowledgeInv'
<1>0. KnowledgeTyped
  BY DEF KnowledgeInv
<1>1. PICK e \in Documents, j \in IngestJobs :
        thread[w] = [step |-> "lookup", doc |-> e, job |-> j] /\ jobs[j] # NotQueued
  BY <1>0, AtJob DEF LookupPending
<1>2. UNCHANGED <<documents, chunks, latest, contended>>
  BY DEF LookupPending
<1>3. Works(w, e) /\ thread[w].doc = e /\ thread[w].job = j /\ thread[w].step = "lookup"
  BY <1>1 DEF Works, Free
<1>4. \A d \in Documents \ {e} : ListedFor(d)' = ListedFor(d)
  BY <1>2 DEF ListedFor
<1>5. Progress(thread[w], e) => Settled(e)'
  BY <1>2, <1>3 DEF Progress, Settled, ListedFor
<1>6. CASE j \in pendingIngestions /\ e \in documents
  <2>1. PICK s : s = [step |-> "run", doc |-> e, job |-> j]
    OBVIOUS
  <2>2. thread' = [thread EXCEPT ![w] = s] /\ UNCHANGED jobs
    BY <1>0, <1>1, <1>3, <1>6, <2>1 DEF LookupPending, Goes, KnowledgeTyped
  <2>3. Moves(w, e, s) /\ s # Free
    BY <1>3, <2>1, <2>2 DEF Moves, Free
  <2>4. Progress(thread[w], e) => Progress(s, e)'
    BY <1>2, <1>5, <1>6, <2>1 DEF Progress
  <2>5. DocumentKept(e)'
    BY <1>2, <1>3, <2>3, <2>4, GoesOn
  <2>6. KnowledgeTyped'
    <3>1. RequestState(s)'
      BY <1>1, <2>1, <2>2 DEF RequestState
    <3> QED BY <1>0, <1>2, <2>2, <3>1, MoveTyped DEF KnowledgeTyped, JobsKept
  <2> QED BY <1>2, <1>4, <2>3, <2>5, <2>6, OneDocument
<1>7. CASE ~ (j \in pendingIngestions /\ e \in documents)
  <2>1. thread' = [thread EXCEPT ![w] = Free] /\ jobs' = [jobs EXCEPT ![j].status = "failed"]
    BY <1>3, <1>7 DEF LookupPending, Ends
  <2>2. Moves(w, e, Free)
    BY <1>3, <2>1 DEF Moves
  <2>3. DocumentKept(e)'
    BY <1>2, <1>3, <1>5, <2>2, GoesOn
  <2>4. KnowledgeTyped'
    <3>1. RequestState(Free)'
      BY DEF RequestState
    <3>2. JobsKept' /\ \A k \in IngestJobs : jobs[k] # NotQueued => jobs'[k] # NotQueued
      BY <1>0, <1>1, <2>1, JobChanges
    <3>3. DOMAIN latest' = Documents
      BY <1>0, <1>2 DEF KnowledgeTyped
    <3> QED BY <1>0, <2>1, <3>1, <3>2, <3>3, MoveTyped
  <2> QED BY <1>2, <1>4, <2>2, <2>3, <2>4, OneDocument
<1> QED BY <1>6, <1>7

LEMMA RunAndSave ==
  ASSUME KnowledgeInv, NEW w \in Threads, MarkRunning(w) \/ SaveIngestion(w)
  PROVE  KnowledgeInv'
<1>0. KnowledgeTyped
  BY DEF KnowledgeInv
<1>1. PICK x \in {"run", "save"} : thread[w].step = x
  BY DEF MarkRunning, SaveIngestion
<1>2. PICK e \in Documents, j \in IngestJobs :
        thread[w] = [step |-> x, doc |-> e, job |-> j] /\ jobs[j] # NotQueued
  <2>1. CASE x = "run"
    BY <1>0, <1>1, <2>1, AtJob
  <2>2. CASE x = "save"
    BY <1>0, <1>1, <2>2, AtJob
  <2> QED BY <2>1, <2>2
<1>3. UNCHANGED <<documents, chunks, latest, contended>>
  BY DEF MarkRunning, SaveIngestion
<1>4. Works(w, e) /\ thread[w].doc = e /\ thread[w].job = j
  BY <1>2 DEF Works, Free
<1>5. PICK y \in {"running", "completed"} : jobs' = [jobs EXCEPT ![j].status = y]
  BY <1>4 DEF MarkRunning, SaveIngestion
<1>6. Progress(thread[w], e) => Settled(e)' /\ e \in documents'
  BY <1>1, <1>3 DEF Progress, Settled, ListedFor
<1>7. PICK s : /\ thread' = [thread EXCEPT ![w] = s]
               /\ \/ s = [step |-> "save", doc |-> e, job |-> j]
                  \/ s = [step |-> "snapshot", doc |-> e, stores |-> {<<e, j, w>>}]
  <2>1. CASE MarkRunning(w)
    <3>1. thread' = [thread EXCEPT ![w] = [thread[w] EXCEPT !.step = "save"]]
      BY <1>0, <2>1 DEF MarkRunning, Goes, KnowledgeTyped
    <3>2. [thread[w] EXCEPT !.step = "save"] = [step |-> "save", doc |-> e, job |-> j]
      BY <1>2
    <3> QED BY <3>1, <3>2
  <2>2. CASE SaveIngestion(w)
    BY <1>4, <2>2 DEF SaveIngestion
  <2> QED BY <2>1, <2>2
<1>8. Moves(w, e, s) /\ s # Free
  BY <1>4, <1>7 DEF Moves, Free
<1>9. Progress(thread[w], e) => Progress(s, e)'
  BY <1>6, <1>7 DEF Progress
<1>10. DocumentKept(e)'
  BY <1>3, <1>4, <1>8, <1>9, GoesOn
<1>11. KnowledgeTyped'
  <2>1. JobsKept' /\ \A k \in IngestJobs : jobs[k] # NotQueued => jobs'[k] # NotQueued
    BY <1>0, <1>2, <1>5, JobChanges
  <2>2. RequestState(s)'
    <3>1. AllOf(e, {<<e, j, w>>})
      BY DEF AllOf
    <3> QED BY <1>2, <1>7, <2>1, <3>1 DEF RequestState
  <2>3. DOMAIN latest' = Documents
    BY <1>0, <1>3 DEF KnowledgeTyped
  <2> QED BY <1>0, <1>7, <2>1, <2>2, <2>3, MoveTyped
<1>12. \A d \in Documents \ {e} : ListedFor(d)' = ListedFor(d)
  BY <1>3 DEF ListedFor
<1> QED BY <1>3, <1>8, <1>10, <1>11, <1>12, OneDocument

LEMMA SnapshotStep ==
  ASSUME KnowledgeInv, NEW w \in Threads, Snapshot(w)
  PROVE  KnowledgeInv'
<1>0. KnowledgeTyped
  BY DEF KnowledgeInv
<1>a. PICK e \in Documents : \E new :
        thread[w] = [step |-> "snapshot", doc |-> e, stores |-> new] /\ AllOf(e, new)
  BY <1>0, AtSnapshot DEF Snapshot
<1>1. PICK new : thread[w] = [step |-> "snapshot", doc |-> e, stores |-> new] /\ AllOf(e, new)
  BY <1>a
<1>2. UNCHANGED <<documents, jobs, chunks, latest, contended>>
  BY DEF Snapshot
<1>3. PICK old : old = ListedFor(e)
  OBVIOUS
<1>4. PICK s : s = [step |-> "clear", doc |-> e, stores |-> new, list |-> old]
  OBVIOUS
<1>5. Works(w, e) /\ thread[w].doc = e /\ thread[w].stores = new /\ thread[w].step = "snapshot"
  BY <1>1 DEF Works, Free
<1>6. thread' = [thread EXCEPT ![w] = s]
  BY <1>3, <1>4, <1>5 DEF Snapshot
<1>7. Moves(w, e, s) /\ s # Free
  BY <1>4, <1>5, <1>6 DEF Moves, Free
<1>8. Progress(thread[w], e) => Progress(s, e)'
  BY <1>2, <1>3, <1>4, <1>5 DEF Progress, ListedFor
<1>9. DocumentKept(e)'
  BY <1>2, <1>5, <1>7, <1>8, GoesOn
<1>10. KnowledgeTyped'
  <2>1. RequestState(s)'
    BY ZenonT(40), <1>1, <1>3, <1>4 DEF RequestState, AllOf, ListedFor
  <2> QED BY <1>0, <1>2, <1>6, <2>1, MoveTyped DEF KnowledgeTyped, JobsKept
<1>11. \A d \in Documents \ {e} : ListedFor(d)' = ListedFor(d)
  BY <1>2 DEF ListedFor
<1> QED BY <1>2, <1>7, <1>9, <1>10, <1>11, OneDocument

LEMMA ClearStep ==
  ASSUME KnowledgeInv, NEW w \in Threads, NEW c, ClearChunk(w, c)
  PROVE  KnowledgeInv'
<1>0. KnowledgeTyped
  BY DEF KnowledgeInv
<1>a. PICK e \in Documents : \E new, old :
        /\ thread[w] = [step |-> "clear", doc |-> e, stores |-> new, list |-> old]
        /\ AllOf(e, new) /\ AllOf(e, old)
  BY <1>0, AtClear DEF ClearChunk
<1>1. PICK new, old :
        /\ thread[w] = [step |-> "clear", doc |-> e, stores |-> new, list |-> old]
        /\ AllOf(e, new) /\ AllOf(e, old)
  BY <1>a
<1>2. chunks' = chunks \ {c} /\ UNCHANGED <<documents, jobs, latest, contended>>
  BY DEF ClearChunk
<1>3. /\ Works(w, e) /\ thread[w].doc = e /\ thread[w].stores = new
      /\ thread[w].list = old /\ thread[w].step = "clear"
  BY <1>1 DEF Works, Free
<1>4. c \in old /\ c[1] = e
  BY <1>1, <1>3 DEF ClearChunk, AllOf
<1>5. \A d \in Documents \ {e} : ListedFor(d)' = ListedFor(d)
  BY <1>2, <1>4 DEF ListedFor
<1>6. CASE c \in chunks
  <2>1. PICK s : s = [step |-> "clear", doc |-> e, stores |-> new, list |-> old \ {c}]
    OBVIOUS
  <2>2. thread' = [thread EXCEPT ![w] = s]
    BY <1>0, <1>1, <1>6, <2>1 DEF ClearChunk, KnowledgeTyped
  <2>3. Moves(w, e, s) /\ s # Free
    BY <1>3, <2>1, <2>2 DEF Moves, Free
  <2>4. Progress(thread[w], e) => Progress(s, e)'
    BY <1>2, <1>3, <2>1 DEF Progress, ListedFor
  <2>5. DocumentKept(e)'
    BY <1>2, <1>3, <2>3, <2>4, GoesOn
  <2>6. KnowledgeTyped'
    <3>0. PICK rest : rest = old \ {c} /\ AllOf(e, rest)
      BY <1>1 DEF AllOf
    <3>1. RequestState(s)'
      BY <1>1, <2>1, <3>0 DEF RequestState
    <3> QED BY <1>0, <1>2, <2>2, <3>1, MoveTyped DEF KnowledgeTyped, JobsKept
  <2> QED BY <1>2, <1>5, <2>3, <2>5, <2>6, OneDocument
<1>7. CASE c \notin chunks
  <2>1. thread' = [thread EXCEPT ![w] = Free]
    BY <1>7 DEF ClearChunk, Ends
  <2>2. Moves(w, e, Free)
    BY <1>3, <2>1 DEF Moves
  <2>3. ~ Progress(thread[w], e)
    BY <1>3, <1>4, <1>7 DEF Progress, ListedFor
  <2>4. DocumentKept(e)'
    BY <1>2, <1>3, <2>2, <2>3, GoesOn
  <2>5. KnowledgeTyped'
    BY <1>0, <1>2, <2>1, MoveTyped DEF KnowledgeTyped, JobsKept, RequestState
  <2> QED BY <1>2, <1>5, <2>2, <2>4, <2>5, OneDocument
<1> QED BY <1>6, <1>7

LEMMA StoreStep ==
  ASSUME KnowledgeInv, NEW w \in Threads, StoreChunks(w)
  PROVE  KnowledgeInv'
<1>0. KnowledgeTyped
  BY DEF KnowledgeInv
<1>a. PICK e \in Documents : \E new, old :
        /\ thread[w] = [step |-> "clear", doc |-> e, stores |-> new, list |-> old]
        /\ AllOf(e, new) /\ AllOf(e, old)
  BY <1>0, AtClear DEF StoreChunks
<1>1. PICK new, old :
        /\ thread[w] = [step |-> "clear", doc |-> e, stores |-> new, list |-> old]
        /\ AllOf(e, new) /\ AllOf(e, old)
  BY <1>a
<1>2. /\ Works(w, e) /\ thread[w].doc = e /\ thread[w].stores = new
      /\ thread[w].list = old /\ thread[w].step = "clear"
  BY <1>1 DEF Works, Free
<1>3. /\ chunks' = chunks \cup new /\ old = {} /\ latest' = [latest EXCEPT ![e] = new]
      /\ thread' = [thread EXCEPT ![w] = Free] /\ UNCHANGED <<documents, jobs, contended>>
  BY <1>2 DEF StoreChunks, Ends
<1>4. DOMAIN latest' = Documents /\ latest'[e] = new
      /\ \A d \in Documents \ {e} : latest'[d] = latest[d]
  BY <1>0, <1>3 DEF KnowledgeTyped
<1>5. \A d \in Documents \ {e} : ListedFor(d)' = ListedFor(d)
  BY <1>1, <1>3 DEF ListedFor, AllOf
<1>6. Moves(w, e, Free)
  BY <1>2, <1>3 DEF Moves
<1>7. Progress(thread[w], e) => Settled(e)'
  BY <1>1, <1>2, <1>3, <1>4 DEF Progress, Settled, ListedFor, AllOf
<1>8. DocumentKept(e)'
  BY <1>2, <1>3, <1>6, <1>7, GoesOn
<1>9. KnowledgeTyped'
  BY <1>0, <1>3, <1>4, MoveTyped DEF KnowledgeTyped, JobsKept, RequestState
<1> QED BY <1>3, <1>4, <1>5, <1>6, <1>8, <1>9, OneDocument

\* CreateDocument, Enqueue and stuttering: no request moves.
LEMMA NoRequest ==
  ASSUME KnowledgeInv, UNCHANGED <<thread, chunks, latest, contended>>,
         documents \subseteq documents', JobsKept',
         \A j \in IngestJobs : jobs[j] # NotQueued => jobs'[j] # NotQueued
  PROVE  KnowledgeInv'
<1>1. KnowledgeTyped'
  BY DEF KnowledgeInv, KnowledgeTyped, RequestState
<1>2. ASSUME NEW d \in Documents PROVE DocumentKept(d)'
  <2>1. Settled(d) => Settled(d)'
    BY DEF Settled, ListedFor
  <2>2. \A w \in Threads : Works(w, d)' <=> Works(w, d)
    BY DEF Works
  <2>3. \A w \in Threads : Progress(thread[w], d) => Progress(thread[w], d)'
    BY <2>1 DEF Progress, ListedFor
  <2> QED BY <2>1, <2>2, <2>3 DEF KnowledgeInv, DocumentKept
<1> QED BY <1>1, <1>2 DEF KnowledgeInv

LEMMA KnowledgeStep ==
  ASSUME KnowledgeInv, [KnowledgeNext]_knowledgeVars
  PROVE  KnowledgeInv'
<1>1. ASSUME NEW d \in Documents, CreateDocument(d) PROVE KnowledgeInv'
  BY <1>1, NoRequest DEF CreateDocument, KnowledgeInv, KnowledgeTyped, JobsKept
<1>2. ASSUME NEW d \in Documents, NEW j \in IngestJobs, Enqueue(j, d) PROVE KnowledgeInv'
  <2>1. PICK r : r = [status |-> "queued", doc |-> d]
    OBVIOUS
  <2>2. jobs' = [jobs EXCEPT ![j] = r] /\ UNCHANGED <<documents, thread, chunks, latest, contended>>
    BY <1>2, <2>1 DEF Enqueue
  <2>3. r # NotQueued
    <3>1. DOMAIN r = {"status", "doc"} /\ DOMAIN NotQueued = {"status"}
      BY <2>1 DEF NotQueued
    <3> QED BY <3>1
  <2>4. JobsKept
    BY DEF KnowledgeInv, KnowledgeTyped
  <2>5. /\ DOMAIN jobs' = IngestJobs /\ jobs'[j] = r
        /\ \A k \in IngestJobs : k # j => jobs'[k] = jobs[k]
    BY <2>2, <2>4 DEF JobsKept
  <2>6. JobsKept' /\ \A k \in IngestJobs : jobs[k] # NotQueued => jobs'[k] # NotQueued
    <3>1. JobRow(r)
      BY <2>1 DEF JobRow
    <3>2. JobsKept'
      BY <2>4, <2>5, <3>1 DEF JobsKept
    <3> QED BY <2>3, <2>5, <3>2
  <2> QED BY <2>2, <2>6, NoRequest
<1>3. CASE UNCHANGED knowledgeVars
  BY <1>3, NoRequest DEF knowledgeVars, KnowledgeInv, KnowledgeTyped, JobsKept
<1> QED BY <1>1, <1>2, <1>3, RequestBegins, UpdateStep, LookupStep, RunAndSave, SnapshotStep,
           ClearStep, StoreStep DEF KnowledgeNext

\* For every number of documents, jobs and requests at the same time: when the
\* requests on a document did not overlap, its chunks are those of the last run,
\* whatever requests on other documents do meanwhile.
THEOREM IndexCorrect == KnowledgeSpec => []IndexMatchesDocument
<1>1. KnowledgeInit => KnowledgeInv
  <2> SUFFICES ASSUME KnowledgeInit PROVE KnowledgeInv
    OBVIOUS
  <2>1. /\ thread = [w \in Threads |-> Free] /\ latest = [d \in Documents |-> {}] /\ chunks = {}
        /\ jobs = [j \in IngestJobs |-> NotQueued]
    BY DEF KnowledgeInit
  <2>2. KnowledgeTyped
    BY <2>1 DEF KnowledgeTyped, JobsKept, RequestState
  <2>3. \A d \in Documents : Settled(d) /\ \A w \in Threads : ~ Works(w, d)
    BY <2>1 DEF Settled, ListedFor, Works
  <2> QED BY <2>2, <2>3 DEF KnowledgeInv, DocumentKept
<1>2. KnowledgeInv => IndexMatchesDocument
  BY DEF KnowledgeInv, DocumentKept, Settled, ListedFor, Works, Busy, IndexMatchesDocument
<1>3. KnowledgeInv /\ [KnowledgeNext]_knowledgeVars => KnowledgeInv'
  BY KnowledgeStep
<1> QED BY <1>1, <1>2, <1>3, PTL DEF KnowledgeSpec

-----------------------------------------------------------------------------
(* The validator against reachability.  Both are about numbers of steps: a    *)
(* set of numbers that break a claim has a smallest member.                   *)

LEMMA SmallestNumber ==
  ASSUME NEW B \in SUBSET Nat, B # {}
  PROVE  \E n \in B : \A m \in B : n <= m
<1>1. PICK n \in B : \A m \in B : ~ (<<m, n>> \in OpToRel(<, Nat))
  BY WFMin, NatLessThanWellFounded
<1>2. \A m \in B : ~ (m < n)
  BY <1>1 DEF OpToRel
<1> QED BY <1>2

\* The nodes one edge further on, v excepted.
Onward(s, v, E) == s \cup {e[2] : e \in {f \in E : f[1] \in s /\ f[2] # v}}

Spreads(g, v, E) ==
  g = [n \in Nat |-> IF n = 0 THEN {StartNode} ELSE Onward(g[n - 1], v, E)]

SpreadsTo(g, top, v, E) ==
  g = [n \in 0 .. top |-> IF n = 0 THEN {StartNode} ELSE Onward(g[n - 1], v, E)]

LEMMA SpreadUnique ==
  ASSUME NEW v, NEW E, NEW j \in Nat, NEW k \in Nat, NEW g, NEW h,
         SpreadsTo(g, j, v, E), SpreadsTo(h, k, v, E)
  PROVE  \A n \in Nat : n <= j /\ n <= k => g[n] = h[n]
<1> DEFINE B == {n \in Nat : n <= j /\ n <= k /\ g[n] # h[n]}
<1> SUFFICES ASSUME B # {} PROVE FALSE
  OBVIOUS
<1>1. PICK n \in B : \A m \in B : n <= m
  BY SmallestNumber
<1>2. n \in 0 .. j /\ n \in 0 .. k
  OBVIOUS
<1>3. /\ g[n] = IF n = 0 THEN {StartNode} ELSE Onward(g[n - 1], v, E)
      /\ h[n] = IF n = 0 THEN {StartNode} ELSE Onward(h[n - 1], v, E)
  BY <1>2 DEF SpreadsTo
<1>4. n # 0
  BY <1>3
<1>5. n - 1 \in Nat /\ n - 1 \notin B
  BY <1>1, <1>4
<1>6. g[n - 1] = h[n - 1]
  BY <1>5
<1> QED BY <1>3, <1>4, <1>6

LEMMA SpreadToExists ==
  ASSUME NEW v, NEW E, NEW top \in Nat
  PROVE  \E g : SpreadsTo(g, top, v, E)
<1> DEFINE B == {n \in Nat : ~ \E g : SpreadsTo(g, n, v, E)}
<1> SUFFICES ASSUME B # {} PROVE FALSE
  OBVIOUS
<1>1. PICK n \in B : \A m \in B : n <= m
  BY SmallestNumber
<1>2. CASE n = 0
  <2> DEFINE h == [m \in 0 .. 0 |-> {StartNode}]
  <2>1. h = [m \in 0 .. 0 |-> IF m = 0 THEN {StartNode} ELSE Onward(h[m - 1], v, E)]
    OBVIOUS
  <2> QED BY <1>1, <1>2, <2>1 DEF SpreadsTo
<1>3. CASE n # 0
  <2>1. n - 1 \in Nat /\ n - 1 \notin B
    BY <1>1, <1>3
  <2>2. PICK g : SpreadsTo(g, n - 1, v, E)
    BY <2>1
  <2> DEFINE h == [m \in 0 .. n |-> IF m = n THEN Onward(g[n - 1], v, E) ELSE g[m]]
  <2>3. ASSUME NEW m \in 0 .. n
        PROVE  h[m] = IF m = 0 THEN {StartNode} ELSE Onward(h[m - 1], v, E)
    <3>1. CASE m = n
      <4>1. n - 1 \in 0 .. n /\ n - 1 # n
        BY <2>1
      <4>2. h[n - 1] = g[n - 1]
        BY <4>1
      <4>3. h[m] = Onward(g[n - 1], v, E)
        BY <3>1
      <4> QED BY <1>3, <3>1, <4>2, <4>3
    <3>2. CASE m # n
      <4>1. m \in 0 .. (n - 1)
        BY <3>2
      <4>2. h[m] = g[m]
        BY <3>2
      <4>3. g[m] = IF m = 0 THEN {StartNode} ELSE Onward(g[m - 1], v, E)
        BY <2>2, <4>1 DEF SpreadsTo
      <4>4. m # 0 => m - 1 \in 0 .. n /\ m - 1 # n
        BY <4>1
      <4>5. m # 0 => h[m - 1] = g[m - 1]
        BY <4>4
      <4> HIDE DEF h
      <4> QED BY <4>2, <4>3, <4>5
    <3> QED BY <3>1, <3>2
  <2>4. h = [m \in 0 .. n |-> h[m]]
    OBVIOUS
  <2> HIDE DEF h
  <2>5. SpreadsTo(h, n, v, E)
    BY <2>3, <2>4 DEF SpreadsTo
  <2> QED BY <1>1, <2>5
<1> QED BY <1>2, <1>3

LEMMA SpreadExists ==
  ASSUME NEW v, NEW E
  PROVE  \E g : Spreads(g, v, E)
<1> DEFINE Part(n) == CHOOSE g : SpreadsTo(g, n, v, E)
           G == [n \in Nat |-> Part(n)[n]]
<1>1. \A n \in Nat : SpreadsTo(Part(n), n, v, E)
  BY SpreadToExists
<1> HIDE DEF Part
<1>2. ASSUME NEW n \in Nat
      PROVE  G[n] = IF n = 0 THEN {StartNode} ELSE Onward(G[n - 1], v, E)
  <2>1. n \in 0 .. n
    OBVIOUS
  <2>2. Part(n)[n] = IF n = 0 THEN {StartNode} ELSE Onward(Part(n)[n - 1], v, E)
    BY <1>1, <2>1 DEF SpreadsTo
  <2>3. CASE n # 0
    <3>1. n - 1 \in Nat /\ n - 1 <= n - 1 /\ n - 1 <= n
      BY <2>3
    <3>2. SpreadsTo(Part(n), n, v, E) /\ SpreadsTo(Part(n - 1), n - 1, v, E)
      BY <1>1, <3>1
    <3>3. Part(n)[n - 1] = Part(n - 1)[n - 1]
      BY <3>1, <3>2, SpreadUnique
    <3> QED BY <2>2, <2>3, <3>1, <3>3
  <2> QED BY <2>2, <2>3
<1>3. G = [n \in Nat |-> G[n]]
  OBVIOUS
<1> HIDE DEF G
<1>4. Spreads(G, v, E)
  BY <1>2, <1>3 DEF Spreads
<1> QED BY <1>4

\* The recursive function of Avoiding.
LEMMA AvoidingSpreads ==
  ASSUME NEW v
  PROVE  \E g : Spreads(g, v, edges) /\ Avoiding(v) = g[Cardinality(GraphNodes)]
<1>1. PICK E : E = edges
  OBVIOUS
<1> DEFINE Body(g) == [n \in Nat |-> IF n = 0 THEN {StartNode}
                         ELSE g[n - 1] \cup {e[2] : e \in {f \in E : f[1] \in g[n - 1] /\ f[2] # v}}]
           r == CHOOSE g : g = Body(g)
<1>2. Avoiding(v) = r[Cardinality(GraphNodes)]
  BY <1>1 DEF Avoiding
<1>3. \A g : Spreads(g, v, E) <=> g = Body(g)
  BY DEF Spreads, Onward
<1>4. PICK g : g = Body(g)
  BY <1>3, SpreadExists
<1> HIDE DEF Body
<1>5. r = Body(r)
  BY <1>4
<1> HIDE DEF r
<1> QED BY <1>1, <1>2, <1>3, <1>5

\* A way through the graph that repeats no node and avoids v.
Way(p, m, x, v, E) ==
  /\ p \in [1 .. m -> GraphNodes] /\ p[m] = x /\ <<StartNode, p[1]>> \in E
  /\ \A i \in 1 .. m : p[i] # v
  /\ \A i \in 1 .. m - 1 : <<p[i], p[i + 1]>> \in E
  /\ \A i, j \in 1 .. m : p[i] = p[j] => i = j

HasWay(x, v, E) == \E m \in Nat \ {0} : \E p : Way(p, m, x, v, E)

\* A way may stop early, or go on to a node it has not visited.
LEMMA WayGoesOn ==
  ASSUME NEW v, NEW E, NEW y, NEW x \in GraphNodes, HasWay(y, v, E), <<y, x>> \in E, x # v
  PROVE  HasWay(x, v, E)
<1>1. PICK m \in Nat \ {0} : \E p : Way(p, m, y, v, E)
  BY DEF HasWay
<1>2. PICK p : Way(p, m, y, v, E)
  BY <1>1
<1>3. CASE \E i \in 1 .. m : p[i] = x
  <2>1. PICK i \in 1 .. m : p[i] = x
    BY <1>3
  <2> DEFINE q == [j \in 1 .. i |-> p[j]]
  <2>2. /\ i \in Nat \ {0} /\ 1 \in 1 .. i /\ i \in 1 .. i /\ 1 \in 1 .. m
        /\ \A j \in 1 .. i : j \in 1 .. m
        /\ \A j \in 1 .. i - 1 : j \in 1 .. m - 1 /\ j \in 1 .. i /\ j + 1 \in 1 .. i
    OBVIOUS
  <2>3. \A j \in 1 .. i : q[j] = p[j]
    OBVIOUS
  <2>4. q \in [1 .. i -> GraphNodes]
    BY <1>2, <2>2 DEF Way
  <2> HIDE DEF q
  <2>5. Way(q, i, x, v, E)
    BY <1>2, <2>1, <2>2, <2>3, <2>4 DEF Way
  <2> QED BY <2>2, <2>5 DEF HasWay
<1>4. CASE ~ \E i \in 1 .. m : p[i] = x
  <2> DEFINE q == [j \in 1 .. m + 1 |-> IF j = m + 1 THEN x ELSE p[j]]
  <2>2. /\ m + 1 \in Nat \ {0} /\ 1 \in 1 .. m /\ m \in 1 .. m /\ m + 1 \in 1 .. m + 1
        /\ \A j \in 1 .. m + 1 : j # m + 1 => j \in 1 .. m
        /\ \A j \in 1 .. m : j # m + 1 /\ j \in 1 .. m + 1
    OBVIOUS
  <2>3. q[m + 1] = x /\ \A j \in 1 .. m : q[j] = p[j]
    BY <2>2
  <2>4. q \in [1 .. m + 1 -> GraphNodes]
    BY <1>2, <2>2 DEF Way
  <2> HIDE DEF q
  <2>5. <<StartNode, q[1]>> \in E /\ \A j \in 1 .. m + 1 : q[j] # v
    BY <1>2, <2>2, <2>3 DEF Way
  <2>6. \A j \in 1 .. (m + 1) - 1 : <<q[j], q[j + 1]>> \in E
    <3> TAKE j \in 1 .. (m + 1) - 1
    <3>1. CASE j = m
      BY <1>2, <2>2, <2>3, <3>1 DEF Way
    <3>2. CASE j # m
      <4>1. j \in 1 .. m - 1 /\ j \in 1 .. m /\ j + 1 \in 1 .. m
        BY <3>2
      <4> QED BY <1>2, <2>3, <4>1 DEF Way
    <3> QED BY <3>1, <3>2
  <2>7. \A i, j \in 1 .. m + 1 : q[i] = q[j] => i = j
    BY <1>2, <1>4, <2>2, <2>3 DEF Way
  <2>8. Way(q, m + 1, x, v, E)
    BY <2>3, <2>4, <2>5, <2>6, <2>7 DEF Way
  <2> QED BY <2>2, <2>8 DEF HasWay
<1> QED BY <1>3, <1>4

LEMMA FirstEdge ==
  ASSUME NEW v, NEW E, NEW x \in GraphNodes, <<StartNode, x>> \in E, x # v
  PROVE  HasWay(x, v, E)
<1> DEFINE q == [j \in 1 .. 1 |-> x]
<1>1. Way(q, 1, x, v, E)
  BY DEF Way
<1> HIDE DEF q
<1> QED BY <1>1 DEF HasWay

\* Whatever is reached without v is reached on a way without v.
LEMMA ReachedOnWay ==
  ASSUME NEW v, NEW E, NEW g, Spreads(g, v, E), \A e \in E : e = <<e[1], e[2]>> /\ e[2] \in GraphNodes
  PROVE  \A n \in Nat : \A x \in g[n] : x = StartNode \/ HasWay(x, v, E)
<1> DEFINE B == {n \in Nat : \E x \in g[n] : x # StartNode /\ ~ HasWay(x, v, E)}
<1> SUFFICES ASSUME B # {} PROVE FALSE
  OBVIOUS
<1>1. PICK n \in B : \A m \in B : n <= m
  BY SmallestNumber
<1>2. PICK x \in g[n] : x # StartNode /\ ~ HasWay(x, v, E)
  OBVIOUS
<1>3. g[n] = IF n = 0 THEN {StartNode} ELSE Onward(g[n - 1], v, E)
  BY DEF Spreads
<1>4. n # 0
  BY <1>2, <1>3
<1>5. n - 1 \in Nat /\ n - 1 \notin B
  BY <1>1, <1>4
<1>6. \A y \in g[n - 1] : y = StartNode \/ HasWay(y, v, E)
  BY <1>5
<1>7. PICK e \in E : e[1] \in g[n - 1] /\ e[2] # v /\ e[2] = x
  BY <1>2, <1>3, <1>4, <1>6 DEF Onward
<1>8. PICK y \in g[n - 1] : <<y, x>> \in E /\ x \in GraphNodes /\ x # v
  BY <1>7
<1>9. HasWay(x, v, E)
  BY <1>6, <1>8, FirstEdge, WayGoesOn
<1> QED BY <1>2, <1>9

\* What a path without v leads to is reached without v, a node a step.
LEMMA WayIsReached ==
  ASSUME NEW v, NEW E, NEW g, Spreads(g, v, E), NEW m \in Nat \ {0}, NEW p,
         <<StartNode, p[1]>> \in E, \A i \in 1 .. m : p[i] # v,
         \A i \in 1 .. m - 1 : <<p[i], p[i + 1]>> \in E
  PROVE  \A n \in Nat : n >= m => p[m] \in g[n]
<1>0. ASSUME NEW n \in Nat \ {0}, NEW y, NEW x, y \in g[n - 1], <<y, x>> \in E, x # v PROVE x \in g[n]
  <2>1. g[n] = Onward(g[n - 1], v, E)
    BY DEF Spreads
  <2>2. PICK e \in E : e[1] = y /\ e[2] = x
    BY <1>0
  <2> QED BY <1>0, <2>1, <2>2 DEF Onward
<1>1. \A i \in 1 .. m : p[i] \in g[i]
  <2> DEFINE B == {i \in Nat : i \in 1 .. m /\ p[i] \notin g[i]}
  <2> SUFFICES ASSUME B # {} PROVE FALSE
    OBVIOUS
  <2>1. PICK i \in B : \A j \in B : i <= j
    BY SmallestNumber
  <2>2. CASE i = 1
    <3>1. StartNode \in g[0]
      BY DEF Spreads
    <3>2. p[1] \in g[1]
      BY <1>0, <2>2, <3>1
    <3> QED BY <2>2, <3>2
  <2>3. CASE i # 1
    <3>1. i - 1 \in 1 .. m /\ i - 1 \notin B /\ i - 1 \in 1 .. m - 1 /\ i \in Nat \ {0} /\ (i - 1) + 1 = i
      BY <2>1, <2>3
    <3>2. p[i - 1] \in g[i - 1] /\ <<p[i - 1], p[i]>> \in E /\ p[i] # v
      BY <3>1
    <3>3. p[i] \in g[i]
      BY <1>0, <3>1, <3>2
    <3> QED BY <3>3
  <2> QED BY <2>2, <2>3
<1> DEFINE B == {n \in Nat : n >= m /\ p[m] \notin g[n]}
<1> SUFFICES ASSUME B # {} PROVE FALSE
  OBVIOUS
<1>2. PICK n \in B : \A k \in B : n <= k
  BY SmallestNumber
<1>3. n # m
  BY <1>1
<1>4. n - 1 \in Nat /\ n - 1 >= m /\ n - 1 \notin B /\ n # 0
  BY <1>2, <1>3
<1>5. p[m] \in g[n - 1]
  BY <1>4
<1>6. g[n] = Onward(g[n - 1], v, E)
  BY <1>4 DEF Spreads
<1> QED BY <1>5, <1>6 DEF Onward

LEMMA WayIsShort ==
  ASSUME NEW x, NEW v, NEW E, NEW m \in Nat \ {0}, NEW p, Way(p, m, x, v, E)
  PROVE  m <= Cardinality(GraphNodes)
<1>1. p \in Injection(1 .. m, GraphNodes)
  BY DEF Way, Injection, IsInjective
<1>2. IsFiniteSet(GraphNodes)
  BY GraphAssumption
<1>3. Cardinality(1 .. m) <= Cardinality(GraphNodes)
  BY <1>1, <1>2, FS_Injection
<1>4. Cardinality(1 .. m) = m
  BY FS_Interval
<1> QED BY <1>3, <1>4

LEMMA PathMembers ==
  ASSUME NEW p \in PathsToTarget
  PROVE  \E m \in Nat \ {0} :
           /\ Len(p) = m /\ m <= Cardinality(GraphNodes) /\ p \in [1 .. m -> GraphNodes] /\ p[m] = PrCreator
           /\ <<StartNode, p[1]>> \in edges /\ \A i \in 1 .. m - 1 : <<p[i], p[i + 1]>> \in edges
<1>1. p \in Candidates /\ IsPath(p)
  BY DEF PathsToTarget
<1>2. PICK m \in 1 .. Cardinality(GraphNodes) : p \in [1 .. m -> GraphNodes]
  BY <1>1 DEF Candidates
<1>3. m \in Nat \ {0} /\ m <= Cardinality(GraphNodes)
  BY <1>2, FS_CardinalityType, GraphAssumption
<1>4. Len(p) = m
  BY <1>2, <1>3
<1> QED BY <1>1, <1>2, <1>3, <1>4 DEF Candidates, IsPath

EdgesDrawn == edges \subseteq EditableEdges

\* For every set of nodes and every graph an editor can draw: the validator,
\* which looks only at paths that repeat no node, accepts no graph in which some
\* execution, cycles included, creates a pull request around a required node, and
\* refuses a graph for a missing node only when some execution misses it.
THEOREM GateDominates == GraphSpec => []RequiredNodesDominate
<1>1. GraphInit => EdgesDrawn
  BY DEF GraphInit, EdgesDrawn
<1>2. EdgesDrawn /\ [GraphNext]_edges => EdgesDrawn'
  BY DEF EdgesDrawn, GraphNext, AddEdge
<1>3. ASSUME EdgesDrawn PROVE RequiredNodesDominate
  <2>0. /\ \A e \in edges : e = <<e[1], e[2]>> /\ e[2] \in GraphNodes
        /\ Cardinality(GraphNodes) \in Nat
    BY <1>3, GraphAssumption, FS_CardinalityType DEF EdgesDrawn, EditableEdges
  <2>1. ASSUME Accepted(PathsToTarget), NEW v \in RequiredNodes \ {PrCreator}, PrCreator \in Avoiding(v)
        PROVE  FALSE
    <3>1. PICK g : Spreads(g, v, edges) /\ Avoiding(v) = g[Cardinality(GraphNodes)]
      BY AvoidingSpreads
    <3>2. \A n \in Nat : \A x \in g[n] : x = StartNode \/ HasWay(x, v, edges)
      BY <2>0, <3>1, ReachedOnWay
    <3>3. HasWay(PrCreator, v, edges)
      BY <2>0, <2>1, <3>1, <3>2 DEF PrCreator, StartNode
    <3>4. PICK m \in Nat \ {0} : \E p : Way(p, m, PrCreator, v, edges)
      BY <3>3 DEF HasWay
    <3>5. PICK p : Way(p, m, PrCreator, v, edges)
      BY <3>4
    <3>6. m \in 1 .. Cardinality(GraphNodes)
      BY <2>0, <3>5, WayIsShort
    <3>7. p \in [1 .. m -> GraphNodes] /\ Len(p) = m
      BY <3>5 DEF Way
    <3>8. p \in Candidates /\ IsPath(p)
      BY <3>5, <3>6, <3>7 DEF Way, Candidates, IsPath
    <3>9. RequiredNodes \subseteq OnPath(p)
      BY <2>1, <3>8 DEF Accepted, HasRequired, PathsToTarget
    <3> QED BY <2>1, <3>5, <3>7, <3>9 DEF OnPath, Way
  <2>2. ASSUME ~ HasRequired(PathsToTarget)
        PROVE  \E v \in RequiredNodes \ {PrCreator} : PrCreator \in Avoiding(v)
    <3>1. PICK p \in PathsToTarget : ~ (RequiredNodes \subseteq OnPath(p))
      BY <2>2 DEF HasRequired
    <3>2. PICK v \in RequiredNodes : v \notin OnPath(p)
      BY <3>1
    <3>3. PICK m \in Nat \ {0} :
           /\ Len(p) = m /\ m <= Cardinality(GraphNodes) /\ p \in [1 .. m -> GraphNodes] /\ p[m] = PrCreator
           /\ <<StartNode, p[1]>> \in edges /\ \A i \in 1 .. m - 1 : <<p[i], p[i + 1]>> \in edges
      BY PathMembers
    <3>4. \A i \in 1 .. m : p[i] # v
      BY <3>2, <3>3 DEF OnPath
    <3>5. v # PrCreator
      BY <3>3, <3>4
    <3>6. PICK g : Spreads(g, v, edges) /\ Avoiding(v) = g[Cardinality(GraphNodes)]
      BY AvoidingSpreads
    <3>7. p[m] \in g[Cardinality(GraphNodes)]
      BY <2>0, <3>3, <3>4, <3>6, WayIsReached
    <3> QED BY <3>3, <3>5, <3>6, <3>7
  <2> QED BY <2>1, <2>2 DEF RequiredNodesDominate
<1> QED BY <1>1, <1>2, <1>3, PTL DEF GraphSpec
=============================================================================
