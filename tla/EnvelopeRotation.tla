--------------------------- MODULE EnvelopeRotation ---------------------------
(***************************************************************************)
(* EnvelopeCipher (persistence/encryption.py) and the key rotation job of  *)
(* worker.py: values are wrapped with the active key, the job wraps again  *)
(* what is older than the rotation SLA, and a deployment changes which key *)
(* is active and which previous keys are still configured.                 *)
(*                                                                         *)
(* The job gets a list of envelopes and returns the list to store; loading *)
(* and storing it is up to the caller and taken as one step.               *)
(***************************************************************************)
EXTENDS Integers, FiniteSets

CONSTANTS
  Slots,             \* stored values
  WrappingKeys, FirstKey,
  KeySla,            \* rotation_sla_days
  MaxWrapTime        \* bound on the clock

ASSUME EnvelopeAssumption ==
  FirstKey \in WrappingKeys /\ KeySla \in Nat \ {0} /\ MaxWrapTime \in Nat

VARIABLES
  wrapTime,
  activeKey, previousKeys,
  envelopes,      \* slot -> [key, issued], or NoEnvelope
  lastActive,     \* history: key -> when it was last the active one
  swept           \* history: keys the job passed over a whole SLA after that

envelopeVars == <<wrapTime, activeKey, previousKeys, envelopes, lastActive, swept>>

NoEnvelope == [key |-> "none"]

EnvelopeInit ==
  /\ wrapTime = 0
  /\ activeKey = FirstKey /\ previousKeys = {}
  /\ envelopes = [s \in Slots |-> NoEnvelope]
  /\ lastActive = [k \in WrappingKeys |-> 0] /\ swept = {}

WrapTick ==
  /\ wrapTime < MaxWrapTime
  /\ wrapTime' = wrapTime + 1
  /\ lastActive' = [lastActive EXCEPT ![activeKey] = wrapTime']
  /\ UNCHANGED <<activeKey, previousKeys, envelopes, swept>>

Encrypted == [key |-> activeKey, issued |-> wrapTime]

\* encrypt, for a new or a changed value
Encrypt(s) ==
  /\ envelopes' = [envelopes EXCEPT ![s] = Encrypted]
  /\ UNCHANGED <<wrapTime, activeKey, previousKeys, lastActive, swept>>

\* from_env of a new deployment: another active key, the old one kept.
ActivateKey(k) ==
  /\ k # activeKey
  /\ activeKey' = k
  /\ previousKeys' = (previousKeys \cup {activeKey}) \ {k}
  /\ lastActive' = [lastActive EXCEPT ![k] = wrapTime]
  /\ swept' = swept \ {k}
  /\ UNCHANGED <<wrapTime, envelopes>>

\* A deployment that no longer lists a previous key, whatever still needs it.
DropKey(k) ==
  /\ k \in previousKeys
  /\ previousKeys' = previousKeys \ {k}
  /\ UNCHANGED <<wrapTime, activeKey, envelopes, lastActive, swept>>

\* _resolve_fernet_key
Resolvable(k) == k = activeKey \/ k \in previousKeys

\* Mutant: an envelope that reaches the deadline now is left for the next run.
DueLater(e) == wrapTime > e.issued + KeySla

RotationDue(e) == wrapTime >= e.issued + KeySla

\* rotate_stale_envelopes: one envelope whose key is gone fails the whole batch.
RotateStaleEnvelopes ==
  LET stored == {s \in Slots : envelopes[s] # NoEnvelope}
      due == {s \in stored : RotationDue(envelopes[s])}
  IN  /\ \A s \in due : Resolvable(envelopes[s].key)
      /\ envelopes' = [s \in Slots |-> IF s \in due THEN Encrypted ELSE envelopes[s]]
      /\ swept' = swept \cup {k \in WrappingKeys \ {activeKey} : wrapTime >= lastActive[k] + KeySla}
      /\ UNCHANGED <<wrapTime, activeKey, previousKeys, lastActive>>

EnvelopeNext ==
  \/ WrapTick \/ RotateStaleEnvelopes
  \/ \E s \in Slots : Encrypt(s)
  \/ \E k \in WrappingKeys : ActivateKey(k) \/ DropKey(k)

EnvelopeSpec == EnvelopeInit /\ [][EnvelopeNext]_envelopeVars

\* A key can be dropped without losing a value once a run of the job succeeded
\* a whole SLA after the key was last active: no envelope names it any more.
SweptKeysAreUnused ==
  \A s \in Slots : envelopes[s] # NoEnvelope => envelopes[s].key \notin swept
=============================================================================
