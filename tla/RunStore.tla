------------------------------- MODULE RunStore -------------------------------
(***************************************************************************)
(* PostgresRunRepository (persistence/runs.py) with several processes on   *)
(* one run: executors that hold a copy of the run and upsert it whole, and *)
(* operators that resume it.  save and pause overwrite the row with the    *)
(* copy they were given; resume reads the row FOR UPDATE, and an upsert    *)
(* waits for that lock.                                                    *)
(***************************************************************************)
EXTENDS Naturals, FiniteSets

CONSTANTS
  Executors,      \* processes that use the repository
  MaxProgress     \* bound on the nodes a run completes

Unlocked == "nobody"

ASSUME RunStoreAssumption == MaxProgress \in Nat /\ Unlocked \notin Executors

VARIABLES
  runRow,         \* the row of runs: progress and status
  copy,           \* executor -> its TicketRunState
  resuming,       \* executor -> the row its resume read, or NotResuming
  lockedBy        \* the resume that holds the row lock

runVars == <<runRow, copy, resuming, lockedBy>>

NotResuming == [progress |-> 0, status |-> "none"]

RunInit ==
  /\ runRow = [progress |-> 0, status |-> "running"]
  /\ copy = [e \in Executors |-> runRow]
  /\ resuming = [e \in Executors |-> NotResuming]
  /\ lockedBy = Unlocked

\* load, with the context of the tenant
LoadRun(e) ==
  /\ copy' = [copy EXCEPT ![e] = runRow]
  /\ UNCHANGED <<runRow, resuming, lockedBy>>

\* The workflow works on its copy.
Work(e) ==
  /\ copy[e].progress < MaxProgress
  /\ copy' = [copy EXCEPT ![e].progress = @ + 1]
  /\ UNCHANGED <<runRow, resuming, lockedBy>>

UpsertRun(e, state) ==
  /\ lockedBy = Unlocked
  /\ runRow' = state
  /\ copy' = [copy EXCEPT ![e] = state]
  /\ UNCHANGED <<resuming, lockedBy>>

SaveRun(e) == UpsertRun(e, copy[e])

PauseRun(e) == UpsertRun(e, [copy[e] EXCEPT !.status = "paused"])

\* Mutant: a plain SELECT.
SelectPlain(e) == Unlocked

SelectForUpdate(e) == e

ResumeReads(e) ==
  /\ lockedBy = Unlocked /\ resuming[e] = NotResuming
  /\ resuming' = [resuming EXCEPT ![e] = runRow]
  /\ lockedBy' = SelectForUpdate(e)
  /\ UNCHANGED <<runRow, copy>>

\* clear_pause and the upsert commit with the read.
ResumeWrites(e) ==
  /\ resuming[e] # NotResuming /\ lockedBy \in {e, Unlocked}
  /\ runRow' = [resuming[e] EXCEPT !.status = "running"]
  /\ copy' = [copy EXCEPT ![e] = runRow']
  /\ resuming' = [resuming EXCEPT ![e] = NotResuming]
  /\ lockedBy' = Unlocked

ResumeDies(e) ==
  /\ resuming[e] # NotResuming
  /\ resuming' = [resuming EXCEPT ![e] = NotResuming]
  /\ lockedBy' = IF lockedBy = e THEN Unlocked ELSE lockedBy
  /\ UNCHANGED <<runRow, copy>>

RunNext ==
  \E e \in Executors :
    LoadRun(e) \/ Work(e) \/ SaveRun(e) \/ PauseRun(e)
      \/ ResumeReads(e) \/ ResumeWrites(e) \/ ResumeDies(e)

RunSpec == RunInit /\ [][RunNext]_runVars

\* A resume never takes back the progress an executor stored, also when the
\* executor stores while the resume is under way.
ResumeKeepsProgress ==
  [][\A e \in Executors : resuming[e] # NotResuming /\ resuming'[e] = NotResuming =>
       runRow'.progress >= runRow.progress]_runVars
=============================================================================
