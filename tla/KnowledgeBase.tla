---------------------------- MODULE KnowledgeBase ----------------------------
(***************************************************************************)
(* KnowledgeRepository and KnowledgeIngestionService                       *)
(* (knowledge/service.py) under the routes of knowledge/api.py.  The       *)
(* routes are plain functions, so requests run in threads on dictionaries  *)
(* without a lock: a step here is one dictionary operation, or several     *)
(* that no other thread can tell apart.                                    *)
(*                                                                         *)
(* The chunks one run builds are inserted as a unit; units are deleted one *)
(* by one, from a list copied before.                                      *)
(***************************************************************************)
EXTENDS Naturals, FiniteSets

CONSTANTS
  Documents, IngestJobs,
  Threads               \* requests that run at the same time

VARIABLES
  newIds,        \* uuids not yet used
  documents,     \* ids in KnowledgeRepository.documents
  jobs,          \* job -> status and document, or NotQueued
  pendingIngestions,
  chunks,        \* units of chunks: <<document, job, thread>>
  thread,        \* what every request is doing
  latest,        \* history: document -> the unit a run stored last, or none
  contended      \* history: documents on which two requests overlapped

knowledgeVars == <<newIds, documents, jobs, pendingIngestions, chunks, thread, latest, contended>>

NotQueued == [status |-> "none"]
Free == [step |-> "idle"]

KnowledgeInit ==
  /\ newIds = Documents /\ documents = {} /\ jobs = [j \in IngestJobs |-> NotQueued]
  /\ pendingIngestions = {} /\ chunks = {}
  /\ thread = [w \in Threads |-> Free]
  /\ latest = [d \in Documents |-> {}] /\ contended = {}

Busy(d) == \E w \in Threads : thread[w] # Free /\ thread[w].doc = d

\* A request begins to work on document d.
Begin(w, d, state) ==
  /\ thread[w] = Free
  /\ thread' = [thread EXCEPT ![w] = state]
  /\ contended' = IF Busy(d) THEN contended \cup {d} ELSE contended

Goes(w, step) == thread' = [thread EXCEPT ![w].step = step]
Ends(w) == thread' = [thread EXCEPT ![w] = Free]

-----------------------------------------------------------------------------
(* Documents *)

\* create_document makes up an id that never comes back.
CreateDocument(d) ==
  /\ d \in newIds
  /\ newIds' = newIds \ {d}
  /\ documents' = documents \cup {d}
  /\ UNCHANGED <<jobs, pendingIngestions, chunks, thread, latest, contended>>

UpdateReads(w, d) ==
  /\ d \in documents
  /\ Begin(w, d, [step |-> "update", doc |-> d])
  /\ UNCHANGED <<newIds, documents, jobs, pendingIngestions, chunks, latest>>

\* The copy is stored whether or not the document is still there.
UpdateWrites(w) ==
  /\ thread[w].step = "update"
  /\ documents' = documents \cup {thread[w].doc}
  /\ Ends(w)
  /\ UNCHANGED <<newIds, jobs, pendingIngestions, chunks, latest, contended>>

\* delete_document: the entry goes first, then its chunks.
DeleteDocument(w, d) ==
  /\ d \in documents
  /\ Begin(w, d, [step |-> "snapshot", doc |-> d, stores |-> {}])
  /\ documents' = documents \ {d}
  /\ latest' = [latest EXCEPT ![d] = {}]
  /\ UNCHANGED <<newIds, jobs, pendingIngestions, chunks>>

-----------------------------------------------------------------------------
(* Ingestion *)

\* enqueue
Enqueue(j, d) ==
  /\ d \in documents /\ jobs[j] = NotQueued
  /\ jobs' = [jobs EXCEPT ![j] = [status |-> "queued", doc |-> d]]
  /\ pendingIngestions' = pendingIngestions \cup {j}
  /\ UNCHANGED <<newIds, documents, chunks, thread, latest, contended>>

Completed(j) == jobs[j].status = "completed"

\* process_job: a job that is completed is returned as it is.
ProcessJob(w, j) ==
  /\ jobs[j] # NotQueued /\ ~ Completed(j)
  /\ Begin(w, jobs[j].doc, [step |-> "lookup", doc |-> jobs[j].doc, job |-> j])
  /\ UNCHANGED <<newIds, documents, jobs, pendingIngestions, chunks, latest>>

\* get_pending_ingestion needs both the pending entry and the document.
LookupPending(w) ==
  /\ thread[w].step = "lookup"
  /\ IF thread[w].job \in pendingIngestions /\ thread[w].doc \in documents
     THEN Goes(w, "run") /\ UNCHANGED jobs
     ELSE /\ jobs' = [jobs EXCEPT ![thread[w].job].status = "failed"]
          /\ Ends(w)
  /\ UNCHANGED <<newIds, documents, pendingIngestions, chunks, latest, contended>>

MarkRunning(w) ==
  /\ thread[w].step = "run"
  /\ jobs' = [jobs EXCEPT ![thread[w].job].status = "running"]
  /\ Goes(w, "save")
  /\ UNCHANGED <<newIds, documents, pendingIngestions, chunks, latest, contended>>

\* save_ingestion: the job is completed before its chunks are there.
SaveIngestion(w) ==
  /\ thread[w].step = "save"
  /\ LET t == thread[w]
     IN  /\ jobs' = [jobs EXCEPT ![t.job].status = "completed"]
         /\ pendingIngestions' = pendingIngestions \ {t.job}
         /\ thread' = [thread EXCEPT ![w] =
              [step |-> "snapshot", doc |-> t.doc, stores |-> {<<t.doc, t.job, w>>}]]
  /\ UNCHANGED <<newIds, documents, chunks, latest, contended>>

\* Mutant: the document is not compared.
EveryChunk(d) == chunks

ListedFor(d) == {c \in chunks : c[1] = d}

\* list(self.chunks.items())
Snapshot(w) ==
  /\ thread[w].step = "snapshot"
  /\ thread' = [thread EXCEPT ![w] =
       [step |-> "clear", doc |-> @.doc, stores |-> @.stores, list |-> ListedFor(@.doc)]]
  /\ UNCHANGED <<newIds, documents, jobs, pendingIngestions, chunks, latest, contended>>

\* A KeyError ends the request when another one has deleted the chunk.
ClearChunk(w, c) ==
  /\ thread[w].step = "clear" /\ c \in thread[w].list
  /\ chunks' = chunks \ {c}
  /\ IF c \in chunks THEN thread' = [thread EXCEPT ![w].list = @ \ {c}] ELSE Ends(w)
  /\ UNCHANGED <<newIds, documents, jobs, pendingIngestions, latest, contended>>

StoreChunks(w) ==
  /\ thread[w].step = "clear" /\ thread[w].list = {}
  /\ chunks' = chunks \cup thread[w].stores
  /\ latest' = [latest EXCEPT ![thread[w].doc] = thread[w].stores]
  /\ Ends(w)
  /\ UNCHANGED <<newIds, documents, jobs, pendingIngestions, contended>>

-----------------------------------------------------------------------------
KnowledgeNext ==
  \/ \E d \in Documents : CreateDocument(d) \/ \E j \in IngestJobs : Enqueue(j, d)
  \/ \E w \in Threads :
       \/ UpdateWrites(w) \/ LookupPending(w) \/ MarkRunning(w) \/ SaveIngestion(w)
       \/ Snapshot(w) \/ StoreChunks(w)
       \/ \E c \in chunks \cup (IF thread[w].step = "clear" THEN thread[w].list ELSE {}) :
            ClearChunk(w, c)
       \/ \E d \in Documents : UpdateReads(w, d) \/ DeleteDocument(w, d)
       \/ \E j \in IngestJobs : ProcessJob(w, j)

KnowledgeSpec == KnowledgeInit /\ [][KnowledgeNext]_knowledgeVars

-----------------------------------------------------------------------------
(* Properties *)

\* Requests on other documents never disturb the chunks of a document: when
\* nobody works on it and no two requests on it overlapped, it has exactly the
\* chunks of the last run, and none once it is deleted.
IndexMatchesDocument ==
  \A d \in Documents : ~ Busy(d) /\ d \notin contended =>
    /\ {c \in chunks : c[1] = d} = latest[d]
    /\ latest[d] # {} => d \in documents
=============================================================================
