------------------------------ MODULE Imports ------------------------------
(* Imports from outside: claude-mem databases (buildClaudeMemImportPlan,
   startClaudeMemImport, verifyClaudeMemImport, the mem_import_jobs table) and
   knowledge sources (GitHub issues, decisions files and ADRs, documents).
   An import runs synchronously in the daemon, one recordEvent transaction
   after the other, so only a crash can fall between two rows.  Texts are
   versions; a hash is the tuple it is computed from. *)
EXTENDS Integers, Sequences, FiniteSets

CONSTANTS
    SourceRow,      \* rows of the claude-mem database
    WithId,         \* the rows that have an id column
    WithTime,       \* the rows that have a timestamp
    SummaryRow,     \* the rows of session_summaries (the others: observations)
    PrivateRow,     \* the rows with a private tag
    Issue,          \* issues, decision sections and ADR files, by key
    Chunk,          \* chunks of documents
    MaxVersion,     \* bound: edits of a source
    MaxJobs,        \* bound: import jobs and knowledge imports
    SampleLimit,    \* ids sampled per job
    NoImport           \* no import is running

ASSUME ImportAssumption ==
    /\ WithId \cup WithTime \cup SummaryRow \cup PrivateRow \subseteq SourceRow
    /\ IsFiniteSet(SourceRow) /\ SourceRow \cap (Issue \cup Chunk) = {}
    /\ {MaxVersion, MaxJobs, SampleLimit} \subseteq Nat \ {0}

VARIABLES
    version,        \* the text of each source now
    impEvents,      \* mem_events: [id, hash]
    impRows,        \* mem_observations: [basis, event, tag, private]
    forgotten,      \* the observations archived since
    summaries,      \* sessions whose summary was written by an import
    jobs,           \* mem_import_jobs, by number
    running,        \* the import under way: [job, plan], or NoImport
    importAnswers         \* what recordEvent answered, row by row, per job (history)

importVars == <<version, impEvents, impRows, forgotten, summaries, jobs, running, importAnswers>>

Source == SourceRow \cup Issue \cup Chunk

Job(n, dry) ==
    [status |-> "running", dry |-> dry, total |-> 0, inserted |-> 0,
     deduped |-> 0, failed |-> 0, samples |-> {}]

ImportInit ==
    /\ version = [s \in Source |-> 1]
    /\ impEvents = {} /\ impRows = {} /\ forgotten = {} /\ summaries = {}
    /\ jobs = <<>> /\ running = NoImport /\ importAnswers = <<>>

------------------------------------------------------------------------------
(* buildClaudeMemImportPlan.  asIso: a row without a timestamp gets the time
   of the import, here the number of the job. *)
AsIso(r, now) == IF r \in WithTime THEN 0 ELSE now

\* A row without an id is named by a hash of its session, time and text.
SourceId(r, now) ==
    IF r \in WithId THEN <<r>> ELSE <<r, AsIso(r, now), version[r]>>

\* Mutant: the event id also hashes the timestamp.
EventIdWithTime(r, now) == <<<<SourceId(r, now), AsIso(r, now)>>>>

EventId(r, now) == <<SourceId(r, now)>>

DedupeHash(r, now) == <<SourceId(r, now), AsIso(r, now), version[r]>>

\* The events of the plan in time order (the order has no influence on what
\* is stored, so any order of the rows stands for it).
PlanEvent(r, now) ==
    [id |-> EventId(r, now), hash |-> DedupeHash(r, now), basis |-> <<r, version[r]>>,
     private |-> r \in PrivateRow]

------------------------------------------------------------------------------
(* recordEvent as imports use it (allowQueue is off): INSERT OR IGNORE on the
   event, then the look-up of a live observation with the same content. *)
KnownEvent(e) == \E k \in impEvents : k.id = e.id \/ k.hash = e.hash

Live == {o \in impRows : o \notin forgotten}

KnownContent(e) == \E o \in Live : o.basis = e.basis

Outcome(e) == IF KnownEvent(e) \/ KnownContent(e) THEN "deduped" ELSE "inserted"

StoreEvent(e, tag) ==
    /\ impEvents' = IF KnownEvent(e) THEN impEvents
                    ELSE impEvents \cup {[id |-> e.id, hash |-> e.hash]}
    /\ impRows' = IF Outcome(e) = "deduped" THEN impRows
                  ELSE impRows \cup {[basis |-> e.basis, event |-> e.id, tag |-> tag,
                                      private |-> e.private]}

------------------------------------------------------------------------------
(* The claude-mem import. *)

\* createImportJob; the plan is built from the source as it is now.
StartClaudeMemImport(dry) ==
    /\ running = NoImport /\ Len(jobs) < MaxJobs
    /\ jobs' = Append(jobs, [Job(Len(jobs) + 1, dry) EXCEPT !.total = Cardinality(SourceRow)])
    /\ importAnswers' = Append(importAnswers, [r \in {} |-> "none"])
    /\ running' = [job |-> Len(jobs) + 1, plan |-> IF dry THEN {} ELSE SourceRow]
    /\ UNCHANGED <<version, impEvents, impRows, forgotten, summaries>>

Answered(r, what) ==
    LET j == running.job
    IN  /\ importAnswers' = [importAnswers EXCEPT ![j] = [q \in DOMAIN @ \cup {r} |-> IF q = r THEN what ELSE @[q]]]
        /\ running' = [running EXCEPT !.plan = @ \ {r}]

\* One event of the plan is recorded.
ImportRow(r) ==
    /\ running # NoImport /\ r \in running.plan
    /\ LET e == PlanEvent(r, running.job)
           j == running.job
           what == Outcome(e)
       IN  /\ StoreEvent(e, j)
           /\ jobs' = [jobs EXCEPT
                 ![j].inserted = IF what = "inserted" THEN @ + 1 ELSE @,
                 ![j].deduped = IF what = "deduped" THEN @ + 1 ELSE @,
                 ![j].samples = IF what = "inserted" /\ Cardinality(@) < SampleLimit
                                THEN @ \cup {e.id} ELSE @]
           /\ Answered(r, what)
    /\ UNCHANGED <<version, forgotten, summaries>>

\* recordEvent answers an error (a write that fails, an embedding that is not
\* ready): the row is counted and passed over.
RowFails(r) ==
    /\ running # NoImport /\ r \in running.plan
    /\ jobs' = [jobs EXCEPT ![running.job].failed = @ + 1]
    /\ Answered(r, "failed")
    /\ UNCHANGED <<version, impEvents, impRows, forgotten, summaries>>

\* The summaries are upserted and the job is completed.
FinishImport ==
    /\ running # NoImport /\ running.plan = {}
    /\ summaries' = IF jobs[running.job].dry THEN summaries ELSE summaries \cup SummaryRow
    /\ jobs' = [jobs EXCEPT ![running.job].status = "completed"]
    /\ running' = NoImport
    /\ UNCHANGED <<version, impEvents, impRows, forgotten, importAnswers>>

\* The source cannot be read, or a summary cannot be written.
ImportFails ==
    /\ running # NoImport
    /\ running.plan \in {{}, SourceRow}
    /\ jobs' = [jobs EXCEPT ![running.job] = [Job(1, @.dry) EXCEPT !.status = "failed"]]
    /\ running' = NoImport
    /\ UNCHANGED <<version, impEvents, impRows, forgotten, summaries, importAnswers>>

\* A crash of the daemon: the job stays as it was written, 'running' with an
\* empty result.
ImportCrash ==
    /\ running # NoImport
    /\ jobs' = [jobs EXCEPT ![running.job] = Job(1, @.dry)]
    /\ running' = NoImport
    /\ UNCHANGED <<version, impEvents, impRows, forgotten, summaries, importAnswers>>

\* getImportJobStatus and the two counts of verifyClaudeMemImport.
Tagged(j) == {o \in impRows : o.tag = j}

\* verifyClaudeMemImport: all checks pass.
VerifyImport(j) ==
    LET job == jobs[j]
    IN  /\ job.status = "completed"
        /\ \/ job.dry \/ job.total = 0 \/ Tagged(j) # {}
           \/ job.inserted > 0 \/ job.deduped > 0
        /\ job.samples \subseteq {o.event : o \in impRows}

------------------------------------------------------------------------------
(* Knowledge sources.  Issues are hashed by repository and number, decision
   sections by file and heading, ADRs by path: never by their text.  Their
   event ids are generated. *)
KnowledgeEvent(i, n) ==
    [id |-> <<"generated", i, n>>, hash |-> <<i>>, basis |-> <<i, version[i]>>, private |-> FALSE]

\* A chunk of a document has no hash of its own: recordEvent hashes the event,
\* its time included.
ChunkEvent(c, n) ==
    [id |-> <<"generated", c, n>>, hash |-> <<c, n, version[c]>>, basis |-> <<c, version[c]>>,
     private |-> FALSE]

Knowledge(i, e) ==
    /\ running = NoImport /\ Len(jobs) < MaxJobs
    /\ StoreEvent(e, Len(jobs) + 1)
    /\ jobs' = Append(jobs, [Job(1, FALSE) EXCEPT !.status = "knowledge"])
    /\ importAnswers' = Append(importAnswers, [r \in {i} |-> Outcome(e)])
    /\ UNCHANGED <<version, forgotten, summaries, running>>

\* ingestGitHubIssues, ingestKnowledgeFile
IngestKnowledge(i) == Knowledge(i, KnowledgeEvent(i, Len(jobs)))

\* ingestDocument, and fetchAndIngestUrl and ingestAudio after their fetch
IngestChunk(c) == Knowledge(c, ChunkEvent(c, Len(jobs)))

\* Somebody edits a source; the forget policy archives an observation.
EditSource(s) ==
    /\ running = NoImport /\ version[s] < MaxVersion
    /\ version' = [version EXCEPT ![s] = @ + 1]
    /\ UNCHANGED <<impEvents, impRows, forgotten, summaries, jobs, running, importAnswers>>

ForgetRow(o) ==
    /\ running = NoImport /\ o \in Live
    /\ forgotten' = forgotten \cup {o}
    /\ UNCHANGED <<version, impEvents, impRows, summaries, jobs, running, importAnswers>>

ImportNext ==
    \/ \E dry \in BOOLEAN : StartClaudeMemImport(dry)
    \/ \E r \in SourceRow : ImportRow(r) \/ RowFails(r)
    \/ FinishImport \/ ImportFails \/ ImportCrash
    \/ \E i \in Issue : IngestKnowledge(i)
    \/ \E c \in Chunk : IngestChunk(c)
    \/ \E s \in Source : EditSource(s)
    \/ \E o \in impRows : ForgetRow(o)

ImportSpec == ImportInit /\ [][ImportNext]_importVars

------------------------------------------------------------------------------
(* However often an import is repeated, completed or cut by a crash, edited
   rows in between or not, one text of one source is at most once among the
   live observations. *)
ImportedOnce == \A o, p \in Live : o.basis = p.basis => o = p

(* Importing again does not bring back what was forgotten: of a text whose
   row has an id or a timestamp, an archived observation is the only one. *)
ForgottenStay ==
    \A o \in forgotten, p \in impRows :
        (o.basis = p.basis /\ o.basis[1] \in WithId \cup WithTime) => o = p

(* The counts of a completed job are what recordEvent answered, and they
   account for every row of the plan: none is passed over in silence. *)
CountsAddUp ==
    \A j \in 1 .. Len(jobs) : (jobs[j].status = "completed" /\ ~jobs[j].dry) =>
        /\ jobs[j].inserted + jobs[j].deduped + jobs[j].failed = jobs[j].total
        /\ DOMAIN importAnswers[j] = SourceRow

(* "Stop Claude-mem only after verification passes" (docs/harness-mem-setup.md:339):
   an import that verifies
   left some row of its source in the log, unless it was a dry run or there was
   nothing to import.  A job all of whose rows failed, one that a crash cut and
   one that failed to write its result do not verify. *)
VerifiedRecorded ==
    \A j \in 1 .. Len(jobs) : (VerifyImport(j) /\ ~jobs[j].dry /\ SourceRow # {}) =>
        \E r \in DOMAIN importAnswers[j] : importAnswers[j][r] # "failed"

\* Imports can be repeated and their reports can be relied on: nothing twice,
\* nothing brought back, counts that add up and a verification that means
\* something, through edits, crashes and failing rows.
ImportsSound == ImportedOnce /\ ForgottenStay /\ CountsAddUp /\ VerifiedRecorded
==============================================================================
