-------------------------- MODULE SchemaMigration --------------------------
(***************************************************************************)
(* What a start of the daemon does to its SQLite file (db/schema.ts):      *)
(* initSchema creates the tables that are missing, migrateSchema rebuilds  *)
(* mem_vectors and adds columns and indexes, initFtsIndex replaces the     *)
(* full-text triggers and fills the index. No transaction spans these      *)
(* statements: the process can die after any of them, and the next start   *)
(* runs the whole list again over what the last one left.                  *)
(***************************************************************************)
EXTENDS Naturals, Sequences, FiniteSets

CONSTANTS
    Row,          \* observations
    Release,      \* column sets that releases before this one left behind
    NoTable,      \* the legacy vector table does not exist
    MaxStarts     \* bound: starts of the daemon

VARIABLES
    step,         \* the statement to run next; 0: the daemon is down
    tables,       \* tables of the file
    columns,      \* columns of those tables that a migration can add
    dedupeIndex,  \* idx_mem_obs_content_dedupe_hash exists
    vectorKey,    \* "observation" or "observation and model"
    vectors,      \* observations with a row in mem_vectors
    legacy,       \* the same of mem_vectors_legacy_s70, or NoTable
    rows,         \* [id -> [text, observed]] of mem_observations
    fts,          \* [id -> text] of mem_observations_fts
    triggers,     \* the full-text triggers exist
    embedded,     \* history: observations a vector was stored for
    stranded,     \* history: what mem_vectors held when a start died rebuilding it
    starts, completed

schemaVars == <<step, tables, columns, dedupeIndex, vectorKey, vectors, legacy,
                rows, fts, triggers, embedded, stranded, starts, completed>>

----------------------------------------------------------------------------
\* The statements of a start, in the order of the code.

Create(names) == [i \in DOMAIN names |-> [do |-> "table", on |-> names[i]]]
Add(names)    == [i \in DOMAIN names |-> [do |-> "column", on |-> names[i]]]
Do(what)      == [i \in DOMAIN what |-> [do |-> what[i], on |-> ""]]

RecordTables ==
    Create(<<"mem_sessions", "mem_events", "mem_observations", "mem_tags",
             "mem_entities", "mem_observation_entities">>)
DerivedTables ==
    Create(<<"mem_links", "mem_vectors", "mem_facts", "mem_relations">>)
ServiceTables ==
    Create(<<"mem_audit_log", "mem_consolidation_queue", "mem_retry_queue",
             "mem_ingest_offsets", "mem_meta", "mem_import_jobs",
             "mem_vectors_vec_map", "mem_nuggets", "mem_nugget_vectors">>)
CoordinationTables ==
    Create(<<"mem_teams", "mem_team_members", "mem_team_invitations",
             "mem_leases", "mem_signals">>)

\* Mutant: the old table goes before its rows are copied.
VectorStepsDropFirst == Do(<<"rename", "create", "drop", "copy">>)

VectorSteps == Do(<<"rename", "create", "copy", "drop">>)

FirstColumns == Add(<<"observation_type", "correlation_id", "tenant">>)
FactAndUseColumns ==
    Add(<<"superseded_by", "fact_validity", "signal_score", "access_count",
          "user_and_team", "cognitive_sector">>)
AuditAndTypeColumns ==
    Add(<<"prev_hash", "memory_type">>)
    \o Create(<<"mem_sync_connections">>) \o Add(<<"workspace_uid">>)
TeamTablesAgain ==
    Create(<<"mem_teams", "mem_team_members", "mem_team_invitations">>)
TextColumns == Add(<<"title_fts", "content_fts">>)
NuggetTablesAgain == Create(<<"mem_nuggets", "mem_nugget_vectors">>)
DedupeSteps == Add(<<"content_dedupe_hash">>) \o Do(<<"dropIndex", "makeIndex">>)
ScopeColumns == Add(<<"raw_text", "thread_and_topic", "expires_at", "branch">>)
RelationTableAgain == Create(<<"mem_relations">>)
TemporalSteps == Add(<<"event_time", "observed_at", "invalidated_at">>)
                 \o Do(<<"backfill">>)
ArchiveColumn == Add(<<"archived_at">>)
FtsSteps == Create(<<"mem_observations_fts">>)
            \o Do(<<"dropTriggers", "makeTriggers", "fill">>)

Plan == RecordTables \o DerivedTables \o ServiceTables \o CoordinationTables
        \o VectorSteps \o FirstColumns \o FactAndUseColumns
        \o AuditAndTypeColumns \o TeamTablesAgain \o TextColumns
        \o NuggetTablesAgain \o DedupeSteps \o ScopeColumns
        \o RelationTableAgain \o TemporalSteps \o ArchiveColumn \o FtsSteps

PlanLength == Len(Plan)

Named(what) == {Plan[i].on : i \in {j \in 1..PlanLength : Plan[j].do = what}}

TableNames == Named("table")
ColumnNames == Named("column")

\* CREATE TABLE mem_observations (and the others) gives a new file these.
BaseColumns == ColumnNames \ {"signal_score", "access_count", "cognitive_sector",
                 "workspace_uid", "title_fts", "content_fts", "thread_and_topic", "branch"}

\* The tables that every earlier release had.
OldTables == {Plan[i].on : i \in 1..Len(RecordTables \o DerivedTables)}

\* Earlier releases knew no column that this one does not.
ASSUME SchemaAssumption ==
    /\ Release \subseteq SUBSET ColumnNames
    /\ \A some \in SUBSET Row : some # NoTable

Serving == step = PlanLength + 1
Text == 0..1

----------------------------------------------------------------------------

SchemaInit ==
    /\ step = 0 /\ starts = 0 /\ completed = 0
    /\ dedupeIndex = FALSE /\ legacy = NoTable
    /\ \/ /\ tables = {} /\ columns = {} /\ rows = <<>>
          /\ vectorKey = "observation and model"
       \/ /\ tables \in {OldTables, OldTables \cup {"mem_observations_fts"}}
          /\ columns \in Release
          /\ vectorKey \in {"observation", "observation and model"}
          /\ rows \in UNION
                 {[R -> [text : {0},
                         observed : {x \in BOOLEAN : x <=> "observed_at" \in columns}]] :
                     R \in SUBSET Row}
    /\ vectors \in SUBSET DOMAIN rows
    /\ embedded = vectors /\ stranded = {}
    /\ triggers = ("mem_observations_fts" \in tables)
    /\ fts = IF triggers THEN [r \in DOMAIN rows |-> 0] ELSE <<>>

Boot ==
    /\ step = 0 /\ starts < MaxStarts
    /\ step' = 1 /\ starts' = starts + 1
    /\ UNCHANGED <<tables, columns, dedupeIndex, vectorKey, vectors, legacy, rows,
                   fts, triggers, embedded, stranded, completed>>

\* A rebuild of mem_vectors that is cut off before its copy is not resumed: the
\* next start creates the table with the new key and finds nothing to do.
Die ==
    /\ step # 0
    /\ step' = 0
    /\ stranded' = IF step <= PlanLength /\ Plan[step].do \in {"create", "copy"}
                   THEN stranded \cup legacy ELSE stranded
    /\ UNCHANGED <<tables, columns, dedupeIndex, vectorKey, vectors, legacy, rows,
                   fts, triggers, embedded, starts, completed>>

\* The next statement is `what', and `count' statements are done with it.
Run(what, count) ==
    /\ step \in 1..PlanLength /\ Plan[step].do = what
    /\ step' = step + count
    /\ completed' = IF step' > PlanLength THEN completed + 1 ELSE completed
    /\ UNCHANGED <<embedded, stranded, starts>>

\* CREATE TABLE IF NOT EXISTS
CreateTable ==
    LET t == Plan[step].on
    IN  /\ Run("table", 1)
        /\ tables' = tables \cup {t}
        /\ columns' = IF t = "mem_observations" /\ t \notin tables
                      THEN BaseColumns ELSE columns
        /\ vectorKey' = IF t = "mem_vectors" /\ t \notin tables
                        THEN "observation and model" ELSE vectorKey
        /\ UNCHANGED <<dedupeIndex, vectors, legacy, rows, fts, triggers>>

\* ALTER TABLE ADD COLUMN; the error of a column that is there is passed over.
AddColumnIfMissing ==
    /\ Run("column", 1)
    /\ columns' = columns \cup {Plan[step].on}
    /\ UNCHANGED <<tables, dedupeIndex, vectorKey, vectors, legacy, rows, fts, triggers>>

\* migrateMemVectorsPrimaryKey: nothing to do when the key is the new one.
KeepVectors ==
    /\ Run("rename", Len(VectorSteps)) /\ vectorKey = "observation and model"
    /\ UNCHANGED <<tables, columns, dedupeIndex, vectorKey, vectors, legacy, rows,
                   fts, triggers>>

RenameVectors ==
    /\ Run("rename", 1) /\ vectorKey = "observation"
    /\ legacy' = vectors /\ vectors' = {}
    /\ tables' = tables \ {"mem_vectors"}
    /\ UNCHANGED <<columns, dedupeIndex, vectorKey, rows, fts, triggers>>

CreateVectors ==
    /\ Run("create", 1)
    /\ tables' = tables \cup {"mem_vectors"}
    /\ vectorKey' = "observation and model"
    /\ UNCHANGED <<columns, dedupeIndex, vectors, legacy, rows, fts, triggers>>

CopyVectors ==
    /\ Run("copy", 1)
    /\ vectors' = IF legacy = NoTable THEN vectors ELSE vectors \cup legacy
    /\ UNCHANGED <<tables, columns, dedupeIndex, vectorKey, legacy, rows, fts, triggers>>

DropLegacy ==
    /\ Run("drop", 1)
    /\ legacy' = NoTable
    /\ UNCHANGED <<tables, columns, dedupeIndex, vectorKey, vectors, rows, fts, triggers>>

DropDedupeIndex ==
    /\ Run("dropIndex", 1)
    /\ dedupeIndex' = FALSE
    /\ UNCHANGED <<tables, columns, vectorKey, vectors, legacy, rows, fts, triggers>>

\* The index is partial on archived_at: without that column the statement fails,
\* and the failure is passed over.
CreateDedupeIndex ==
    /\ Run("makeIndex", 1)
    /\ dedupeIndex' = ("archived_at" \in columns)
    /\ UNCHANGED <<tables, columns, vectorKey, vectors, legacy, rows, fts, triggers>>

\* UPDATE ... SET observed_at = created_at WHERE observed_at IS NULL
BackfillObserved ==
    /\ Run("backfill", 1)
    /\ rows' = [r \in DOMAIN rows |-> [rows[r] EXCEPT !.observed = TRUE]]
    /\ UNCHANGED <<tables, columns, dedupeIndex, vectorKey, vectors, legacy, fts, triggers>>

DropTriggers ==
    /\ Run("dropTriggers", 1)
    /\ triggers' = FALSE
    /\ UNCHANGED <<tables, columns, dedupeIndex, vectorKey, vectors, legacy, rows, fts>>

CreateTriggers ==
    /\ Run("makeTriggers", 1)
    /\ triggers' = TRUE
    /\ UNCHANGED <<tables, columns, dedupeIndex, vectorKey, vectors, legacy, rows, fts>>

\* initFtsIndex fills an empty index from the observations.
FillFts ==
    /\ Run("fill", 1)
    /\ fts' = IF fts = <<>> THEN [r \in DOMAIN rows |-> rows[r].text] ELSE fts
    /\ UNCHANGED <<tables, columns, dedupeIndex, vectorKey, vectors, legacy, rows, triggers>>

\* While the daemon serves: an observation is stored or stored again, with its
\* vector or (the provider failing) without; the triggers keep the index.
StoreObservation(r, text, embed) ==
    /\ Serving
    /\ rows' = [s \in DOMAIN rows \cup {r} |->
                    IF s = r THEN [text |-> text, observed |-> TRUE] ELSE rows[s]]
    /\ fts' = IF triggers
              THEN [s \in DOMAIN fts \cup {r} |-> IF s = r THEN text ELSE fts[s]] ELSE fts
    /\ vectors' = IF embed THEN vectors \cup {r} ELSE vectors
    /\ embedded' = IF embed THEN embedded \cup {r} ELSE embedded
    /\ UNCHANGED <<step, tables, columns, dedupeIndex, vectorKey, legacy, triggers,
                   stranded, starts, completed>>

SchemaNext ==
    \/ Boot \/ Die
    \/ CreateTable \/ AddColumnIfMissing
    \/ KeepVectors \/ RenameVectors \/ CreateVectors \/ CopyVectors \/ DropLegacy
    \/ DropDedupeIndex \/ CreateDedupeIndex \/ BackfillObserved
    \/ DropTriggers \/ CreateTriggers \/ FillFts
    \/ \E r \in Row, text \in Text, embed \in BOOLEAN : StoreObservation(r, text, embed)

SchemaSpec == SchemaInit /\ [][SchemaNext]_schemaVars

----------------------------------------------------------------------------

\* A daemon that serves has every table and column this release uses, and no
\* observation without observed_at, whatever release wrote the file and
\* wherever earlier starts died.
ServesWholeSchema ==
    Serving => /\ tables = TableNames
               /\ columns = ColumnNames
               /\ \A r \in DOMAIN rows : rows[r].observed

\* A daemon that serves finds every observation by its current text: the index
\* holds each row once, also after a start that died between dropping the
\* triggers and creating them, or before the fill.
SearchIndexExact ==
    Serving => fts = [r \in DOMAIN rows |-> rows[r].text]

\* A daemon that serves searches every vector that was stored, but for those
\* a start was rebuilding when it died before the copy. These are not lost, yet
\* nothing reads them: they stay in the renamed table.
VectorsServed ==
    /\ Serving => embedded \ stranded \subseteq vectors
    /\ embedded \subseteq vectors \cup (IF legacy = NoTable THEN {} ELSE legacy)

\* The unique index behind the deduplication is dropped at every start. It is
\* back when the daemon serves, but for the first start on a file of a release
\* without archived_at, a column that is only added after the index.
DedupeIndexBack == Serving /\ completed > 1 => dedupeIndex

\* What a daemon serves from, from whichever release and through whichever
\* interrupted starts it came: whole tables, columns and text index, the vectors
\* but those of a cut rebuild, and the index behind the deduplication.
SchemaServed == ServesWholeSchema /\ SearchIndexExact /\ VectorsServed /\ DedupeIndexBack
============================================================================
