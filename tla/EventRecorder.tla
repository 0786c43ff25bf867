---------------------------- MODULE EventRecorder ----------------------------
(***************************************************************************)
(* The write path of the daemon (memory-server/src/core/event-recorder.ts, *)
(* ddouns-gate.ts and the retry loop of harness-mem-core.ts): the write    *)
(* queue, recordEvent with its gate, its dedupe and its transaction, and   *)
(* the persistent retry queue.                                             *)
(*                                                                         *)
(* JavaScript runs one callback at a time, so no other operation comes     *)
(* between the steps of a recordEvent call or of a retry loop; a crash     *)
(* does.  Every step below ends where SQLite commits: the chained audit    *)
(* rows, the main transaction, and the delete or backoff of a retry row    *)
(* are separate commits.                                                   *)
(***************************************************************************)
EXTENDS AuditRows, FiniteSets

CONSTANTS
    NULL,
    Envelope,         \* the events clients send, see EnvelopeAssumption
    EventId,          \* ids generateEventId draws from
    Tag,              \* git tags closure markers name
    Gates,            \* gate settings a boot may find: "off", "block", "warn"
    Captures,         \* values of captureEnabled a boot may find
    ManagedRequired,  \* backend_mode = managed
    WriteQueueLimit,  \* writeQueueLimit
    Retention,        \* streamEventRetention
    RetryBatch,       \* rows one retry loop reads
    MaxRetryRows,     \* bound on the row ids of mem_retry_queue
    MaxAudit          \* bound on the rows of mem_audit_log

\* What the properties tell apart in an envelope: its dedupe_hash (sent, or
\* derived from the event and therefore the same for every resend), the event_id
\* if the client chose one, the hash of its normalised content (NULL when that is
\* empty), the closure tag its content names, and what its fields switch on.
ASSUME EnvelopeAssumption ==
    /\ \A e \in Envelope :
        /\ DOMAIN e = {"hash", "id", "content", "tag", "valid", "blocked",
                       "strip", "private", "checkpoint"}
        /\ e.tag \in Tag \cup {NULL}
        /\ {e.valid, e.blocked, e.strip, e.private, e.checkpoint} \subseteq BOOLEAN
    /\ NULL \notin Tag /\ NULL \notin EventId /\ NULL \notin Envelope
    /\ NULL \notin Nat /\ NULL \notin BOOLEAN
    /\ Gates \subseteq {"off", "block", "warn"} /\ Captures \subseteq BOOLEAN
    /\ ManagedRequired \in BOOLEAN
    /\ WriteQueueLimit \in Nat /\ Retention \in Nat \ {0}
    /\ RetryBatch \in Nat /\ MaxRetryRows \in Nat /\ MaxAudit \in Nat

VARIABLES
    status,        \* "up", "stopping" (inside shutdown) or "down"
    gate,          \* DDOUNS_GATE_ENABLED and DDOUNS_GATE_MODE of this process
    capture,       \* config.captureEnabled of this process
    writeQueue,    \* envelopes waiting on the promise chain
    call,          \* the recordEvent call in progress
    loop,          \* the retry rows the retry loop still has to visit
    events,        \* mem_events
    observations,  \* mem_observations
    vectors,       \* observation ids in mem_vectors
    retry,         \* mem_retry_queue
    audit,         \* mem_audit_log
    stream,        \* streamEvents
    streamCounter, \* streamEventCounter
    tags,          \* the tags of the git repository
    tagCache,      \* closureTagCache: NULL, TRUE or FALSE by tag
    acked          \* envelopes answered "recorded" or "deduped" (history)

disk == <<events, observations, vectors, retry, audit>>
memory == <<writeQueue, stream, streamCounter, tagCache>>
config == <<gate, capture>>

vars == <<status, config, memory, call, loop, disk, tags, acked>>

Idle == [at |-> "idle", env |-> NULL, id |-> NULL, row |-> NULL, ok |-> FALSE]

EventIds == EventId \cup {e.id : e \in Envelope}

\* A call remembers the step it is at, its envelope and event id, the retry row
\* it was made for (NULL when a client waits for it) and its result.
Calls == [at : {"idle", "transact", "announce", "settle"},
          env : Envelope \cup {NULL}, id : EventIds \cup {NULL},
          row : Nat \cup {NULL}, ok : BOOLEAN]

TypeOK ==
    /\ status \in {"up", "stopping", "down"}
    /\ gate \in Gates /\ capture \in Captures
    /\ writeQueue \in Seq(Envelope) /\ Len(writeQueue) <= WriteQueueLimit
    /\ call \in Calls
    /\ loop \subseteq {r.row : r \in retry}
    /\ \A v \in events : DOMAIN v = {"id", "env", "obs"} /\ v.env \in Envelope
    /\ \A o \in observations : DOMAIN o = {"id", "env", "archived"} /\ o.archived \in BOOLEAN
    /\ \A r \in retry : DOMAIN r = {"row", "env", "due"} /\ r.row \in Nat
    /\ vectors \subseteq EventIds
    /\ tags \subseteq Tag /\ tagCache \in [Tag -> BOOLEAN \cup {NULL}]
    /\ acked \subseteq Envelope

Init ==
    /\ status = "up" /\ gate \in Gates /\ capture \in Captures
    /\ writeQueue = <<>> /\ call = Idle /\ loop = {}
    /\ events = {} /\ observations = {} /\ vectors = {} /\ retry = {} /\ audit = <<>>
    /\ stream = <<>> /\ streamCounter = 0
    /\ tags = {} /\ tagCache = [t \in Tag |-> NULL]
    /\ acked = {}

------------------------------------------------------------------------------
\* recordEventQueued: refused when the queue is full, else chained behind the
\* writes that wait already.
RecordEventQueued(env) ==
    /\ status = "up" /\ call = Idle /\ loop = {}
    /\ Len(writeQueue) < WriteQueueLimit
    /\ writeQueue' = Append(writeQueue, env)
    /\ UNCHANGED <<status, config, stream, streamCounter, tagCache, call, loop,
                   disk, tags, acked>>

\* The live observations that hold a given content.
Live(content) ==
    {o \in observations : content # NULL /\ o.env.content = content /\ ~o.archived}

\* The event id or the dedupe_hash is taken: INSERT OR IGNORE inserts nothing.
Known(env, id) == \E v \in events : v.id = id \/ v.env.hash = env.hash

\* The early returns of recordEvent: a disabled daemon and a blocked tag answer
\* ok without storing anything.
Precheck(env, connected) ==
    CASE ~capture                                          -> "ok"
      [] capture /\ ~env.valid                             -> "error"
      [] capture /\ env.valid /\ env.blocked               -> "ok"
      [] capture /\ env.valid /\ ~env.blocked
           /\ ManagedRequired /\ ~connected                -> "error"
      [] OTHER                                             -> "go"

\* A chained audit row, best effort: when the insert fails the write goes on.
Emit(log, wanted, what) ==
    IF wanted /\ Len(log) < MaxAudit THEN {log, AppendChained(log, what)} ELSE {log}

\* What gitTagExists may answer: the cached answer, else what git finds, or
\* FALSE when the spawn fails or times out.
TagAnswers(env) ==
    CASE gate = "off" \/ env.tag = NULL -> {TRUE}
      [] gate # "off" /\ env.tag # NULL /\ tagCache[env.tag] # NULL -> {tagCache[env.tag]}
      [] OTHER -> {FALSE} \cup {t = env.tag : t \in tags}

\* Mutant: the dedupe probe is skipped.
GateRejectsClosureOnly(env, tagFound) == gate # "off" /\ ~tagFound

\* evaluateGate: closure evidence, then the dedupe probe.
GateRejects(env, tagFound) == gate # "off" /\ (~tagFound \/ Live(env.content) # {})

\* The caller gets its answer: a client is gone, the retry loop settles its row.
Return(env, row, ok) ==
    call' = IF row = NULL THEN Idle
            ELSE [at |-> "settle", env |-> env, id |-> NULL, row |-> row, ok |-> ok]

\* recordEvent up to its transaction: the early returns, the audit row of a
\* strip, the gate and its warning row, the event id.
Begin(env, row, connected) ==
    /\ \/ /\ Precheck(env, connected) # "go"
          /\ Return(env, row, Precheck(env, connected) = "ok")
          /\ UNCHANGED <<audit, tagCache>>
       \/ /\ Precheck(env, connected) = "go"
          /\ \E tagFound \in TagAnswers(env), log \in Emit(audit, env.strip, "privacy_strip") :
                /\ tagCache' = IF gate = "off" \/ env.tag = NULL THEN tagCache
                               ELSE [tagCache EXCEPT ![env.tag] = tagFound]
                /\ \/ /\ GateRejects(env, tagFound) /\ gate = "block"
                      /\ audit' = log
                      /\ Return(env, row, FALSE)
                   \/ /\ ~(GateRejects(env, tagFound) /\ gate = "block")
                      /\ audit' \in Emit(log, GateRejects(env, tagFound), "ddouns_gate_warn")
                      /\ \E id \in IF env.id = NULL
                                   THEN EventId \ {v.id : v \in events} ELSE {env.id} :
                            call' = [at |-> "transact", env |-> env, id |-> id,
                                     row |-> row, ok |-> FALSE]
    /\ UNCHANGED <<status, config, stream, streamCounter, events, observations,
                   vectors, retry, tags, acked>>

\* A caller inside the daemon (session manager, ingesters) records directly.
RecordEvent(env, connected) ==
    /\ status = "up" /\ call = Idle /\ loop = {}
    /\ Begin(env, NULL, connected)
    /\ UNCHANGED <<writeQueue, loop>>

\* enqueueWrite's callback: the oldest waiting write runs.
DrainWriteQueue(connected) ==
    /\ status = "up" /\ call = Idle /\ loop = {} /\ writeQueue # <<>>
    /\ Begin(Head(writeQueue), NULL, connected)
    /\ writeQueue' = Tail(writeQueue)
    /\ UNCHANGED loop

\* The call answers ok; a client takes that for "recorded" or "deduped".
Succeed ==
    /\ Return(call.env, call.row, TRUE)
    /\ acked' = IF call.row = NULL THEN acked \cup {call.env} ELSE acked

\* The transaction finds the event: nothing but the session row is written.
TransactKnown ==
    /\ call.at = "transact" /\ Known(call.env, call.id)
    /\ Succeed
    /\ UNCHANGED <<status, config, memory, loop, disk, tags>>

\* Mutant: the folded event points at the observation it would have had.
TransactSameContentOwnId ==
    /\ call.at = "transact" /\ ~Known(call.env, call.id)
    /\ \E o \in Live(call.env.content) :
          events' = events \cup {[id |-> call.id, env |-> call.env, obs |-> call.id]}
    /\ Succeed
    /\ UNCHANGED <<status, config, memory, loop, observations, vectors, retry,
                   audit, tags>>

\* A new event with a content some live observation holds: the event is kept
\* and points at that observation.
TransactSameContent ==
    /\ call.at = "transact" /\ ~Known(call.env, call.id)
    /\ \E o \in Live(call.env.content) :
          events' = events \cup {[id |-> call.id, env |-> call.env, obs |-> o.id]}
    /\ Succeed
    /\ UNCHANGED <<status, config, memory, loop, observations, vectors, retry,
                   audit, tags>>

\* A new observation with its vector; the unprivileged audit row of a private
\* tag is part of the transaction.  A checkpoint survives an embedding model
\* that is still warming up and goes without a vector.
TransactInsert ==
    /\ call.at = "transact" /\ ~Known(call.env, call.id)
    /\ Live(call.env.content) = {}
    /\ events' = events \cup {[id |-> call.id, env |-> call.env, obs |-> call.id]}
    /\ observations' = {o \in observations : o.id # call.id}
                       \cup {[id |-> call.id, env |-> call.env,
                              archived |-> \E o \in observations : o.id = call.id /\ o.archived]}
    /\ \/ vectors' = vectors \cup {call.id}
       \/ call.env.checkpoint /\ vectors' = vectors
    /\ audit' = IF call.env.private /\ Len(audit) < MaxAudit
                THEN AppendPlain(audit, "privacy_filter") ELSE audit
    /\ call' = [call EXCEPT !.at = "announce"]
    /\ UNCHANGED <<status, config, memory, loop, retry, tags, acked>>

\* The rows of the retry queue, and a new one behind them.  AUTOINCREMENT would
\* not reuse the id of a deleted last row; nothing keeps an id while rows are
\* added, so that cannot be noticed.
RetryRows == {r.row : r \in retry}
LastRow == CHOOSE n \in {0} \cup RetryRows : \A m \in RetryRows : m <= n
EnqueueRetry(env) ==
    /\ LastRow < MaxRetryRows
    /\ retry' = retry \cup {[row |-> LastRow + 1, env |-> env, due |-> TRUE]}

\* Something throws (the embedding, the database): the transaction is rolled
\* back, the write of a client goes to the retry queue if that insert does not
\* throw as well, and the answer is an error.
TransactThrow ==
    /\ call.at = "transact"
    /\ Return(call.env, call.row, FALSE)
    /\ \/ call.row = NULL /\ EnqueueRetry(call.env)
       \/ UNCHANGED retry
    /\ UNCHANGED <<status, config, memory, loop, events, observations, vectors,
                   audit, tags, acked>>

\* appendStreamEvent: the next id, and only the newest Retention events stay.
AppendStreamEvent(obs) ==
    LET grown == Append(stream, [id |-> streamCounter + 1, obs |-> obs])
    IN  /\ streamCounter' = streamCounter + 1
        /\ stream' = SubSeq(grown, IF Len(grown) > Retention
                                   THEN Len(grown) - Retention + 1 ELSE 1, Len(grown))

\* After the commit of a new observation: announce it to the feed and answer.
Announce ==
    /\ call.at = "announce"
    /\ AppendStreamEvent(call.id)
    /\ Succeed
    /\ UNCHANGED <<status, config, writeQueue, tagCache, loop, disk, tags>>

------------------------------------------------------------------------------
\* The due rows a retry loop reads: the RetryBatch oldest.
DueRows == {r.row : r \in {r \in retry : r.due}}

\* Mutant: the newest rows first.
FirstDueNewest == {n \in DueRows : Cardinality({m \in DueRows : m > n}) < RetryBatch}

FirstDue == {n \in DueRows : Cardinality({m \in DueRows : m < n}) < RetryBatch}

\* processRetryQueue on its timer reads the rows it is going to visit.
RetryTick ==
    /\ status = "up" /\ call = Idle /\ loop = {} /\ DueRows # {}
    /\ loop' = FirstDue
    /\ UNCHANGED <<status, config, memory, call, disk, tags, acked>>

\* The loop records the event of its next row, in id order, without queueing
\* it again.
RetryNext(connected) ==
    /\ call = Idle
    /\ \E r \in retry : /\ r.row \in loop /\ \A m \in loop : r.row <= m
                        /\ Begin(r.env, r.row, connected)
    /\ UNCHANGED <<writeQueue, loop>>

\* Mutant: a row is dropped whatever recordEvent answered.
RetrySettleAlways ==
    /\ call.at = "settle"
    /\ retry' = {r \in retry : r.row # call.row}
    /\ loop' = loop \ {call.row} /\ call' = Idle
    /\ UNCHANGED <<status, config, memory, events, observations, vectors, audit,
                   tags, acked>>

\* An ok answer deletes the row, an error backs it off.
RetrySettle ==
    /\ call.at = "settle"
    /\ retry' = IF call.ok THEN {r \in retry : r.row # call.row}
                ELSE {IF r.row = call.row THEN [r EXCEPT !.due = FALSE] ELSE r : r \in retry}
    /\ loop' = loop \ {call.row} /\ call' = Idle
    /\ UNCHANGED <<status, config, memory, events, observations, vectors, audit,
                   tags, acked>>

\* The delete or the update throws: the timer swallows it and the loop is over.
RetryAbort ==
    /\ call.at = "settle"
    /\ loop' = {} /\ call' = Idle
    /\ UNCHANGED <<status, config, memory, disk, tags, acked>>

\* The backoff of a row runs out.
BackoffEnds(row) ==
    /\ \E r \in retry : /\ r.row = row /\ ~r.due
                        /\ retry' = (retry \ {r}) \cup {[r EXCEPT !.due = TRUE]}
    /\ UNCHANGED <<status, config, memory, call, loop, events, observations,
                   vectors, audit, tags, acked>>

------------------------------------------------------------------------------
\* shutdown(): a last forced retry loop before the database is closed.
Shutdown ==
    /\ status = "up" /\ call = Idle /\ loop = {}
    /\ status' = "stopping" /\ loop' = FirstDue
    /\ UNCHANGED <<config, memory, call, disk, tags, acked>>

\* What a process keeps in memory is gone.
Forget == /\ status' = "down" /\ call' = Idle /\ loop' = {}
          /\ writeQueue' = <<>> /\ stream' = <<>> /\ streamCounter' = 0
          /\ tagCache' = [t \in Tag |-> NULL]
          /\ UNCHANGED <<config, disk, tags, acked>>

Close == status = "stopping" /\ call = Idle /\ loop = {} /\ Forget

\* The process dies between two commits.
Crash == status # "down" /\ Forget

\* A new process, with the environment it finds.
Boot ==
    /\ status = "down" /\ status' = "up"
    /\ gate' \in Gates /\ capture' \in Captures
    /\ UNCHANGED <<memory, call, loop, disk, tags, acked>>

\* Forget policy and duplicate cleanup archive a live observation.
Archive ==
    /\ status = "up" /\ call = Idle /\ loop = {}
    /\ \E o \in observations : /\ ~o.archived
          /\ observations' = (observations \ {o}) \cup {[o EXCEPT !.archived = TRUE]}
    /\ UNCHANGED <<status, config, memory, call, loop, events, vectors, retry,
                   audit, tags, acked>>

\* Somebody tags a commit.
CreateTag ==
    /\ \E t \in Tag \ tags : tags' = tags \cup {t}
    /\ UNCHANGED <<status, config, memory, call, loop, disk, acked>>

\* Whether the managed backend is connected is decided outside this module.
Next ==
    \/ \E env \in Envelope : RecordEventQueued(env)
    \/ \E connected \in BOOLEAN :
          \/ \E env \in Envelope : RecordEvent(env, connected)
          \/ DrainWriteQueue(connected)
          \/ RetryNext(connected)
    \/ TransactKnown \/ TransactSameContent \/ TransactInsert \/ TransactThrow
    \/ Announce
    \/ RetryTick \/ RetrySettle \/ RetryAbort
    \/ \E row \in 1 .. MaxRetryRows : BackoffEnds(row)
    \/ Shutdown \/ Close \/ Crash \/ Boot
    \/ Archive \/ CreateTag

Spec == Init /\ [][Next]_vars

\* A process is always started again, a call always returns, the retry timer
\* keeps firing and clocks advance.  Crashes and failing writes may recur for
\* ever, but do not hit every single attempt to retry a given row.
Fairness ==
    /\ WF_vars(Boot) /\ WF_vars(Close) /\ WF_vars(Announce) /\ WF_vars(TransactThrow)
    /\ WF_vars(RetrySettle) /\ SF_vars(RetryTick)
    /\ \A row \in 1 .. MaxRetryRows :
        /\ WF_vars(BackoffEnds(row))
        /\ SF_vars(row \in loop /\ \E connected \in BOOLEAN : RetryNext(connected))
        /\ SF_vars(call.row = row /\ (TransactKnown \/ TransactSameContent \/ TransactInsert))
        /\ SF_vars(call.row = row /\ call.ok /\ RetrySettle)

LiveSpec == Spec /\ Fairness

------------------------------------------------------------------------------
\* The event of an envelope is in mem_events.
Stored(env) == \E v \in events : v.env.hash = env.hash \/ (env.id # NULL /\ v.id = env.id)

\* However often an event is sent, retried and replayed after a crash, no two
\* rows of mem_events share an id or a dedupe_hash, and no two live observations
\* share a content.
NoDuplicates ==
    /\ \A v, w \in events : v # w => v.id # w.id /\ v.env.hash # w.env.hash
    /\ \A o, p \in observations : o # p => o.id # p.id
    /\ \A o, p \in observations :
          o # p /\ ~o.archived /\ ~p.archived /\ o.env.content # NULL
          => o.env.content # p.env.content

\* Every event points at an observation that exists and has its content, also
\* the event that was folded into another one's observation.
EventsHaveObservations ==
    \A v \in events : \E o \in observations :
        o.id = v.obs /\ (o.env = v.env \/ o.env.content = v.env.content)

\* A client that was told "recorded" or "deduped" finds its event in the log.
AckedStored == \A env \in acked : Stored(env)

\* An observation without a vector comes from a checkpoint: any other write
\* whose embedding failed left nothing behind.
VectorsComplete ==
    \A o \in observations : o.id \in vectors \/ o.env.checkpoint

\* The feed announces an observation at most once per process, with ids that
\* grow by one.
AnnouncedOnce ==
    \A i, j \in DOMAIN stream : i < j => /\ stream[j].id = stream[i].id + (j - i)
                                         /\ stream[i].obs # stream[j].obs

\* The chain holds with plain rows in between, rolled back transactions and
\* failed emits.
ChainIntact == BrokenAt(audit, 1) = 0

\* Whatever mode earlier processes ran in, whatever was queued and cached: an
\* event stored in block mode opens an observation of its own, and the closure
\* tag it names is one git has seen.
GateHolds ==
    [][\A v \in events' \ events : gate = "block" =>
          /\ \A w \in events : w.obs # v.obs
          /\ v.env.tag \in tags \cup {NULL}]_vars

\* A row leaves the retry queue only when its event is stored, whatever crashes
\* come between recording and deleting.  The exception is a process that boots
\* with capture off: it answers ok to the retry and the row is deleted.
QueuedUntilStored ==
    [][\A r \in retry : \/ r.row \in {s.row : s \in retry'}
                        \/ Stored(r.env)'
                        \/ ~capture]_vars

\* A write that went to the retry queue is stored in the end, through backoffs,
\* crashes, aborted loops and shutdowns (with the gate off: a gate in block mode
\* refuses a queued event for good once its content is known).
RetriesComplete ==
    \A env \in Envelope : (\E r \in retry : r.env = env) ~> Stored(env)

\* The recorder's tables fit together in every state, between any two commits and
\* after any crash: unique, complete, acknowledged only when stored, announced
\* once and chained, within the limit of the write queue.
RecorderConsistent ==
    /\ TypeOK /\ NoDuplicates /\ EventsHaveObservations /\ VectorsComplete
    /\ AckedStored /\ AnnouncedOnce /\ ChainIntact
==============================================================================
