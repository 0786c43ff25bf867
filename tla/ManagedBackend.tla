---------------------------- MODULE ManagedBackend ----------------------------
(***************************************************************************)
(* Replication of recorded events to PostgreSQL in hybrid and managed mode *)
(* (memory-server/src/projector/managed-backend.ts with its event store    *)
(* and its projector).  The SQLite side is the log of events the recorder  *)
(* committed.                                                              *)
(*                                                                         *)
(* A flush awaits PostgreSQL twice, in append and in project; everything   *)
(* else may run in between.  The process may die anywhere.                 *)
(***************************************************************************)
EXTENDS ShadowSync, Sequences, FiniteSets

CONSTANTS
    BackendMode,   \* "hybrid" or "managed"
    MaxQueue,      \* maxQueueSize
    BatchSize,     \* events one flush takes
    MaxEvents,     \* bound on the events recorded
    MaxFailures,   \* bound on the failures the metrics count
    MaxReads,      \* bound on the shadow reads
    MaxExits       \* bound on the processes that end

ASSUME BackendAssumption ==
    /\ BackendMode \in {"hybrid", "managed"}
    /\ MaxQueue \in Nat \ {0} /\ BatchSize \in Nat \ {0}
    /\ MaxEvents \in Nat /\ MaxFailures \in Nat /\ MaxReads \in Nat /\ MaxExits \in Nat

VARIABLES
    up,         \* the process runs
    conn,       \* connectionState
    store,      \* eventStore and projector exist and the flush timer is set
    local,      \* number of events committed to SQLite
    pending,    \* the last of them is not yet handed to replicateEvent
    queue,      \* replicationQueue
    flush,      \* the flush in progress and the batch it took
    reading,    \* a shadow read waits for PostgreSQL
    metrics,    \* the counters of ShadowSyncManager
    phase,      \* its phase
    pgEvents,   \* mem_events in PostgreSQL
    pgObs,      \* mem_observations in PostgreSQL
    dropped,    \* events a full queue of this process pushed out (history)
    exits,      \* processes that ended so far
    lost        \* events earlier processes did not deliver (history)

process == <<up, conn, store, pending, queue, flush, reading, metrics, phase>>
postgres == <<pgEvents, pgObs>>
history == <<dropped, exits, lost>>

vars == <<process, local, postgres, history>>

Elements(s) == {s[i] : i \in DOMAIN s}

\* An event is its number in the order SQLite committed it.
Event == 1 .. MaxEvents
Recorded == 1 .. local

NoFlush == [at |-> "idle", batch |-> <<>>]

TypeOK ==
    /\ up \in BOOLEAN /\ store \in BOOLEAN /\ reading \in BOOLEAN
    /\ conn \in {"connecting", "connected", "degraded", "disconnected"}
    /\ local \in 0 .. MaxEvents /\ pending \in BOOLEAN
    /\ queue \in Seq(Event)
    /\ flush.at \in {"idle", "append", "project"} /\ flush.batch \in Seq(Event)
    /\ flush.at = "idle" <=> flush.batch = <<>>
    /\ metrics \in Metrics /\ phase \in Phases
    /\ pgEvents \subseteq Event /\ pgObs \subseteq Event /\ exits \in Nat
    /\ dropped \subseteq Event /\ lost \subseteq Event

FirstPhase == IF BackendMode = "managed" THEN "promoted" ELSE "off"

\* A new process, with initialize() under way.
Init ==
    /\ up = TRUE /\ conn = "connecting" /\ store = FALSE
    /\ local = 0 /\ pending = FALSE /\ queue = <<>> /\ flush = NoFlush
    /\ reading = FALSE /\ metrics = NoMetrics /\ phase = FirstPhase
    /\ pgEvents = {} /\ pgObs = {} /\ dropped = {} /\ exits = 0 /\ lost = {}

------------------------------------------------------------------------------
IsConnected == conn = "connected"

\* initialize() comes back: connected with the timer running and, in hybrid
\* mode, the first phase; or degraded for good when pg is not installed or the
\* schema cannot be created.
Initialize ==
    /\ up /\ conn = "connecting"
    /\ \/ /\ conn' = "connected" /\ store' = TRUE
          /\ phase' = IF BackendMode = "hybrid" /\ phase = "off"
                      THEN AdvancePhase(phase, metrics) ELSE phase
       \/ conn' = "degraded" /\ UNCHANGED <<store, phase>>
    /\ UNCHANGED <<up, pending, queue, flush, reading, metrics, local, postgres, history>>

\* The recorder commits a new event; in managed mode only when connected.
RecordLocal ==
    /\ up /\ ~pending /\ local < MaxEvents
    /\ BackendMode = "managed" => IsConnected
    /\ metrics.failed < MaxFailures
    /\ local' = local + 1 /\ pending' = TRUE
    /\ UNCHANGED <<up, conn, store, queue, flush, reading, metrics, phase, postgres, history>>

\* enqueueForRetry: a full queue drops its oldest event.
EnqueueForRetry(q, e) == Append(IF Len(q) >= MaxQueue THEN Tail(q) ELSE q, e)

\* Mutant: two flushes may run at the same time, the younger one is followed.
TakesReentrant(q) == store /\ q # <<>>

\* What lets flushReplicationQueue start: nobody else flushes, something waits,
\* and initialize() succeeded once.  The connection state is not asked.
Takes(q) == store /\ flush.at = "idle" /\ q # <<>>

\* splice(0, 100).
Taken(q) == SubSeq(q, 1, IF Len(q) < BatchSize THEN Len(q) ELSE BatchSize)
Left(q) == SubSeq(q, Len(Taken(q)) + 1, Len(q))

\* flushReplicationQueue up to its first await.
StartFlush(q) ==
    IF Takes(q)
    THEN flush' = [at |-> "append", batch |-> Taken(q)] /\ queue' = Left(q)
    ELSE queue' = q /\ UNCHANGED flush

\* replicateEvent: queued in any case, flushed at once when connected, counted
\* as a failure when not.
ReplicateEvent ==
    /\ up /\ pending
    /\ IF IsConnected
       THEN /\ StartFlush(EnqueueForRetry(queue, local))
            /\ metrics' = RecordPrimaryWrite(metrics)
       ELSE /\ queue' = EnqueueForRetry(queue, local)
            /\ metrics' = RecordReplication(RecordPrimaryWrite(metrics), FALSE, 1)
            /\ UNCHANGED flush
    /\ dropped' = dropped \cup
          (Elements(queue) \ Elements(EnqueueForRetry(queue, local)))
    /\ pending' = FALSE
    /\ UNCHANGED <<up, conn, store, reading, phase, local, postgres, exits, lost>>

\* Mutant: the timer waits for a connection that never comes back.
FlushTimerConnected ==
    /\ up /\ ~pending /\ Takes(queue) /\ IsConnected
    /\ StartFlush(queue)
    /\ UNCHANGED <<up, conn, store, pending, reading, metrics, phase, local, postgres, history>>

\* The timer fires every five seconds, whatever the connection state.
FlushTimer ==
    /\ up /\ ~pending /\ Takes(queue)
    /\ StartFlush(queue)
    /\ UNCHANGED <<up, conn, store, pending, reading, metrics, phase, local, postgres, history>>

\* append() succeeded: known hashes are skipped, and the batch is projected
\* when at least one of its events was new.
AppendDone ==
    /\ up /\ ~pending /\ flush.at = "append"
    /\ pgEvents' = pgEvents \cup Elements(flush.batch)
    /\ metrics' = RecordReplication(metrics, TRUE, Len(flush.batch))
    /\ flush' = IF Elements(flush.batch) \subseteq pgEvents THEN NoFlush
                ELSE [flush EXCEPT !.at = "project"]
    /\ UNCHANGED <<up, conn, store, pending, queue, reading, phase, local, pgObs, history>>

\* Mutant: a failed batch is put back behind what came in since.
AppendFailedBehind ==
    /\ up /\ ~pending /\ flush.at = "append"
    /\ metrics.failed + Len(flush.batch) <= MaxFailures
    /\ \E kept \in SUBSET Elements(flush.batch) : pgEvents' = pgEvents \cup kept
    /\ queue' = queue \o flush.batch
    /\ metrics' = RecordReplication(metrics, FALSE, Len(flush.batch))
    /\ flush' = NoFlush /\ conn' = "degraded"
    /\ UNCHANGED <<up, store, pending, reading, phase, local, pgObs, history>>

\* Mutant: a failed batch is not put back.
AppendFailedForgets ==
    /\ up /\ ~pending /\ flush.at = "append"
    /\ metrics.failed + Len(flush.batch) <= MaxFailures
    /\ \E kept \in SUBSET Elements(flush.batch) : pgEvents' = pgEvents \cup kept
    /\ queue' = queue
    /\ metrics' = RecordReplication(metrics, FALSE, Len(flush.batch))
    /\ flush' = NoFlush /\ conn' = "degraded"
    /\ UNCHANGED <<up, store, pending, reading, phase, local, pgObs, history>>

\* append() threw: the batch goes back to the front and the backend is degraded
\* from now on.  PostgreSQL may have kept any part of the batch: the answer to
\* the commit was lost, or statements ran outside the transaction.
AppendFailed ==
    /\ up /\ ~pending /\ flush.at = "append"
    /\ metrics.failed + Len(flush.batch) <= MaxFailures
    /\ \E kept \in SUBSET Elements(flush.batch) : pgEvents' = pgEvents \cup kept
    /\ queue' = flush.batch \o queue
    /\ metrics' = RecordReplication(metrics, FALSE, Len(flush.batch))
    /\ flush' = NoFlush /\ conn' = "degraded"
    /\ UNCHANGED <<up, store, pending, reading, phase, local, pgObs, history>>

\* project(): an event whose projection fails is skipped, and not tried again.
ProjectDone ==
    /\ up /\ ~pending /\ flush.at = "project"
    /\ \E done \in SUBSET Elements(flush.batch) : pgObs' = pgObs \cup done
    /\ flush' = NoFlush
    /\ UNCHANGED <<up, conn, store, pending, queue, reading, metrics, phase, local,
                   pgEvents, history>>

\* shadowRead() asks PostgreSQL after a local search ...
ShadowRead ==
    /\ up /\ ~pending /\ ~reading /\ metrics.reads < MaxReads
    /\ IsConnected /\ phase # "off"
    /\ reading' = TRUE
    /\ UNCHANGED <<up, conn, store, pending, queue, flush, metrics, phase, local,
                   postgres, history>>

\* ... and counts a match when enough of the local hits are among the hits
\* there.  A query that fails finds nothing and counts as a divergence.
ShadowReadDone ==
    /\ up /\ ~pending /\ reading
    /\ \E hits \in SUBSET Recorded, pgHits \in SUBSET pgObs, failed \in BOOLEAN :
          metrics' = RecordShadowRead(metrics,
              ~failed /\ 100 * Cardinality(hits \cap pgHits) >= 95 * Cardinality(hits))
    /\ reading' = FALSE
    /\ UNCHANGED <<up, conn, store, pending, queue, flush, phase, local, postgres, history>>

\* attemptPromotion().
AttemptPromotion ==
    /\ up /\ ~pending /\ IsReadyForPromotion(metrics)
    /\ phase' = AdvancePhase(phase, metrics)
    /\ UNCHANGED <<up, conn, store, pending, queue, flush, reading, metrics, local,
                   postgres, history>>

\* shadow.rollback().
Rollback ==
    /\ up /\ ~pending
    /\ phase' = "off"
    /\ UNCHANGED <<up, conn, store, pending, queue, flush, reading, metrics, local,
                   postgres, history>>

\* What a process still has to send when it ends.
Unsent == Elements(queue) \cup Elements(flush.batch) \cup (IF pending THEN {local} ELSE {})

\* The process ends and forgets.  Statements under way may still take effect.
Exit ==
    /\ exits < MaxExits /\ exits' = exits + 1
    /\ up' = FALSE /\ conn' = "disconnected" /\ store' = FALSE
    /\ pending' = FALSE /\ queue' = <<>> /\ flush' = NoFlush /\ reading' = FALSE
    /\ \E kept \in IF flush.at = "append" THEN SUBSET Elements(flush.batch) ELSE {{}} :
          pgEvents' = pgEvents \cup kept
    /\ \E done \in IF flush.at = "project" THEN SUBSET Elements(flush.batch) ELSE {{}} :
          pgObs' = pgObs \cup done
    /\ metrics' = NoMetrics /\ phase' = FirstPhase
    /\ lost' = lost \cup dropped \cup (Unsent \ pgEvents') /\ dropped' = {}
    /\ UNCHANGED local

\* A signal: core.shutdown() calls shutdown() without awaiting it, and the
\* process exits before the final flush gets an answer.
Shutdown == up /\ ~pending /\ Exit

Crash == up /\ Exit

Boot ==
    /\ ~up /\ up' = TRUE /\ conn' = "connecting"
    /\ UNCHANGED <<store, pending, queue, flush, reading, metrics, phase, local,
                   postgres, history>>

Next ==
    \/ Initialize
    \/ RecordLocal \/ ReplicateEvent
    \/ FlushTimer \/ AppendDone \/ AppendFailed \/ ProjectDone
    \/ ShadowRead \/ ShadowReadDone
    \/ AttemptPromotion \/ Rollback
    \/ Shutdown \/ Crash \/ Boot

Spec == Init /\ [][Next]_vars

\* A process is started again, synchronous code goes on, the timer fires, and
\* PostgreSQL does not fail every single batch and projection.
Fairness ==
    /\ WF_vars(Boot) /\ WF_vars(Initialize) /\ WF_vars(ReplicateEvent)
    /\ SF_vars(FlushTimer) /\ SF_vars(AppendDone)
    /\ WF_vars(ProjectDone) /\ \A e \in Event : SF_vars(ProjectDone /\ e \in pgObs')

LiveSpec == Spec /\ Fairness

------------------------------------------------------------------------------
\* No event is forgotten while the process lives: each one SQLite holds is in
\* PostgreSQL, on its way there, or was pushed out of a full queue or taken
\* along by a process that ended.  Failed batches and lost answers do not
\* matter, nor events that arrive while a batch is in flight.
NothingForgotten ==
    Recorded \subseteq pgEvents \cup Unsent \cup dropped \cup lost

\* What is still to be sent goes out in the order it was recorded, also after
\* a failed batch went back to a queue that grew or was cut in the meantime.
SentInOrder ==
    LET unsent == (IF flush.at = "append" THEN flush.batch ELSE <<>>) \o queue
    IN  \A i, j \in DOMAIN unsent : i < j => unsent[i] < unsent[j]

\* A failed batch returns to a queue that filled up again, so the queue holds
\* up to one batch more than its maximum, and never more than that.
QueueBounded == Len(queue) <= MaxQueue + BatchSize

\* The counters account for every write of this process: replicated, still to
\* be sent, or pushed out.  Retried and deduplicated batches count once.
WritesAccounted ==
    metrics.writes = metrics.replicated + Len(queue) + Cardinality(dropped)
                     + (IF flush.at = "append" THEN Len(flush.batch) ELSE 0)

\* An event in the queue of a backend that was connected once reaches
\* PostgreSQL, also when the backend is degraded since: the timer goes on.
QueueDrains ==
    \A e \in Event : store /\ e \in Elements(queue) ~> e \in pgEvents \cup dropped \cup lost

\* The replication queue and the batch in flight stay in order and within their
\* bound through failed batches, cuts and events that arrive meanwhile.
QueueSound == TypeOK /\ SentInOrder /\ QueueBounded
==============================================================================
