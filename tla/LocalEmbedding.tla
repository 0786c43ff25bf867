--------------------------- MODULE LocalEmbedding ---------------------------
(***************************************************************************)
(* The local ONNX embedding provider (embedding/local-onnx.ts), the        *)
(* readiness the core derives from its health (harness-mem-core.ts), the   *)
(* writes that need a vector, and the reindexing that repairs missing ones *)
(* (reindexVectors in config-manager.ts, reindex-vectors-scheduler.ts).    *)
(*                                                                         *)
(* embed() is synchronous and inference is not: embed() only answers from  *)
(* a cache that prime() fills in the background.  A write over HTTP primes *)
(* its text first; an ingester, a retry and the reindexing do not and fail *)
(* until an earlier failure's background prime has ended.                  *)
(*                                                                         *)
(* A text stands for the one observation it becomes; texts are numbered in *)
(* the order of their created_at.  Checkpoints are stored without a vector *)
(* when the model is cold; other writes wait in mem_retry_queue.           *)
(***************************************************************************)
EXTENDS SortedLists, Functions

CONSTANTS
    Texts,          \* how many texts there are
    Checkpoint,     \* the texts that are checkpoints
    Old,            \* observations with a vector of an earlier model
    CacheSize,      \* cacheCapacity
    BatchSize,      \* rows of one reindexing tick
    MaxFaults       \* inferences that fail

ASSUME LocalAssumption ==
    /\ {Texts, BatchSize, CacheSize} \subseteq Nat \ {0}
    /\ MaxFaults \in Nat
    /\ Checkpoint \subseteq 1..Texts
    /\ Old \subseteq 1..Texts

Observation == 1..Texts

VARIABLES
    model,          \* the model: "loading", "loaded" or "broken"
    health,         \* lastHealth: "healthy", "cold" or "failed"
    cache,          \* embeddingCache, oldest key first
    inflight,       \* inflightComputations
    write,          \* each text's write: "none", "priming", "primed", "retry", "stored"
    vectors,        \* observations with a vector of the current model
    converged,      \* the scheduler's flag
    faults          \* inferences that failed so far

localVars == <<model, health, cache, inflight, write, vectors, converged, faults>>

LocalTypeOK ==
    /\ model \in {"loading", "loaded", "broken"}
    /\ health \in {"healthy", "cold", "failed"}
    /\ cache \in Seq(Observation) /\ IsInjective(cache) /\ Len(cache) <= CacheSize
    /\ inflight \subseteq Observation
    /\ write \in [Observation -> {"none", "priming", "primed", "retry", "stored"}]
    /\ vectors \subseteq Observation
    /\ converged \in BOOLEAN
    /\ faults \in 0..MaxFaults

LocalInit ==
    /\ model = "loading" /\ health = "cold"
    /\ cache = <<>> /\ inflight = {}
    /\ write = [o \in Observation |-> IF o \in Old THEN "stored" ELSE "none"]
    /\ vectors = {}
    /\ converged = FALSE
    /\ faults = 0

-----------------------------------------------------------------------------
(* The provider. *)

\* initPromise: the tokenizer and the model are loaded, or not.
ModelLoads ==
    /\ model = "loading"
    /\ \/ model' = "loaded" /\ health' = "healthy"
       \/ model' = "broken" /\ health' = "failed"
    /\ UNCHANGED <<cache, inflight, write, vectors, converged, faults>>

\* getCachedEmbedding and setCachedEmbedding move a key to the young end.
Refreshed(c, t) ==
    LET longer == Append(Sublist(c, Observation \ {t}), t)
    IN  IF Len(longer) > CacheSize THEN Tail(longer) ELSE longer

\* getEmbeddingReadiness, asked before anything is embedded or primed.
IsReady == health = "healthy"

\* Mutant: a miss does not start the inference.
MissedUnprimed(t) == inflight

\* embedSync on a miss: the inference starts in the background.
Missed(t) == inflight \cup {t}

\* primeInternal ends: the vector is cached and the provider healthy again.
\* The write that waited for it goes on.
PrimeEnds(t) ==
    /\ t \in inflight /\ model = "loaded"
    /\ inflight' = inflight \ {t}
    /\ cache' = Refreshed(cache, t)
    /\ health' = "healthy"
    /\ write' = [write EXCEPT ![t] = IF @ = "priming" THEN "primed" ELSE @]
    /\ UNCHANGED <<model, vectors, converged, faults>>

\* The inference fails: the write that waited is refused.
PrimeFails(t) ==
    /\ t \in inflight /\ model = "loaded" /\ faults < MaxFaults
    /\ inflight' = inflight \ {t}
    /\ faults' = faults + 1
    /\ health' = "failed"
    /\ write' = [write EXCEPT ![t] = IF @ = "priming" THEN "none" ELSE @]
    /\ UNCHANGED <<model, cache, vectors, converged>>

-----------------------------------------------------------------------------
(* Writes. *)

\* recordEventQueued: prepareRecordEventEmbedding primes the text; when the
\* provider is not ready the request is refused and the state stays.
Prepare(t) ==
    /\ write[t] = "none" /\ IsReady
    /\ IF t \in Range(cache)
       THEN write' = [write EXCEPT ![t] = "primed"] /\ cache' = Refreshed(cache, t)
                /\ UNCHANGED inflight
       ELSE write' = [write EXCEPT ![t] = "priming"] /\ inflight' = inflight \cup {t}
                /\ UNCHANGED cache
    /\ UNCHANGED <<model, health, vectors, converged, faults>>

\* Where a write whose embedding failed goes: a checkpoint is stored without
\* its vector if the failure is a cold start, everything else is queued.
Unembedded(t, cold) == IF t \in Checkpoint /\ cold THEN "stored" ELSE "retry"

\* recordEvent of a prepared write, an ingested event or a retried row.
Record(t) ==
    /\ write[t] \in {"none", "primed", "retry"}
    /\ \/ /\ IsReady /\ t \in Range(cache)
          /\ cache' = Refreshed(cache, t)
          /\ vectors' = vectors \cup {t}
          /\ write' = [write EXCEPT ![t] = "stored"]
          /\ UNCHANGED inflight
       \/ /\ IsReady /\ t \notin Range(cache)
          /\ inflight' = Missed(t)
          /\ write' = [write EXCEPT ![t] = Unembedded(t, TRUE)]
          /\ UNCHANGED <<cache, vectors>>
       \/ /\ ~IsReady
          /\ write' = [write EXCEPT ![t] = Unembedded(t, health = "cold")]
          /\ UNCHANGED <<cache, inflight, vectors>>
    /\ UNCHANGED <<model, health, converged, faults>>

-----------------------------------------------------------------------------
(* Reindexing. *)

Stored == {o \in Observation : write[o] = "stored"}

Missing == {o \in Stored : o \notin vectors \cup Old}

Legacy == {o \in Stored : o \in Old /\ o \notin vectors}

NewestFirst(S) == Sorted(S, {p \in S \X S : p[1] > p[2]})

\* The rows a call takes up: without a vector, else with an old one, else any.
Batch(limit) ==
    LET rowsOf == NewestFirst(IF Missing # {} THEN Missing
                              ELSE IF Legacy # {} THEN Legacy ELSE Stored)
    IN  SubSeq(rowsOf, 1, IF Len(rowsOf) < limit THEN Len(rowsOf) ELSE limit)

\* The first row of a batch that is not in the cache ends the call: embed()
\* throws through reindexVectors and the tick.
FirstMiss(batch) ==
    CHOOSE n \in 1..(Len(batch) + 1) :
        /\ \A i \in 1..(n - 1) : batch[i] \in Range(cache)
        /\ n <= Len(batch) => batch[n] \notin Range(cache)

\* tick: the rows before the first miss get their vectors, and their texts, all
\* cached, move to the young end.  A call that did not throw reports what is
\* left, and decides whether to slow down.
Reindex ==
    /\ IsReady /\ Stored # {}
    /\ LET batch == Batch(IF converged THEN 1 ELSE BatchSize)
           miss == FirstMiss(batch)
           done == SubSeq(batch, 1, miss - 1)
           threw == miss <= Len(batch)
       IN  /\ vectors' = vectors \cup Range(done)
           /\ cache' = Sublist(cache, Observation \ Range(done)) \o done
           /\ inflight' = IF threw THEN Missed(batch[miss]) ELSE inflight
           /\ converged' = IF threw THEN converged ELSE Stored \subseteq vectors'
    /\ UNCHANGED <<model, health, write, faults>>

LocalNext ==
    \/ ModelLoads
    \/ \E t \in Observation : PrimeEnds(t) \/ PrimeFails(t) \/ Prepare(t) \/ Record(t)
    \/ Reindex

LocalSpec == LocalInit /\ [][LocalNext]_localVars

\* The retry loop and the scheduler keep ticking, inference ends.
LocalFairSpec ==
    /\ LocalSpec
    /\ WF_localVars(ModelLoads)
    /\ \A t \in Observation : /\ WF_localVars(PrimeEnds(t))
                              /\ SF_localVars(write[t] # "none" /\ Record(t))
    /\ WF_localVars(Reindex)

-----------------------------------------------------------------------------
(***************************************************************************)
(* Only a checkpoint is stored without a vector of this or an earlier      *)
(* model, and no vector is made for a write that was not accepted.         *)
(***************************************************************************)
StoredWithVectors ==
    /\ vectors \subseteq Stored
    /\ Stored \ Checkpoint \subseteq vectors \cup Old

(***************************************************************************)
(* Unless the provider ends up failed, every observation that was accepted *)
(* is stored and gets a vector of the current model, although embed()      *)
(* fails on every first try, the cache is smaller than the work and a      *)
(* reindexing call gives up at its first miss.                             *)
(***************************************************************************)
CoverageReached ==
    \/ <>[](health = "failed")
    \/ <>[](\A o \in Observation : write[o] # "none" => o \in vectors)
=============================================================================
