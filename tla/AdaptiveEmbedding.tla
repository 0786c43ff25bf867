------------------------- MODULE AdaptiveEmbedding -------------------------
(***************************************************************************)
(* The general route of the adaptive embedding provider                    *)
(* (embedding/adaptive-provider.ts) over the Pro API                       *)
(* (embedding/pro-api-provider.ts), and the write path that stores a       *)
(* vector under the label the provider names (resolveEmbeddings in         *)
(* harness-mem-core.ts, upsertVector in event-recorder.ts).                *)
(*                                                                         *)
(* The Pro API provider answers from an LRU cache and otherwise asks the   *)
(* API; when that fails it answers, and caches, a vector of the free       *)
(* model.  The adaptive provider looks at the Pro API's health, diverts to *)
(* the free model with a growing backoff, and probes when the backoff is   *)
(* over.  Writes go through prime() first (asynchronous) and embed() later *)
(* (synchronous).  A vector is known by who made it.  The label is read in *)
(* the same stretch as the embedding: a backoff does not run out between   *)
(* the two.                                                                *)
(*                                                                         *)
(* missed is history: the texts a request to the Pro API has failed for.   *)
(*                                                                         *)
(* Only texts of the general route (openai, or the secondary vector of     *)
(* ensemble) are modelled; the Japanese route is LocalEmbedding's.         *)
(***************************************************************************)
EXTENDS SortedLists

CONSTANTS
    Text,           \* texts that are embedded
    Capacity,       \* entries of the Pro API's cache
    Backoff,        \* GENERAL_PROVIDER_BACKOFF_MS, a sequence of waits
    LocalModels     \* is the free model a local ONNX model?

ASSUME AdaptiveAssumption ==
    /\ Capacity \in Nat \ {0}
    /\ Backoff \in Seq(Nat \ {0}) /\ Backoff # <<>>
    /\ LocalModels \in BOOLEAN

Makers == {"general", "free"}

VARIABLES
    api,            \* does the Pro API answer?
    proHealthy,     \* lastHealth of the Pro API provider
    proCache,       \* its cache, oldest entry first
    priming,        \* prime() of each text: "idle", "asking" or "answered"
    fallback,       \* generalFallbackState
    rows,           \* mem_vectors: text, label and maker of each vector
    missed          \* texts a request has failed for

adaptiveVars == <<api, proHealthy, proCache, priming, fallback, rows, missed>>

CacheEntry(t, by) == [text |-> t, by |-> by]

AdaptiveTypeOK ==
    /\ api \in BOOLEAN
    /\ proHealthy \in BOOLEAN
    /\ proCache \in Seq([text : Text, by : Makers])
    /\ Len(proCache) <= Capacity
    /\ \A i, j \in DOMAIN proCache : proCache[i].text = proCache[j].text => i = j
    /\ priming \in [Text -> {"idle", "asking", "answered"}]
    /\ fallback \in [active : BOOLEAN, fails : 0..Len(Backoff), wait : Nat]
    /\ ~fallback.active => fallback = [active |-> FALSE, fails |-> 0, wait |-> 0]
    /\ rows \in SUBSET [text : Text, label : Makers, by : Makers]
    /\ missed \subseteq Text

AdaptiveInit ==
    /\ api \in BOOLEAN
    /\ proHealthy = TRUE
    /\ proCache = <<>>
    /\ priming = [t \in Text |-> "idle"]
    /\ fallback = [active |-> FALSE, fails |-> 0, wait |-> 0]
    /\ rows = {} /\ missed = {}

-----------------------------------------------------------------------------
(* The Pro API's cache. *)

Cached(t) == \E i \in DOMAIN proCache : proCache[i].text = t

MakerOf(t) == proCache[CHOOSE i \in DOMAIN proCache : proCache[i].text = t].by

Without(t) == Sublist(proCache, [text : Text \ {t}, by : Makers])

\* setCachedEmbedding, and the refresh of a hit by getCachedEmbedding.
Remember(t, by) ==
    LET longer == Append(Without(t), CacheEntry(t, by))
    IN  IF Len(longer) > Capacity THEN Tail(longer) ELSE longer

\* What the API leads to: its own vector, or the free model's.
Asked == IF api THEN "general" ELSE "free"

\* The texts a request has failed for, after one for t.
MissedWith(t) == IF api THEN missed ELSE missed \cup {t}

\* embedInternal: from the cache, or from a request that also decides the
\* health.
GeneralAnswer(t) ==
    IF Cached(t)
    THEN [by |-> MakerOf(t), healthy |-> proHealthy, cache |-> Remember(t, MakerOf(t))]
    ELSE [by |-> Asked, healthy |-> api, cache |-> Remember(t, Asked)]

-----------------------------------------------------------------------------
(* The adaptive provider's fallback. *)

InWindow == fallback.active /\ fallback.wait > 0

EnterGeneralFallback ==
    LET n == IF fallback.fails < Len(Backoff) THEN fallback.fails + 1 ELSE fallback.fails
    IN  [active |-> TRUE, fails |-> n, wait |-> Backoff[n]]

ExitGeneralFallback == [active |-> FALSE, fails |-> 0, wait |-> 0]

\* The free model answers without a look at the general provider: its health
\* was bad already, or the backoff is running.
DivertedState ==
    IF fallback.active THEN fallback ELSE EnterGeneralFallback

Diverted == InWindow \/ (~fallback.active /\ ~proHealthy)

\* Mutant: the degraded provider's own answer is kept.
RunGeneralSyncKeepsAnswer(t) ==
    LET answer == GeneralAnswer(t) IN
    IF Diverted
    THEN [by |-> "free", fallback |-> DivertedState, healthy |-> proHealthy, cache |-> proCache]
    ELSE [by |-> answer.by,
          fallback |-> IF answer.healthy THEN ExitGeneralFallback ELSE EnterGeneralFallback,
          healthy |-> answer.healthy, cache |-> answer.cache]

\* runGeneralSync: a degraded provider's answer is thrown away.
RunGeneralSync(t) ==
    LET answer == GeneralAnswer(t) IN
    IF Diverted
    THEN [by |-> "free", fallback |-> DivertedState, healthy |-> proHealthy, cache |-> proCache]
    ELSE [by |-> IF answer.healthy THEN answer.by ELSE "free",
          fallback |-> IF answer.healthy THEN ExitGeneralFallback ELSE EnterGeneralFallback,
          healthy |-> answer.healthy, cache |-> answer.cache]

\* primaryModelFor, read after the embedding was made.
LabelIn(state) == IF state.active /\ state.wait > 0 THEN "free" ELSE "general"

\* getEmbeddingReadiness: with local models the provider's health decides
\* whether anything is embedded at all, and an active fallback is degraded.
Ready == LocalModels => ~fallback.active /\ proHealthy

-----------------------------------------------------------------------------
\* The sync part of a write, a retry or a reindex: resolveEmbeddings and
\* upsertVector.  When the embedding is not ready the write fails instead.
WriteVector(t) ==
    /\ Ready
    /\ LET run == RunGeneralSync(t)
       IN  /\ rows' = rows \cup {[text |-> t, label |-> LabelIn(run.fallback), by |-> run.by]}
           /\ fallback' = run.fallback
           /\ proHealthy' = run.healthy
           /\ proCache' = run.cache
    /\ missed' = IF Diverted \/ Cached(t) THEN missed ELSE MissedWith(t)
    /\ UNCHANGED <<api, priming>>

\* prepareEmbeddingForSync: runGeneralAsync up to its await.
StartPrime(t) ==
    /\ Ready
    /\ priming[t] = "idle"
    /\ \/ /\ Diverted
          /\ fallback' = DivertedState
          /\ UNCHANGED <<proCache, priming>>
       \/ /\ ~Diverted /\ Cached(t)
          /\ proCache' = Remember(t, MakerOf(t))
          /\ priming' = [priming EXCEPT ![t] = "answered"]
          /\ UNCHANGED fallback
       \/ /\ ~Diverted /\ ~Cached(t)
          /\ priming' = [priming EXCEPT ![t] = "asking"]
          /\ UNCHANGED <<proCache, fallback>>
    /\ UNCHANGED <<api, proHealthy, rows, missed>>

\* The request of primeInternal ends, well or not.
AnswerPrime(t) ==
    /\ priming[t] = "asking"
    /\ proCache' = Remember(t, Asked)
    /\ proHealthy' = api
    /\ priming' = [priming EXCEPT ![t] = "answered"]
    /\ missed' = MissedWith(t)
    /\ UNCHANGED <<api, fallback, rows>>

\* runGeneralAsync goes on after its await, with the health it finds then.
EndPrime(t) ==
    /\ priming[t] = "answered"
    /\ fallback' = IF proHealthy THEN ExitGeneralFallback ELSE EnterGeneralFallback
    /\ priming' = [priming EXCEPT ![t] = "idle"]
    /\ UNCHANGED <<api, proHealthy, proCache, rows, missed>>

\* The backoff runs down.
BackoffRuns ==
    /\ fallback.wait > 0
    /\ fallback' = [fallback EXCEPT !.wait = @ - 1]
    /\ UNCHANGED <<api, proHealthy, proCache, priming, rows, missed>>

ApiFlaps ==
    /\ api' = ~api
    /\ UNCHANGED <<proHealthy, proCache, priming, fallback, rows, missed>>

AdaptiveNext ==
    \/ \E t \in Text : WriteVector(t) \/ StartPrime(t) \/ AnswerPrime(t) \/ EndPrime(t)
    \/ BackoffRuns
    \/ ApiFlaps

AdaptiveSpec == AdaptiveInit /\ [][AdaptiveNext]_adaptiveVars

-----------------------------------------------------------------------------
(***************************************************************************)
(* A vector stored under the free model's label was made by the free       *)
(* model: a search that compares by label never meets a Pro vector there.  *)
(***************************************************************************)
FreeLabelTrue == \A r \in rows : r.label = "free" => r.by = "free"

(***************************************************************************)
(* The general label says less.  The Pro API provider caches the free      *)
(* vector it answers with after a failed request (pro-api-provider.ts:318) *)
(* and serves it as its own when it is healthy again.  Only such a vector  *)
(* of the free model is stored as general: a request for that very text    *)
(* had failed, and what the adaptive provider diverted by itself is        *)
(* labelled free.                                                          *)
(***************************************************************************)
GeneralLabelEarned ==
    \A r \in rows : r.label = "general" /\ r.by = "free" => r.text \in missed

\* Cache, fallback and stored vectors agree, whatever the API does between the
\* two halves of a write.
LabelsSound == AdaptiveTypeOK /\ FreeLabelTrue /\ GeneralLabelEarned
=============================================================================
