---------------------------- MODULE MCBackground -----------------------------
(***************************************************************************)
(* The daemon's background work, checked in one run.  Its parts share no   *)
(* state: part says which one a behaviour is about, and only that one's    *)
(* variables move.                                                         *)
(***************************************************************************)
EXTENDS Sessions, CircuitBreaker, EmbeddingRoutes

VARIABLE part

vars == <<part, sessionVars, breakerVars, adaptiveVars, localVars>>

------------------------------------------------------------------------------
MCEventKind == [s \in Session |-> IF s = "s1" THEN {"prompt", "response"} ELSE {"done"}]

MCBackoff == <<1, 2>>

------------------------------------------------------------------------------
ButSessions == <<part, breakerVars, adaptiveVars, localVars>>
ButBreaker  == <<part, sessionVars, adaptiveVars, localVars>>
ButAdaptive == <<part, sessionVars, breakerVars, localVars>>
ButLocal    == <<part, sessionVars, breakerVars, adaptiveVars>>

(***************************************************************************)
(* Two scenes of the sessions: two sessions with up to three rows, the     *)
(* first's archived or not (sessions), or one that outgrows what a summary *)
(* reviews, its answer coming last, next to one with a row (long).  What   *)
(* the tick writes is never refused.                                       *)
(***************************************************************************)
InSessions == part \in {"sessions", "long"}

RowsOf(s) == {i \in DOMAIN entries : entries[i].session = s}

ByClient == tick' = tick /\ Len(entries') > Len(entries)

Staged ==
    /\ part = "sessions" /\ Len(entries) >= 3 => ~ByClient /\ closed' = closed
    /\ part = "sessions" =>
          \A i \in DOMAIN entries' : entries'[i].archived => entries'[i].session = "s1"
    /\ part = "long" =>
          /\ closed' = {} /\ \A i \in DOMAIN entries' : ~entries'[i].archived
          /\ ByClient =>
                LET row == entries'[Len(entries')]
                    had == Cardinality(RowsOf(row.session))
                IN  /\ row.at = clock
                    /\ row.session = "s1" => had < 5 /\ row.kind = IF had = 3 THEN "response" ELSE "prompt"
                    /\ row.session = "s2" => had = 0 /\ row.kind = "done"

\* Where a behaviour is about another part, one initial state of this one.
OneStart ==
    /\ part # "breaker" => endpoint
    /\ part # "adaptive" => api

Init ==
    /\ part \in {"sessions", "long", "breaker", "adaptive", "local"}
    /\ SessionInit /\ BreakerInit /\ AdaptiveInit /\ LocalInit
    /\ OneStart

Next ==
    \/ InSessions /\ SessionNext /\ Staged /\ UNCHANGED ButSessions
    \/ part = "breaker" /\ BreakerNext /\ UNCHANGED ButBreaker
    \/ part = "adaptive" /\ AdaptiveNext /\ UNCHANGED ButAdaptive
    \/ part = "local" /\ LocalNext /\ UNCHANGED ButLocal

\* The fairness of each part's specification.  A behaviour is about one part, so
\* fairness of a union of actions, one per part, is fairness of each.
Fairness ==
    /\ WF_vars(\/ InSessions /\ StartTick /\ UNCHANGED ButSessions
               \/ part = "local" /\ ModelLoads /\ UNCHANGED ButLocal)
    /\ WF_vars(\/ /\ InSessions /\ (\E ok \in BOOLEAN : ProcessSession(ok))
                  /\ UNCHANGED ButSessions
               \/ part = "local" /\ Reindex /\ UNCHANGED ButLocal)
    /\ \A s \in Session :
         SF_vars(InSessions /\ AtHead(s) /\ ProcessSession(TRUE) /\ UNCHANGED ButSessions)
    /\ \A t \in Observation :
         /\ WF_vars(part = "local" /\ PrimeEnds(t) /\ UNCHANGED ButLocal)
         /\ SF_vars(part = "local" /\ write[t] # "none" /\ Record(t) /\ UNCHANGED ButLocal)

Spec == Init /\ [][Next]_vars /\ Fairness

(***************************************************************************)
(* CoverageReached of LocalEmbedding, in the behaviours that are about it: *)
(* embed() in local-onnx.ts fails on a first try, and writes, retries and  *)
(* reindexing still cover every accepted observation.                      *)
(***************************************************************************)
LocalCoverageReached == part = "local" => CoverageReached
==============================================================================
