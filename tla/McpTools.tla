------------------------------ MODULE McpTools ------------------------------
(***************************************************************************)
(* The MCP server's memory tools (mcp-server/src/tools/memory.ts) and the  *)
(* routes of the daemon they call (server.ts, middleware/validator.ts).    *)
(*                                                                         *)
(* A call passes the tool's own checks, makes sure that a daemon is there  *)
(* (a health check, cached for a while; a start and ten attempts if it     *)
(* fails), sends its requests and reports one answer. Several MCP servers, *)
(* one per agent, share the daemon. Arguments are named as in the code;    *)
(* an argument is given or it is not. The tool_use events that an OpenCode *)
(* server posts beside a call, without waiting, are not modelled.          *)
(***************************************************************************)
EXTENDS Naturals, FiniteSets

CONSTANTS
    Server,        \* MCP server processes
    Idle,          \* a process without a call
    CacheTime,     \* HEALTH_CACHE_MS
    Attempts,      \* health checks after a start: 10 in the code
    LastTick,      \* bound: the clock
    MaxCalls,      \* bound: calls made
    MaxFailures,   \* bound: times the daemon dies or refuses a write
    Remote,        \* processes with HARNESS_MEM_REMOTE_URL, which start no daemon
    Events         \* the events of a bulk_add

ASSUME McpAssumption == Attempts \in Nat

VARIABLES
    now,
    daemon,        \* "up" or "down"
    failures, calls,
    healthyAt,     \* [Server -> lastHealthyAt]
    call,          \* [Server -> Idle, or the call in progress]
    answer,        \* [Server -> the last call with what it reported]
    inflight,      \* [Server -> events of its last bulk_add whose request is under way]
    recorded,      \* [Server -> events of its last bulk_add that the daemon stored]
    deleted        \* an observation has been marked as deleted

mcpVars == <<now, daemon, failures, calls, healthyAt, call, answer, inflight, recorded,
             deleted>>

----------------------------------------------------------------------------
\* What the schema of a tool calls required (memoryTools).

SchemaOfReads ==
    [resume_pack |-> {"project"}, search |-> {"query"}, timeline |-> {"id"},
     get_observations |-> {"ids"}, sessions_list |-> {}, session_thread |-> {"session_id"},
     search_facets |-> {}]
SchemaOfWrites ==
    [record_checkpoint |-> {"session_id", "title", "content"},
     finalize_session |-> {"session_id"}, record_event |-> {"event"}, health |-> {},
     delete_observation |-> {"observation_id"}]
SchemaOfAdmin ==
    [admin_import_claude_mem |-> {"source_db_path"}, admin_import_status |-> {"job_id"},
     admin_verify_import |-> {"job_id"}, admin_reindex_vectors |-> {}, admin_metrics |-> {},
     admin_consolidation_run |-> {}, admin_consolidation_status |-> {}, admin_audit_log |-> {}]
SchemaOfTheRest ==
    [add_relation |-> {"from_observation_id", "to_observation_id", "relation"},
     bulk_add |-> {"events"}, bulk_delete |-> {"ids"}, export |-> {}, compress |-> {},
     stats |-> {}, ingest |-> {"file_path", "content"}, graph |-> {"observation_id"},
     share_to_team |-> {"observation_id", "team_id"}]

\* One table from two that share no entry.
Joined(f, g) == [x \in DOMAIN f \cup DOMAIN g |-> IF x \in DOMAIN f THEN f[x] ELSE g[x]]

Schema == Joined(Joined(SchemaOfReads, SchemaOfWrites), Joined(SchemaOfAdmin, SchemaOfTheRest))
Tool == DOMAIN Schema

\* What handleMemoryToolInner asks for, and the route it then calls.
Calls(checks, route) == [checks |-> checks, route |-> route]
HandlerOfSearch ==
    [resume_pack |-> Calls({"project"}, "POST resume-pack"),
     search |-> Calls({"query"}, "POST search")]
HandlerOfReads ==
    [sessions_list |-> Calls({}, "GET sessions/list"),
     session_thread |-> Calls({"session_id"}, "GET sessions/thread"),
     search_facets |-> Calls({}, "GET search/facets"),
     timeline |-> Calls({"id"}, "POST timeline"),
     get_observations |-> Calls({"ids"}, "POST observations/get")]
HandlerOfWrites ==
    [record_checkpoint |-> Calls({"session_id", "title", "content"}, "POST checkpoints/record"),
     finalize_session |-> Calls({"session_id"}, "POST sessions/finalize"),
     record_event |-> Calls({"event"}, "POST events/record"),
     health |-> Calls({}, "GET health"),
     delete_observation |-> Calls({"observation_id"}, "DELETE observations/:id")]
HandlerOfAdmin ==
    [admin_reindex_vectors |-> Calls({}, "POST admin/reindex-vectors"),
     admin_import_claude_mem |-> Calls({"source_db_path"}, "POST admin/imports/claude-mem"),
     admin_import_status |-> Calls({"job_id"}, "GET admin/imports/:id"),
     admin_verify_import |-> Calls({"job_id"}, "POST admin/imports/:id/verify"),
     admin_metrics |-> Calls({}, "GET admin/metrics"),
     admin_consolidation_run |-> Calls({}, "POST admin/consolidation/run"),
     admin_consolidation_status |-> Calls({}, "GET admin/consolidation/status"),
     admin_audit_log |-> Calls({}, "GET admin/audit-log")]
HandlerOfTheRest ==
    [add_relation |-> Calls({"from_observation_id", "to_observation_id", "relation"},
                            "POST links/create"),
     bulk_add |-> Calls({"events"}, "POST events/record"),
     bulk_delete |-> Calls({"ids"}, "POST observations/bulk-delete"),
     export |-> Calls({}, "GET export"),
     compress |-> Calls({}, "POST admin/consolidation/run"),
     stats |-> Calls({}, "GET projects/stats"),
     ingest |-> Calls({"file_path", "content"}, "POST ingest/document"),
     graph |-> Calls({"observation_id"}, "GET graph/neighbors"),
     share_to_team |-> Calls({"observation_id", "team_id"}, "POST observations/share")]

Handler == Joined(Joined(HandlerOfSearch, HandlerOfReads),
                  Joined(HandlerOfWrites, Joined(HandlerOfAdmin, HandlerOfTheRest)))

\* The daemon's routes, and what each asks for; 404 for every other request.
AdminRoutes ==
    {"GET health", "GET admin/metrics", "POST admin/consolidation/run",
     "GET admin/consolidation/status", "GET admin/audit-log", "POST admin/imports/claude-mem",
     "GET admin/imports/:id", "POST admin/imports/:id/verify"}
SearchRoutes == {"POST events/record", "POST search"}
ReadRoutes ==
    {"GET sessions/list", "GET sessions/thread", "GET search/facets", "POST timeline",
     "POST observations/get"}
SessionRoutes ==
    {"POST checkpoints/record", "POST sessions/finalize", "POST resume-pack",
     "GET projects/stats"}
LinkRoutes ==
    {"POST links/create", "POST observations/bulk-delete", "POST observations/share",
     "GET export"}
IngestRoutes ==
    {"POST admin/reindex-vectors", "GET graph/neighbors", "POST ingest/document"}
Routes == AdminRoutes \cup SearchRoutes \cup ReadRoutes \cup SessionRoutes
          \cup LinkRoutes \cup IngestRoutes
Asks(route) ==
    CASE route = "POST admin/imports/claude-mem" -> {"source_db_path"}
      [] route = "POST events/record"            -> {"event"}
      [] route = "POST search"                   -> {"query"}
      [] route = "GET sessions/thread"           -> {"session_id"}
      [] route = "POST timeline"                 -> {"id"}
      [] route = "POST checkpoints/record"       -> {"session_id", "title", "content"}
      [] route = "POST sessions/finalize"        -> {"session_id"}
      [] route = "POST resume-pack"              -> {"project"}
      [] route = "POST links/create"
            -> {"from_observation_id", "to_observation_id", "relation"}
      [] route = "POST observations/bulk-delete" -> {"ids"}
      [] route = "POST observations/share"       -> {"observation_id", "team_id"}
      [] route = "GET graph/neighbors"           -> {"observation_id"}
      [] OTHER                                   -> {}

\* The columns of mem_observations, as far as two statements of the core name
\* them: bulkDeleteObservations and exportObservations.
ObservationColumns ==
    {"id", "platform", "project", "session_id", "title", "content", "created_at",
     "tags_json", "privacy_tags_json", "user_id", "team_id"}
BulkDeleteColumns == {"id", "privacy_tags", "user_id", "team_id"}
ExportColumns ==
    {"id", "platform", "project", "session_id", "event_type", "title", "content",
     "created_at", "tags", "privacy_tags"}

\* An id whose statement fails is skipped, and the answer is still ok; an export
\* that fails answers with the error.
BulkDelete == BulkDeleteColumns \subseteq ObservationColumns
Served(route) ==
    IF route = "GET export" /\ ~(ExportColumns \subseteq ObservationColumns)
    THEN "failed" ELSE "ok"

\* The arguments a request carries: bulk_add sends one event a request.
Sent(c) == IF c.tool = "bulk_add" THEN {"event"} ELSE c.args

----------------------------------------------------------------------------

McpInit ==
    /\ now = CacheTime /\ failures = 0 /\ calls = 0
    /\ daemon \in {"up", "down"}
    /\ healthyAt = [p \in Server |-> 0]
    /\ call = [p \in Server |-> Idle]
    /\ answer = [p \in Server |-> Idle]
    /\ inflight = [p \in Server |-> {}]
    /\ recorded = [p \in Server |-> {}]
    /\ deleted = FALSE

\* What a call reports: complete says whether it had what the schema requires.
\* Tools whose effect nothing below looks at share a name.
Answer(t, args, said) ==
    [tool |-> IF t \in {"bulk_add", "bulk_delete", "delete_observation"} THEN t ELSE "other",
     complete |-> Schema[t] \subseteq args, said |-> said]

Report(p, said) ==
    /\ answer' = [answer EXCEPT ![p] = Answer(call[p].tool, call[p].args, said)]
    /\ call' = [call EXCEPT ![p] = Idle]

GoOn(p, to) == call' = [call EXCEPT ![p].at = to] /\ UNCHANGED answer

\* handleMemoryTool: the tool's own checks come first.  The next call of a process
\* waits here until the stray requests of its last bulk_add are over.
CallTool(p, t, args) ==
    /\ call[p] = Idle /\ inflight[p] = {}
    /\ calls < MaxCalls /\ calls' = calls + 1
    /\ \/ /\ Handler[t].checks \subseteq args
          /\ call' = [call EXCEPT ![p] = [tool |-> t, args |-> args, at |-> "ensure",
                                          left |-> Attempts]]
          /\ answer' = [answer EXCEPT ![p] = Idle]
       \/ /\ ~(Handler[t].checks \subseteq args)
          /\ answer' = [answer EXCEPT ![p] = Answer(t, args, "incomplete")]
          /\ UNCHANGED call
    /\ UNCHANGED <<now, daemon, failures, healthyAt, inflight, recorded, deleted>>

\* ensureDaemon: a recent health check is trusted; else one is made, and where it
\* fails a local daemon is started, which may take some time or not succeed.
EnsureDaemon(p) ==
    /\ call[p] # Idle /\ call[p].at = "ensure"
    /\ LET cached == now - healthyAt[p] < CacheTime
       IN  \/ cached /\ GoOn(p, "send") /\ UNCHANGED <<daemon, healthyAt>>
          \/ /\ ~cached /\ daemon = "up" /\ GoOn(p, "send")
             /\ healthyAt' = [healthyAt EXCEPT ![p] = now] /\ UNCHANGED daemon
          \/ /\ ~cached /\ daemon = "down" /\ p \in Remote
             /\ Report(p, "unavailable") /\ UNCHANGED <<daemon, healthyAt>>
          \/ /\ ~cached /\ daemon = "down" /\ p \notin Remote
             /\ daemon' \in {"up", "down"} /\ GoOn(p, "attempt") /\ UNCHANGED healthyAt
    /\ UNCHANGED <<now, failures, calls, inflight, recorded, deleted>>

AwaitDaemon(p) ==
    /\ call[p] # Idle /\ call[p].at = "attempt"
    /\ \/ /\ call[p].left > 0 /\ daemon = "up" /\ GoOn(p, "send")
          /\ healthyAt' = [healthyAt EXCEPT ![p] = now]
       \/ /\ call[p].left > 0 /\ daemon = "down" /\ UNCHANGED <<answer, healthyAt>>
          /\ call' = [call EXCEPT ![p].left = @ - 1]
       \/ /\ call[p].left = 0 /\ Report(p, "unavailable") /\ UNCHANGED healthyAt
    /\ UNCHANGED <<now, daemon, failures, calls, inflight, recorded, deleted>>

\* callMemoryApi: one request and its answer.
CallMemoryApi(p) ==
    /\ call[p] # Idle /\ call[p].at = "send" /\ call[p].tool # "bulk_add"
    /\ LET route == Handler[call[p].tool].route
       IN  \/ daemon = "down" /\ Report(p, "unavailable") /\ UNCHANGED <<failures, deleted>>
          \/ /\ daemon = "up" /\ route \notin Routes
             /\ Report(p, "not found") /\ UNCHANGED <<failures, deleted>>
          \/ /\ daemon = "up" /\ route \in Routes /\ ~(Asks(route) \subseteq Sent(call[p]))
             /\ Report(p, "bad request") /\ UNCHANGED <<failures, deleted>>
          \/ /\ daemon = "up" /\ route \in Routes /\ Asks(route) \subseteq Sent(call[p])
             /\ \/ /\ Report(p, Served(route)) /\ UNCHANGED failures
                   /\ deleted' = (deleted \/ (call[p].tool = "bulk_delete" /\ BulkDelete))
                \/ /\ failures < MaxFailures /\ failures' = failures + 1
                   /\ Report(p, "failed") /\ UNCHANGED deleted
    /\ UNCHANGED <<now, daemon, calls, healthyAt, inflight, recorded>>

\* harness_mem_bulk_add sends every event at once ...
SendBulk(p) ==
    /\ call[p] # Idle /\ call[p].at = "send" /\ call[p].tool = "bulk_add"
    /\ inflight' = [inflight EXCEPT ![p] = Events]
    /\ recorded' = [recorded EXCEPT ![p] = {}]
    /\ GoOn(p, "bulk")
    /\ UNCHANGED <<now, daemon, failures, calls, healthyAt, deleted>>

\* Mutant: the answer counts the requests that are over, not the events stored.
BulkRequestSettled(p, e) ==
    /\ e \in inflight[p]
    /\ inflight' = [inflight EXCEPT ![p] = @ \ {e}]
    /\ \/ /\ daemon = "up" /\ UNCHANGED failures
          /\ recorded' = [recorded EXCEPT ![p] = @ \cup {e}]
       \/ /\ daemon = "down" /\ UNCHANGED <<recorded, failures>>
    /\ \/ call[p] # Idle /\ inflight'[p] = {} /\ Report(p, "ok")
       \/ (call[p] = Idle \/ inflight'[p] # {}) /\ UNCHANGED <<call, answer>>
    /\ UNCHANGED <<now, daemon, calls, healthyAt, deleted>>

\* ... and Promise.all answers when all are stored or as soon as one fails; the
\* other requests go on after that.
BulkRequest(p, e) ==
    /\ e \in inflight[p]
    /\ inflight' = [inflight EXCEPT ![p] = @ \ {e}]
    /\ \/ /\ daemon = "up"
          /\ recorded' = [recorded EXCEPT ![p] = @ \cup {e}]
          /\ IF call[p] # Idle /\ inflight'[p] = {} THEN Report(p, "ok")
             ELSE UNCHANGED <<call, answer>>
          /\ UNCHANGED failures
       \/ /\ \/ daemon = "down" /\ UNCHANGED failures
             \/ failures < MaxFailures /\ failures' = failures + 1
          /\ IF call[p] # Idle THEN Report(p, "failed") ELSE UNCHANGED <<call, answer>>
          /\ UNCHANGED recorded
    /\ UNCHANGED <<now, daemon, calls, healthyAt, deleted>>

DaemonDies ==
    /\ daemon = "up" /\ failures < MaxFailures
    /\ daemon' = "down" /\ failures' = failures + 1
    /\ UNCHANGED <<now, calls, healthyAt, call, answer, inflight, recorded, deleted>>

DaemonStarted ==
    /\ daemon = "down" /\ daemon' = "up"
    /\ UNCHANGED <<now, failures, calls, healthyAt, call, answer, inflight, recorded, deleted>>

McpTick ==
    /\ now < LastTick /\ now' = now + 1
    /\ UNCHANGED <<daemon, failures, calls, healthyAt, call, answer, inflight, recorded, deleted>>

\* The arguments a caller may give or leave out.
Arguments(t) == Schema[t] \cup Handler[t].checks

McpNext ==
    \/ \E p \in Server, t \in Tool : \E args \in SUBSET Arguments(t) : CallTool(p, t, args)
    \/ \E p \in Server : \/ EnsureDaemon(p) \/ AwaitDaemon(p)
                        \/ CallMemoryApi(p) \/ SendBulk(p)
    \/ \E p \in Server, e \in Events : BulkRequest(p, e)
    \/ DaemonDies \/ DaemonStarted \/ McpTick

McpSpec == McpInit /\ [][McpNext]_mcpVars

----------------------------------------------------------------------------

\* A call with every argument that its published schema requires is refused for
\* a missing argument neither by the tool's handler nor by the daemon's route:
\* three lists, kept by hand in three places, that must agree for 29 tools.
CompleteCallsAccepted ==
    \A p \in Server :
        answer[p] # Idle /\ answer[p].said \in {"incomplete", "bad request"}
            => ~answer[p].complete

\* A bulk_add that reports success has stored every event, though its requests
\* race one another and the daemon may die between them.
BulkOkMeansAll ==
    \A p \in Server :
        answer[p] # Idle /\ answer[p].tool = "bulk_add" /\ answer[p].said = "ok"
            => recorded[p] = Events

\* A delete tool that reaches the daemon deletes: afterwards the observation is
\* marked. (harness_mem_delete_observation, harness_mem_bulk_delete.)
DeletesTakeEffect ==
    \A p \in Server :
        (/\ answer[p] # Idle
         /\ answer[p].tool \in {"delete_observation", "bulk_delete"}
         /\ answer[p].said \in {"ok", "not found"}) => deleted

\* A tool's answer can be relied on: a complete call is never refused as
\* incomplete, and a bulk_add that reports success stored everything.
AnswersHonest == CompleteCallsAccepted /\ BulkOkMeansAll
============================================================================
