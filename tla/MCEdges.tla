------------------------------ MODULE MCEdges --------------------------------
(***************************************************************************)
(* The parts of the system around the recorder, checked in one run: the    *)
(* audit log, the feed, links, synchronisation, imports, project names,    *)
(* the schema, the MCP tools, the rate limiter, the session files and the  *)
(* teams.                                                                  *)
(* They share no state: part says which one a behaviour is about, and only *)
(* that one's variables move.                                              *)
(***************************************************************************)
EXTENDS AuditChain, FeedStream, AutoLinks, CloudSync, Imports, Projects,
        SchemaMigration, McpTools, RateLimiter, McpSessions, Teams, TLC

CONSTANTS p, q, z

VARIABLE part

------------------------------------------------------------------------------
\* Projects: a repository, a directory in it, its parent, and the spellings of
\* its name that clients send; the file system ignores case.
MCName == {"repo", "/w", "/w/repo", "/w/Repo/sub", "/w/Repo"}
MCAbsolute == MCName \ {"repo"}
MCBase == ("repo" :> "repo") @@ ("/w" :> "w") @@ ("/w/repo" :> "repo")
          @@ ("/w/Repo/sub" :> "sub") @@ ("/w/Repo" :> "Repo")
MCLowerCase == [n \in MCName \cup {"w", "sub", "Repo"} |->
                   CASE n = "/w/Repo" -> "/w/repo" [] n = "Repo" -> "repo" [] OTHER -> n]
MCAncestors == ("repo" :> {"repo"}) @@ ("/w" :> {"/w"}) @@ ("/w/repo" :> {"/w/repo", "/w"})
               @@ ("/w/Repo/sub" :> {"/w", "/w/Repo", "/w/Repo/sub"})
               @@ ("/w/Repo" :> {"/w", "/w/Repo"})
MCReal == [n \in MCName |-> IF n = "/w/repo" THEN "/w/Repo" ELSE n]
MCConfigRoots == <<>>
MCGitRoot == [n \in MCName |-> IF n \in {"/w/Repo", "/w/Repo/sub"} THEN "/w/Repo" ELSE "none"]

\* A repository, a directory in it and another project: the daemon tells them
\* apart, the UI matches a path with what is below and above it.
MCExpansion == [x \in Project |-> {x}]
MCRelated == [x \in Project |-> IF x = z THEN {z} ELSE Project \ {z}]

\* The UI pages through two rows and selects the repository or all projects; the
\* client that resumes sees rows of one project, more of them than the ring keeps.
Watching ==
    /\ watched = "ui" => /\ \A row \in feedRows' : row.id <= 2
                         /\ list'.sel \in {p, AllProjects} /\ Cardinality(hidden') <= 1
    /\ watched = "reader" => \A row \in feedRows' : row.project = p

\* The list of the UI keeps nothing of a restart but the cut of its stream.
MCRestarts == [ui |-> 0, reader |-> 2]

\* The columns that releases left behind, from the first one to the last.
FirstRelease == {}
SecondRelease == {"observation_type", "correlation_id", "superseded_by", "fact_validity",
                  "signal_score", "access_count", "user_and_team", "cognitive_sector",
                  "memory_type", "workspace_uid", "title_fts", "content_fts"}
ThirdRelease == SecondRelease \cup {"raw_text", "thread_and_topic", "expires_at", "branch"}
FourthRelease == ThirdRelease \cup {"archived_at", "tenant"}
FifthRelease == FourthRelease \cup {"content_dedupe_hash"}
LastRelease == FifthRelease \cup {"event_time", "observed_at", "invalidated_at", "prev_hash"}
MCRelease == {FirstRelease, SecondRelease, ThirdRelease, FourthRelease, FifthRelease, LastRelease}

------------------------------------------------------------------------------
ButAudit == <<part, feedVars, linkVars, syncVars, importVars, projectVars,
              schemaVars, mcpVars, rateVars, sessionFileVars, teamVars>>
ButFeed == <<part, vars, linkVars, syncVars, importVars, projectVars,
             schemaVars, mcpVars, rateVars, sessionFileVars, teamVars>>
ButLinks == <<part, vars, feedVars, syncVars, importVars, projectVars,
              schemaVars, mcpVars, rateVars, sessionFileVars, teamVars>>
ButSync == <<part, vars, feedVars, linkVars, importVars, projectVars,
             schemaVars, mcpVars, rateVars, sessionFileVars, teamVars>>
ButImports == <<part, vars, feedVars, linkVars, syncVars, projectVars,
                schemaVars, mcpVars, rateVars, sessionFileVars, teamVars>>
ButProjects == <<part, vars, feedVars, linkVars, syncVars, importVars,
                 schemaVars, mcpVars, rateVars, sessionFileVars, teamVars>>
ButSchema == <<part, vars, feedVars, linkVars, syncVars, importVars,
               projectVars, mcpVars, rateVars, sessionFileVars, teamVars>>
ButMcp == <<part, vars, feedVars, linkVars, syncVars, importVars,
            projectVars, schemaVars, rateVars, sessionFileVars, teamVars>>
ButRate == <<part, vars, feedVars, linkVars, syncVars, importVars,
             projectVars, schemaVars, mcpVars, sessionFileVars, teamVars>>
ButFiles == <<part, vars, feedVars, linkVars, syncVars, importVars,
              projectVars, schemaVars, mcpVars, rateVars, teamVars>>
ButTeams == <<part, vars, feedVars, linkVars, syncVars, importVars,
              projectVars, schemaVars, mcpVars, rateVars, sessionFileVars>>

\* Where a behaviour is about another part, one initial state of this one.
OneStart ==
    /\ part # "feed" => watched = "ui"
    /\ part # "projects" => dirs = {}
    /\ part # "schema" => tables = {} /\ vectors = {}
    /\ part # "mcp" => daemon = "up"

EdgesInit ==
    /\ part \in {"audit", "feed", "links", "sync", "imports",
                 "projects", "schema", "mcp", "rate", "files", "teams"}
    /\ Init /\ FeedInit /\ LinksInit /\ SyncInit /\ ImportInit /\ ProjectInit
    /\ SchemaInit /\ McpInit /\ RateInit /\ SessionFilesInit
    /\ TeamsInit
    /\ OneStart

EdgesNext ==
    \/ part = "audit" /\ Next /\ UNCHANGED ButAudit
    \/ part = "feed" /\ FeedNext /\ Watching /\ UNCHANGED ButFeed
    \/ part = "links" /\ LinksNext /\ UNCHANGED ButLinks
    \/ part = "sync" /\ SyncNext /\ UNCHANGED ButSync
    \/ part = "imports" /\ ImportNext /\ UNCHANGED ButImports
    \/ part = "projects" /\ ProjectNext /\ UNCHANGED ButProjects
    \/ part = "schema" /\ SchemaNext /\ UNCHANGED ButSchema
    \/ part = "mcp" /\ McpNext /\ UNCHANGED ButMcp
    \/ part = "rate" /\ RateNext /\ UNCHANGED ButRate
    \/ part = "files" /\ SessionFilesNext /\ UNCHANGED ButFiles
    \/ part = "teams" /\ TeamsNext /\ UNCHANGED ButTeams

EdgesSpec == EdgesInit /\ [][EdgesNext]_<<part, vars, feedVars, linkVars, syncVars, importVars,
                                        projectVars, schemaVars, mcpVars, rateVars, sessionFileVars, teamVars>>
==============================================================================
