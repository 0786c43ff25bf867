--------------------------- MODULE ObservationStore ---------------------------
(***************************************************************************)
(* What memory-server/src/core/observation-store.ts lets a caller read, and *)
(* the operations that make a stored observation readable or not: sharing, *)
(* links, the contradiction scan, the forget policy, duplicate cleanup and *)
(* the passing of a TTL.  Every reader is an operator from a request to    *)
(* observations, and the invariants speak of every request in every state. *)
(* Readers are synchronous: nothing interleaves with one, but anything may *)
(* have happened before it.  Search alone writes: it counts accesses.      *)
(*                                                                         *)
(* An observation is a number, its place in creation order.  Scores are    *)
(* abstracted to small numbers; 0 is "neither words nor vector match".     *)
(***************************************************************************)
EXTENDS SortedLists, Functions

CONSTANTS Obs,           \* observations, numbered in order of creation
          Row,           \* the rows to look at: what never changes of one
          Stores,        \* the stores to look at: Obs -> Row
          Request,       \* the requests to look at
          Members,       \* project selection -> the projects it expands to
          ChainOf,       \* session -> correlation id
          Team, None,
          PageLimit,     \* rows a reader returns at most
          ForgetLimit,   \* rows the forget policy archives in one run
          MaxOps         \* bound on operations before a read

ASSUME ObservationAssumption ==
    /\ Obs \subseteq Nat \ {0} /\ IsFiniteSet(Obs)
    /\ Stores \subseteq [Obs -> Row] /\ (\A r \in Row : r.score \in Nat) /\ None \notin Team
    /\ PageLimit \in Nat \ {0} /\ ForgetLimit \in Nat \ {0}

VARIABLES row,         \* mem_observations: the columns that never change
          team,        \* team_id
          archived,    \* rows with archived_at
          over,        \* rows whose expires_at has passed
          hit,         \* rows with access_count > 0
          forgotten,   \* ghost: rows the forget policy archived
          links,       \* mem_links: from, to, relation
          scan,        \* a contradiction scan under way: pairs and verdicts
          ops

storeVars == <<row, team, archived, over, hit, forgotten, links, scan, ops>>

Relation == {"updates", "supersedes", "superseded", "shared_entity"}

StoreTypeOK ==
    /\ row \in [Obs -> Row] /\ team \in [Obs -> Team \cup {None}]
    /\ archived \subseteq Obs /\ over \subseteq Obs /\ hit \subseteq Obs
    /\ forgotten \subseteq archived
    /\ links \subseteq Obs \X Obs \X Relation
    /\ scan = None \/ /\ scan.pending \subseteq Obs \X Obs
                      /\ scan.confirmed \subseteq Obs \X Obs

StoreInit ==
    /\ row \in Stores
    /\ team = [o \in Obs |-> None]
    /\ archived = {} /\ over = {} /\ hit = {} /\ forgotten = {} /\ links = {}
    /\ scan = None /\ ops = 0

------------------------------------------------------------------------------
(* The filters. *)

\* resolveProjectMembers: no project selects every project.
ProjectMembers(q) == IF q.project = None THEN {r.project : r \in Row}
                     ELSE Members[q.project]

\* appendProjectFilter.
InProjects(projects) == {o \in Obs : row[o].project \in projects}

\* appendTenantFilter: own rows or those of the team; no user, no filter.
TenantFilter(q) ==
    IF q.user = None THEN Obs
    ELSE {o \in Obs : row[o].owner = q.user \/ (q.team # None /\ team[o] = q.team)}

\* visibilityFilterSql.
VisibilityFilter(q) == {o \in Obs : q.private \/ ~row[o].private}

\* archivedFilterSql: archived and expired rows go by the same flag.
ArchivedFilter(q) == IF q.archived THEN Obs ELSE Obs \ (archived \cup over)

\* Mutant: the common filters leave the tenant out.
FiltersOfAll(q) ==
    {o \in Obs : /\ q.strict => row[o].project \in ProjectMembers(q)
                 /\ q.session = None \/ row[o].session = q.session
                 /\ q.attr = None \/ row[o].attr = q.attr
                 /\ o <= q.until /\ o \notin over}
    \cap VisibilityFilter(q) \cap ArchivedFilter(q)

\* applyCommonFilters.  attr stands for thread, topic, type and branch.
CommonFilters(q) ==
    {o \in Obs : /\ q.strict => row[o].project \in ProjectMembers(q)
                 /\ q.session = None \/ row[o].session = q.session
                 /\ q.attr = None \/ row[o].attr = q.attr
                 /\ o <= q.until
                 /\ o \notin over}
    \cap TenantFilter(q) \cap VisibilityFilter(q) \cap ArchivedFilter(q)

\* Mutant: loadObservations forgets the archived clause.
LoadAll(ids) == ids

\* loadObservations: archived and expired rows are not loaded.
LoadObservations(ids) == ids \cap (Obs \ (archived \cup over))

\* loadSupersededObservationIds reads one of the two relations.
SupersededIds(ids) == {o \in ids : \E p \in Obs : <<p, o, "supersedes">> \in links}

Newest(ids) == {o \in ids : \A p \in ids : p <= o}
FirstPage(ids) == {o \in ids : Cardinality({p \in ids : p > o}) < PageLimit}

------------------------------------------------------------------------------
(* The latest interaction. *)

\* queryLatestInteractionObservations: prompts and answers, whatever became of
\* them since.
InteractionRows(q, projects) ==
    {o \in InProjects(projects) \cap VisibilityFilter(q) :
        row[o].event \in {"prompt", "response"}}

\* collectLatestInteractionContexts: per session the last answer with the
\* prompt before it, else the last prompt.
InteractionContexts(ids) ==
    LET Turns(s) == {o \in ids : row[o].session = s}
        Prompts(s) == {o \in Turns(s) : row[o].event = "prompt"}
        Done(s) == {o \in Turns(s) : /\ row[o].event = "response"
                                     /\ \E p \in Prompts(s) : p < o}
        Context(s) ==
            IF Done(s) # {}
            THEN LET r == CHOOSE o \in Newest(Done(s)) : TRUE
                 IN  {r} \cup Newest({x \in Prompts(s) : x < r})
            ELSE Newest(Prompts(s))
    IN  {Context(s) : s \in {row[o].session : o \in ids}} \ {{}}

\* selectLatestInteractionContext.
LatestContext(ids) ==
    LET contexts == InteractionContexts(ids)
    IN  IF contexts = {} THEN {}
        ELSE CHOOSE c \in contexts : Newest(c) = Newest(UNION contexts)

\* getLatestInteractionContext, for a search.
SearchInteraction(q) ==
    IF q.session = None /\ ~(q.strict /\ q.project # None) THEN {}
    ELSE LatestContext({o \in InteractionRows(q, ProjectMembers(q)) \cap TenantFilter(q) :
                            q.session = None \/ row[o].session = q.session})

\* getResumeInteractionContext passes neither user nor team on.
ResumeInteraction(q) ==
    LatestContext({o \in InteractionRows(q, ProjectMembers(q)) :
                      /\ row[o].session # q.session
                      /\ q.chain = None \/ ChainOf[row[o].session] = q.chain})

\* listChainSessionIds.
ChainSessions(q) == {s \in DOMAIN ChainOf : q.chain # None /\ ChainOf[s] = q.chain}

\* buildRecentProjectContext: the other sessions of the project.
RecentContext(q, primary) ==
    LET shut == {q.session} \cup {row[o].session : o \in primary} \cup ChainSessions(q)
    IN  UNION {c \in InteractionContexts(InteractionRows(q, ProjectMembers(q))) :
                  \A o \in c : row[o].session \notin shut}

------------------------------------------------------------------------------
(* search. *)

\* lexicalSearch; the page of candidates is larger than the store.
LexicalSearch(q) == {o \in CommonFilters(q) : row[o].score > 0}

\* vectorSearch, with sqlite-vec or by brute force.
VectorSearch(q) == {o \in CommonFilters(q) : row[o].score > 0}

\* The visible rows that a link joins to one of ids; not every relation counts.
Neighbours(q, ids) ==
    {o \in CommonFilters(q) : \E p \in ids, r \in Relation \ {"supersedes"} :
        p # o /\ (<<p, o, r>> \in links \/ <<o, p, r>> \in links)}

\* expandByLinks: four hops along mem_links, both ways, every row filtered.
ExpandByLinks(q, ids) ==
    LET Hop(seen) == seen \cup Neighbours(q, seen)
    IN  IF q.expand THEN Hop(Hop(Hop(Hop(ids)))) ELSE ids

\* expandObservationsViaGraph, for a depth above 0: rows that share an entity,
\* unfiltered.
ExpandViaGraph(ids, depth) ==
    LET walk[n \in 0..depth] ==
            IF n = 0 THEN ids
            ELSE LET seen == walk[n - 1]
                 IN  seen \cup {o \in Obs : \E p \in seen :
                                   row[o].entities \cap row[p].entities # {}}
    IN  IF depth = 0 THEN ids ELSE walk[depth]

\* extractFileFilterIds: rows with the provenance tag, unfiltered.
FileFilterIds == {o \in Obs : row[o].file}

\* What the words and the vector of a question find.
Found(q) == LexicalSearch(q) \cup VectorSearch(q)

\* A question about the latest interaction adds it to what was found.
WithInteraction(q, ids) ==
    IF q.latest /\ q.until >= Cardinality(Obs) THEN ids \cup SearchInteraction(q) ELSE ids

\* The candidates of a search.
Candidates(q) ==
    IF q.file THEN FileFilterIds
    ELSE ExpandViaGraph(ExpandByLinks(q, WithInteraction(q, Found(q))), q.depth)

\* exclude_updated hides what an update or a contradiction replaced.
UpdatedIds(q, ids) ==
    IF ~q.current THEN {}
    ELSE {o \in ids : \E p \in Obs, r \in {"updates", "superseded"} :
                          <<p, o, r>> \in links}

\* The loop that admits candidates to the ranking.
Admitted(q, ids) ==
    {o \in LoadObservations(ids) \ UpdatedIds(q, ids) :
        /\ q.strict /\ q.project # None => row[o].project = q.project
        /\ q.private \/ ~row[o].private}

\* The sort by the final score: best first, newer first among equals.
ByScore(ids, score) ==
    Sorted(ids, {p \in ids \X ids : \/ score[p[1]] > score[p[2]]
                                    \/ score[p[1]] = score[p[2]] /\ p[1] > p[2]})

ByDate(ids, ascending) ==
    Sorted(ids, {p \in ids \X ids : IF ascending THEN p[1] < p[2] ELSE p[1] > p[2]})

\* applyRerank: every candidate gets a place, whatever its score.
Reranked(ids, place) == Sorted(ids, {p \in ids \X ids : place[p[1]] < place[p[2]]})

\* The order by score, after the two-stage sort of a timeline question, the
\* reranker, which questions of time skip, and the override by sort_by.
Ordered(q, ids, place) ==
    CASE q.sort = "date" -> ByDate(ids, FALSE)
      [] q.sort # "date" /\ q.kind = "timeline" -> ByDate(ids, TRUE)
      [] q.sort # "date" /\ q.kind = "profile" /\ q.rerank -> Reranked(ids, place)
      [] OTHER -> ByScore(ids, [o \in ids |-> row[o].score])

\* The superseded post-filter: left out, or at half the score and sorted again.
AfterSuperseded(q, list) ==
    LET ids == Range(list)
        old == SupersededIds(ids)
    IN  CASE old = {} -> list
          [] old # {} /\ ~q.superseded -> Sublist(list, ids \ old)
          [] OTHER -> ByScore(ids, [o \in ids |-> IF o \in old THEN row[o].score \div 2
                                                  ELSE row[o].score])

\* The best match of a question that names a point in time.
Anchor(found) == CHOOSE a \in found : \A o \in found : row[o].score <= row[a].score

\* What a temporal search reads when nothing matches: rows with any privacy tag
\* stay out, nothing else is filtered.
ByTimeAlone(q) ==
    {o \in InProjects(ProjectMembers(q)) : q.private \/ ~(row[o].private \/ row[o].held)}

\* Its second phase: before, after or around the anchor.
FromAnchor(q, a) ==
    {o \in ByTimeAlone(q) : CASE q.anchor = "asc" -> o > a
                              [] q.anchor = "desc" -> o < a
                              [] OTHER -> o # a}

\* temporalAnchorSearch.
AnchorSearch(q, found) ==
    IF found = {} THEN ByTimeAlone(q) ELSE FromAnchor(q, Anchor(found))

\* A question with a point in time is answered from its anchor when that
\* yields anything.
Anchored(q) == q.anchor # None /\ AnchorSearch(q, Found(q)) # {}

\* The page that is returned.
Cut(list) == SubSeq(list, 1, IF Len(list) < PageLimit THEN Len(list) ELSE PageLimit)

\* What a search returns, in order.
SearchItems(q, place) ==
    IF Anchored(q) THEN ByDate(FirstPage(AnchorSearch(q, Found(q))), q.anchor # "desc")
    ELSE Cut(AfterSuperseded(q, Ordered(q, Admitted(q, Candidates(q)), place)))

------------------------------------------------------------------------------
(* The other readers. *)

\* feed: a page, newest first; a member sees own rows or those of the team,
\* other filters are taken together.
Feed(q) ==
    LET whose == IF q.member THEN TenantFilter(q)
                 ELSE {o \in Obs : /\ q.user = None \/ row[o].owner = q.user
                                   /\ q.team = None \/ team[o] = q.team}
    IN  FirstPage(InProjects(ProjectMembers(q)) \cap VisibilityFilter(q)
                  \cap ArchivedFilter(q) \cap whose)

\* searchFacets counts what feed would list.
Facets(q) ==
    {o \in InProjects(ProjectMembers(q)) : row[o].score > 0}
    \cap VisibilityFilter(q) \cap ArchivedFilter(q) \cap TenantFilter(q)

\* getObservations.
Details(q, ids) ==
    {o \in LoadObservations(ids) \cap TenantFilter(q) : q.private \/ ~row[o].private}

\* timeline: the center whatever became of it, and its neighbours.
Timeline(q, center) ==
    IF center \notin TenantFilter(q) \/ (~q.private /\ row[center].private) THEN {}
    ELSE {center} \cup
         {o \in TenantFilter(q) \cap VisibilityFilter(q) \cap ArchivedFilter(q) :
             /\ row[o].project = row[center].project
             /\ row[o].session = row[center].session}

\* sessionThread: a session's rows, oldest first.
SessionThread(q, session) ==
    {o \in InProjects(ProjectMembers(q)) : row[o].session = session}
    \cap VisibilityFilter(q) \cap ArchivedFilter(q) \cap TenantFilter(q)

\* verifyObservation: the rows whose provenance a caller is told.
Verified(q) ==
    {o \in TenantFilter(q) \cap VisibilityFilter(q) :
        q.archived \/ o \notin archived \cup over}

\* projectsStats: the rows that are counted, of every tenant.
ProjectsStats(q) == VisibilityFilter(q) \cap ArchivedFilter(q)

\* The session summary of a resume pack: the newest session_end observation.
ResumeSummary(q) ==
    Newest({o \in InProjects(ProjectMembers(q)) \cap TenantFilter(q) :
               /\ row[o].event = "session_end"
               /\ q.chain = None \/ ChainOf[row[o].session] = q.chain})

\* The handoff that is pinned in a resume pack.
PinnedContinuity(q) ==
    Newest({o \in InProjects(ProjectMembers(q)) \cap TenantFilter(q)
                  \cap VisibilityFilter(q) \cap ArchivedFilter(q) :
               /\ row[o].event = "handoff" /\ row[o].session # q.session
               /\ q.chain = None \/ ChainOf[row[o].session] = q.chain})

\* The observations of a resume pack.
ResumeRows(q) ==
    FirstPage({o \in InProjects(ProjectMembers(q)) \cap TenantFilter(q)
                     \cap VisibilityFilter(q) \cap ArchivedFilter(q) :
                  /\ row[o].session # q.session
                  /\ q.chain = None \/ ChainOf[row[o].session] = q.chain})

\* resumePack: a budget of tokens turns rows into one-line summaries and drops
\* none.
ResumePack(q) == ResumeSummary(q) \cup ResumeRows(q)

\* buildContinuityBriefing and what else the pack says about rows.
Briefing(q) ==
    LET last == ResumeInteraction(q)
    IN  last \cup PinnedContinuity(q) \cup RecentContext(q, last)

\* getSubgraph: the nodes an entity leads to.
Subgraph(q, entity) ==
    LET seeds == {o \in InProjects(ProjectMembers(q)) \cap TenantFilter(q) :
                     entity \in row[o].entities}
        walk[n \in 0..5] ==
            IF n = 0 THEN seeds
            ELSE LET seen == walk[n - 1]
                 IN  seen \cup UNION {{l[1], l[2]} : l \in
                         {k \in links : k[1] \in seen \/ k[2] \in seen}}
    IN  walk[5] \cap TenantFilter(q)

\* getLinks: forward only; a link is shown when both of its ends are.
Links(q, from) ==
    LET walk[n \in 0..5] ==
            IF n = 0 THEN {from}
            ELSE LET seen == walk[n - 1]
                 IN  seen \cup {l[2] : l \in {k \in links : k[1] \in seen}}
        seen == walk[4]
    IN  {l \in links : l[1] \in seen /\ {l[1], l[2]} \subseteq TenantFilter(q)}

------------------------------------------------------------------------------
(* Operations. *)

\* The returned rows of a ranked search count as accessed.
Touch(q, ids) == hit' = IF Anchored(q) THEN hit ELSE hit \cup ids

\* The places a reranker may give the observations: any.
Places(q) == IF q.rerank THEN Injection(Obs, Obs)
             ELSE {[o \in Obs |-> o]}

\* search, the one reader that writes.
Search(q) ==
    /\ \E place \in Places(q) : Touch(q, Range(SearchItems(q, place)))
    /\ UNCHANGED <<row, team, archived, over, forgotten, links, scan, ops>>

Operation == ops < MaxOps /\ ops' = ops + 1

\* shareObservationToTeam, by the owner or by a caller without a name.
Share(o, t, user) ==
    /\ Operation /\ user \in {None, row[o].owner}
    /\ team' = [team EXCEPT ![o] = t]
    /\ UNCHANGED <<row, archived, over, hit, forgotten, links, scan>>

\* createLink.
CreateLink(from, to, relation) ==
    /\ Operation /\ from # to
    /\ links' = links \cup {<<from, to, relation>>}
    /\ UNCHANGED <<row, team, archived, over, hit, forgotten, scan>>

\* A TTL passes.
Expire(o) ==
    /\ Operation /\ row[o].ttl /\ o \notin over
    /\ over' = over \cup {o}
    /\ UNCHANGED <<row, team, archived, hit, forgotten, links, scan>>

\* collectForgetCandidates: never a private or held row; a row whose TTL has
\* passed, else an old one of little value that no search returned.
ForgetCandidates ==
    {o \in Obs \ archived :
        /\ ~row[o].private /\ ~row[o].held
        /\ o \in over \/ (o \notin hit /\ row[o].aged)}

\* runForgetPolicy, with the environment switch on: TTLs first.
Forget ==
    /\ Operation /\ ForgetCandidates # {}
    /\ \E chosen \in SUBSET ForgetCandidates :
          /\ Cardinality(chosen) = IF Cardinality(ForgetCandidates) < ForgetLimit
                                   THEN Cardinality(ForgetCandidates) ELSE ForgetLimit
          /\ ForgetCandidates \cap over \subseteq chosen \/ chosen \subseteq over
          /\ archived' = archived \cup chosen
          /\ forgotten' = forgotten \cup chosen
    /\ UNCHANGED <<row, team, over, hit, links, scan>>

\* Mutant: the oldest row of a group is kept, the sort being the other way.
KeepOldest(live) ==
    {o \in live : \E p \in live : p < o /\ row[p].text = row[o].text}

\* The rows of a group but its newest.
Surplus(live) ==
    {o \in live : \E p \in live : p > o /\ row[p].text = row[o].text}

\* cleanupDuplicateObservations with execute.
CleanupDuplicates ==
    /\ Operation /\ Surplus(Obs \ (archived \cup over)) # {}
    /\ archived' = archived \cup Surplus(Obs \ (archived \cup over))
    /\ UNCHANGED <<row, team, over, hit, forgotten, links, scan>>

\* loadConceptGroups and the pairs of detectContradictions, older row first.
ConceptPairs ==
    {p \in (Obs \ (archived \cup over)) \X (Obs \ (archived \cup over)) :
        p[1] < p[2] /\ /\ row[p[1]].project = row[p[2]].project
                       /\ row[p[1]].attr = row[p[2]].attr}

\* The scan takes its pairs.
StartScan ==
    /\ Operation /\ scan = None /\ ConceptPairs # {}
    /\ scan' = [pending |-> ConceptPairs, confirmed |-> {}]
    /\ UNCHANGED <<row, team, archived, over, hit, forgotten, links>>

\* The verdict on the next pair; anything may happen while the scan waits for it.
Adjudicate(verdict) ==
    /\ scan # None /\ scan.pending # {}
    /\ LET pair == CHOOSE p \in scan.pending : TRUE
       IN  scan' = [pending |-> scan.pending \ {pair},
                    confirmed |-> scan.confirmed \cup {p \in {pair} : verdict}]
    /\ UNCHANGED <<row, team, archived, over, hit, forgotten, links, ops>>

\* The confirmed pairs become links, newer to older.
EndScan ==
    /\ scan # None /\ scan.pending = {}
    /\ links' = links \cup {<<p[2], p[1], "superseded">> : p \in scan.confirmed}
    /\ scan' = None
    /\ UNCHANGED <<row, team, archived, over, hit, forgotten, ops>>

StoreNext ==
    \/ \E q \in Request : Search(q)
    \/ \E o \in Obs : Expire(o) \/ \E t \in Team, u \in {row[o].owner, None} : Share(o, t, u)
    \/ \E o, p \in Obs, r \in Relation : CreateLink(o, p, r)
    \/ Forget \/ CleanupDuplicates
    \/ StartScan \/ EndScan
    \/ \E v \in BOOLEAN : Adjudicate(v)

StoreSpec == StoreInit /\ [][StoreNext]_storeVars

------------------------------------------------------------------------------
(* Properties. *)

\* What a ranked search returns, whatever places the reranker gives.
Ranked(q) ==
    IF Anchored(q) THEN {} ELSE UNION {Range(SearchItems(q, place)) : place \in Places(q)}

\* The common filters see every candidate: no file: term and no entity graph.
Filtered(q) == ~q.file /\ q.depth = 0

\* What was archived or has expired is not listed any more by any reader,
\* although the entity graph, a file: term and the latest interaction bring
\* candidates into a search that no filter has seen.  (Anchored search, the
\* summary of a resume pack and a timeline's own center are not covered.)
RemovedStayHidden ==
    \A q \in Request :
        /\ Ranked(q) \cap (archived \cup over) = {}
        /\ Details(q, Obs) \cap (archived \cup over) = {}
        /\ ~q.archived =>
              (archived \cup over) \cap
              (Feed(q) \cup Facets(q) \cup ResumeRows(q) \cup PinnedContinuity(q)
                  \cup Verified(q) \cup ProjectsStats(q)
                  \cup (UNION {SessionThread(q, row[o].session) : o \in Obs})
                  \cup (UNION {Timeline(q, c) \ {c} : c \in Obs})) = {}

\* Search, then timeline, then getObservations: a row that search, feed, the
\* facets or a session's thread show a caller can be opened and verified by that
\* caller, whatever was shared, linked or archived before.
ListedCanBeOpened ==
    \A q \in {r \in Request : ~r.archived} :
        \A o \in Feed(q) \cup Facets(q) \cup (UNION {SessionThread(q, row[p].session) : p \in Obs})
                  \cup (IF Filtered(q) THEN Ranked(q) ELSE {}) :
            o \in Details(q, {o}) /\ o \in Timeline(q, o) /\ o \in Verified(q)

\* The readers that follow links or name a row (subgraph, links, timeline,
\* resume pack, latest interaction of a search) show a member nothing of others.
WithinTenant ==
    \A q \in Request :
        (UNION {Subgraph(q, e) : e \in UNION {r.entities : r \in Row}})
        \cup (UNION {Timeline(q, c) : c \in Obs})
        \cup (UNION {{l[1], l[2]} : l \in UNION {Links(q, c) : c \in Obs}})
        \cup (UNION {SessionThread(q, row[c].session) : c \in Obs}) \cup Verified(q)
        \cup ResumePack(q) \cup SearchInteraction(q) \subseteq TenantFilter(q)

\* An archived row was neither private nor held when the forget policy took it,
\* or there is a newer copy of it that cleanup kept: its text does not vanish
\* through any order of TTLs, forget runs and cleanups, unless the policy took
\* the copy, too.
NothingVanishes ==
    \A o \in archived :
        IF o \in forgotten THEN ~row[o].private /\ ~row[o].held
        ELSE \E p \in Obs : /\ p > o /\ row[p].text = row[o].text
                            /\ p \notin archived \/ p \in forgotten

\* Readers show what their caller may see, and nothing else: not what is gone and
\* not what belongs to others.
ReadersSound == StoreTypeOK /\ RemovedStayHidden /\ WithinTenant
==============================================================================
