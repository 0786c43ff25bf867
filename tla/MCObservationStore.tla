-------------------------- MODULE MCObservationStore --------------------------
(* Three rows of two owners; requests that differ from a plain one in one point. *)
EXTENDS ObservationStore

CONSTANTS u1, u2, s1, s2, p1, p2, p3, t1

Note(owner, session, text) ==
    [project |-> p1, session |-> session, owner |-> owner, event |-> "note",
     private |-> FALSE, held |-> FALSE, text |-> text, attr |-> "x", file |-> FALSE,
     score |-> 2, aged |-> TRUE, ttl |-> FALSE, entities |-> {"e"}]

MCRow ==
    {Note(u1, s1, "a"),
     [Note(u2, s1, "a") EXCEPT !.file = TRUE, !.score = 4, !.held = TRUE],
     [Note(u1, s2, "b") EXCEPT !.event = "session_end", !.ttl = TRUE, !.file = TRUE],
     [Note(u1, s1, "c") EXCEPT !.event = "prompt", !.score = 0, !.ttl = TRUE],
     [Note(u2, s2, "d") EXCEPT !.event = "response", !.private = TRUE, !.entities = {}],
     [Note(u1, s2, "a") EXCEPT !.event = "handoff", !.project = p2, !.attr = "y"]}

\* A plain note and two other rows after it: a prompt and its response, a session
\* that ends before or after other rows, rows of one or of two owners.
MCStores ==
    {f \in [Obs -> MCRow] :
        /\ f[1] = Note(u1, s1, "a") /\ f[2].event # "response"
        /\ f[3].event \notin {"prompt", "handoff"} /\ IsInjective(f)
        /\ f[2].event \in {"handoff", "session_end"} => f[3].event = "note"}

Plain ==
    [project |-> p1, strict |-> TRUE, session |-> None, attr |-> None, until |-> 9,
     user |-> u1, team |-> None, member |-> TRUE, private |-> FALSE, archived |-> FALSE,
     chain |-> None, latest |-> FALSE, expand |-> TRUE, depth |-> 0, file |-> FALSE,
     current |-> FALSE, superseded |-> TRUE, kind |-> "profile", rerank |-> FALSE,
     sort |-> "relevance", anchor |-> None]

MCRequest ==
    {Plain,
     [Plain EXCEPT !.user = u2, !.team = t1, !.rerank = TRUE],
     [Plain EXCEPT !.project = p3, !.latest = TRUE, !.session = s1, !.private = TRUE],
     [Plain EXCEPT !.file = TRUE, !.strict = FALSE, !.sort = "date", !.kind = "timeline"],
     [Plain EXCEPT !.user = None, !.depth = 2, !.current = TRUE, !.superseded = FALSE,
                   !.archived = TRUE],
     [Plain EXCEPT !.project = None, !.member = FALSE, !.attr = "x", !.chain = "c"],
     [Plain EXCEPT !.anchor = "asc", !.until = 2]}

MCMembers == [p \in {p1, p2, p3} |-> IF p = p3 THEN {p1, p2} ELSE {p}]
MCChainOf == [s \in {s1, s2} |-> IF s = s1 THEN "c" ELSE "d"]
==============================================================================
