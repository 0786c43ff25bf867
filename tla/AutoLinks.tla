------------------------------ MODULE AutoLinks ------------------------------
(***************************************************************************)
(* The links between observations, and the walk of getLinks over them.     *)
(* Links come from recordEvent for a new observation (autoLinkObservation  *)
(* and autoSupersedes in core/event-recorder.ts, core/auto-linker.ts),     *)
(* from the consolidation worker between facts that derive each other      *)
(* (generateDerivesLinks) and from clients (createLink).                   *)
(*                                                                         *)
(* Observations arrive in any order of their created_at: an ingester that  *)
(* backfills, and a retried event, deliver old ones late.  The text of an  *)
(* observation is abstracted to the topic that decides the similarity      *)
(* (same topic: similar enough), its cue to the relation its keywords and  *)
(* title ask for.  An observation is known by its place of arrival.        *)
(***************************************************************************)
EXTENDS Naturals, Sequences, FiniteSets

CONSTANTS
    Session,            \* sessions
    Topic,              \* topics: project, type and words of an observation
    Cues,               \* the relations that texts and titles ask for
    MaxTime,            \* created_at lies in 1..MaxTime
    MaxObservations,    \* observations recorded
    Chosen,             \* the relations that clients ask createLink for
    MaxMade,            \* bound: links that clients make
    SupersedeLimit      \* candidates autoSupersedes looks at (50)

\* The relations autoLinkObservation chooses from.
LinkRelation == {"follows", "contradicts", "causes", "part_of", "updates", "extends"}

\* The relations createLink accepts.
ValidRelation == LinkRelation \cup {"derives", "shared_entity", "supersedes", "superseded"}

ASSUME LinksAssumption ==
    /\ {MaxTime, MaxObservations, SupersedeLimit} \subseteq Nat \ {0}
    /\ MaxMade \in Nat
    /\ Cues \subseteq LinkRelation /\ Chosen \subseteq ValidRelation

VARIABLES
    observed,   \* mem_observations in the order of arrival
    links,      \* mem_links, of which an index keeps each link once
    made        \* how many of them clients asked for

linkVars == <<observed, links, made>>

Link(from, to, relation) == [from |-> from, to |-> to, relation |-> relation]

LinksInit == observed = <<>> /\ links = {} /\ made = 0

\* The newest of a set of observations, by created_at.
LatestOf(S) == CHOOSE i \in S : \A j \in S : observed[j].at <= observed[i].at

\* The previous observation of the session: the relation comes from the new
\* text, or from the likeness of the titles.
LinkToPrevious(n, o, cue) ==
    LET earlier == {i \in DOMAIN observed : observed[i].session = o.session
                                            /\ observed[i].at <= o.at}
    IN  IF earlier = {} THEN {} ELSE {Link(n, LatestOf(earlier), cue)}

\* Observations that share an entity with the new one.
LinkByEntity(n, shared) == {Link(n, i, "shared_entity") : i \in shared}

\* linkBySemanticSimilarity, when it is switched on.
LinkBySimilarity(n, o) ==
    {Link(n, i, "extends") : i \in {j \in DOMAIN observed : observed[j].topic = o.topic}}

\* The newest observations of the same project and type.
SupersedeCandidates(o) ==
    LET same == {i \in DOMAIN observed : observed[i].topic = o.topic}
    IN  {i \in same :
            Cardinality({j \in same : observed[j].at > observed[i].at}) < SupersedeLimit}

\* autoSupersedes: the new observation updates its candidates.
AutoSupersedes(n, o) == {Link(n, i, "updates") : i \in SupersedeCandidates(o)}

\* runAutoLinker, when it is switched on: all three of its strategies run, so a
\* session's previous observation gets a second link.
AutoLinker(n, o) == LinkToPrevious(n, o, "follows") \cup LinkBySimilarity(n, o)

\* recordEvent, after the observation is inserted.
RecordObservation(o, cue, shared, semantic) ==
    LET n == Len(observed) + 1 IN
    /\ n <= MaxObservations
    /\ links' = links \cup LinkToPrevious(n, o, cue) \cup LinkByEntity(n, shared)
                      \cup AutoSupersedes(n, o)
                      \cup (IF semantic THEN AutoLinker(n, o) ELSE {})
    /\ observed' = Append(observed, o)
    /\ UNCHANGED made

\* generateDerivesLinks: between any two observations whose facts are of one type
\* and alike, but not too much, in both directions.
GenerateDerivesLinks(alike) ==
    /\ links' = links \cup {Link(p[1], p[2], "derives") : p \in alike}
                      \cup {Link(p[2], p[1], "derives") : p \in alike}
    /\ UNCHANGED <<observed, made>>

\* createLink: a client may ask for any link but one of an observation to itself.
CreateLink(from, to, relation) ==
    /\ from # to /\ made < MaxMade
    /\ links' = links \cup {Link(from, to, relation)}
    /\ made' = made + 1
    /\ UNCHANGED observed

LinksNext ==
    \/ \E s \in Session, t \in Topic, at \in 1..MaxTime, cue \in Cues, semantic \in BOOLEAN,
          shared \in SUBSET DOMAIN observed :
           RecordObservation([session |-> s, topic |-> t, at |-> at], cue, shared, semantic)
    \/ \E alike \in SUBSET {p \in (DOMAIN observed) \X (DOMAIN observed) : p[1] < p[2]} :
           GenerateDerivesLinks(alike)
    \/ \E from, to \in DOMAIN observed, relation \in Chosen : CreateLink(from, to, relation)

LinksSpec == LinksInit /\ [][LinksNext]_linkVars

-----------------------------------------------------------------------------
\* The walk of getLinks.

AnyRelation == "any"    \* a request that names no relation

\* The links that a request with this relation follows.
Followed(relation) == {l \in links : relation \in {AnyRelation, l.relation}}

Targets(relation, ids) == {l.to : l \in {k \in Followed(relation) : k.from \in ids}}

\* Mutant: an observation that was asked for is asked for again.
NextRoundUnguarded(relation, round) ==
    LET found == Targets(relation, round.asked)
    IN  [asked |-> found, processed |-> round.processed \cup found]

\* A round reads the links of its frontier; the next frontier is what they lead
\* to and no round before asked for.
NextRound(relation, round) ==
    LET found == Targets(relation, round.asked) \ round.processed
    IN  [asked |-> found, processed |-> round.processed \cup found]

\* As many rounds as a request can ask for.
Rounds(start, relation) ==
    LET first  == [asked |-> {start}, processed |-> {start}]
        second == NextRound(relation, first)
        third  == NextRound(relation, second)
        fourth == NextRound(relation, third)
    IN  <<first, second, third, fourth, NextRound(relation, fourth)>>

Clamped(depth) == IF depth < 1 THEN 1 ELSE IF depth > 5 THEN 5 ELSE depth

\* getLinks: how often each link is in the answer. (What the asking tenant does
\* not own is filtered from it afterwards.)
GetLinks(start, relation, depth) ==
    LET rounds == Rounds(start, relation)
    IN  [l \in Followed(relation) |->
            Cardinality({d \in 1..Clamped(depth) : l.from \in rounds[d].asked})]

-----------------------------------------------------------------------------
\* Where walks of 0 to 4 links lead, whatever they pass through again.
Reached(start, relation) ==
    LET one   == Targets(relation, {start})
        two   == Targets(relation, one)
        three == Targets(relation, two)
    IN  <<{start}, one, two, three, Targets(relation, three)>>

(***************************************************************************)
(* Though derives links run both ways and clients close circles of any     *)
(* kind, the answer of getLinks to a request of some depth has every link  *)
(* that a walk of so many links can end with, and has it once.             *)
(***************************************************************************)
LinksFoundOnce ==
    \A start \in DOMAIN observed :
        \A relation \in {AnyRelation} \cup {l.relation : l \in links} :
            LET reached == Reached(start, relation)
            IN  \A depth \in 0..6 :
                    GetLinks(start, relation, depth)
                    = [l \in Followed(relation) |->
                          IF \E d \in 1..Clamped(depth) : l.from \in reached[d]
                          THEN 1 ELSE 0]
=============================================================================
