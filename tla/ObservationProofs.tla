-------------------------- MODULE ObservationProofs --------------------------
(***************************************************************************)
(* What the readers of the observation store show, for any store, any      *)
(* requests and any number of operations, and the clients of its feed and  *)
(* stream.                                                                 *)
(***************************************************************************)
EXTENDS ObservationStore, FeedStream, OrderLemmas

------------------------------------------------------------------------------
(* The lists of a search. *)

\* A list of elements of S, none of them twice.
ListOf(found, S) ==
    /\ found \in Seq(S)
    /\ \A i, j \in DOMAIN found : i # j => found[i] # found[j]

\* Numbers are ordered, by an order of their scores with the numbers as ties, up
\* and down.
LEMMA NumbersOrder ==
    ASSUME NEW S \in SUBSET Nat
    PROVE  /\ Orders({p \in S \X S : p[1] < p[2]}, S)
           /\ Orders({p \in S \X S : p[1] > p[2]}, S)
BY DEF Orders

\* The order of the sort by score.
LEMMA ScoresOrder ==
    ASSUME NEW S \in SUBSET Nat, NEW score, \A o \in S : score[o] \in Nat
    PROVE  Orders({p \in S \X S : \/ score[p[1]] > score[p[2]]
                                  \/ score[p[1]] = score[p[2]] /\ p[1] > p[2]}, S)
<1> DEFINE R == {p \in S \X S : \/ score[p[1]] > score[p[2]]
                                \/ score[p[1]] = score[p[2]] /\ p[1] > p[2]}
<1>1. \A a, b \in S : <<a, b>> \in R <=> \/ score[a] > score[b]
                                         \/ score[a] = score[b] /\ a > b
    OBVIOUS
<1> HIDE DEF R
<1>2. ASSUME NEW a \in S PROVE <<a, a>> \notin R
    BY <1>1
<1>3. ASSUME NEW a \in S, NEW b \in S, a # b PROVE <<a, b>> \in R \/ <<b, a>> \in R
    <2>1. a \in Nat /\ b \in Nat /\ score[a] \in Nat /\ score[b] \in Nat
        OBVIOUS
    <2> QED BY <1>1, <1>3, <2>1
<1>4. ASSUME NEW a \in S, NEW b \in S, NEW c \in S, <<a, b>> \in R, <<b, c>> \in R
      PROVE  <<a, c>> \in R
    <2>1. /\ a \in Nat /\ b \in Nat /\ c \in Nat
          /\ score[a] \in Nat /\ score[b] \in Nat /\ score[c] \in Nat
        OBVIOUS
    <2> QED BY <1>1, <1>4, <2>1
<1>5. Orders(R, S)
    BY <1>2, <1>3, <1>4 DEF Orders
<1> QED BY <1>5 DEF R

\* The order of the places that a reranker gave.
LEMMA PlacesOrder ==
    ASSUME NEW S \in SUBSET Obs, NEW place \in Injection(Obs, Obs)
    PROVE  Orders({p \in S \X S : place[p[1]] < place[p[2]]}, S)
<1> DEFINE R == {p \in S \X S : place[p[1]] < place[p[2]]}
<1>1. \A a, b \in S : <<a, b>> \in R <=> place[a] < place[b]
    OBVIOUS
<1>2. /\ \A a \in S : place[a] \in Nat
      /\ \A a, b \in S : a # b => place[a] # place[b]
    BY ObservationAssumption DEF Injection, IsInjective
<1> HIDE DEF R
<1>3. ASSUME NEW a \in S PROVE <<a, a>> \notin R
    BY <1>1, <1>2
<1>4. ASSUME NEW a \in S, NEW b \in S, a # b PROVE <<a, b>> \in R \/ <<b, a>> \in R
    BY <1>1, <1>2, <1>4
<1>5. ASSUME NEW a \in S, NEW b \in S, NEW c \in S, <<a, b>> \in R, <<b, c>> \in R
      PROVE  <<a, c>> \in R
    <2>1. place[a] < place[b] /\ place[b] < place[c]
        BY <1>1, <1>5
    <2>2. place[a] \in Nat /\ place[b] \in Nat /\ place[c] \in Nat
        BY <1>2
    <2>3. place[a] < place[c]
        BY <2>1, <2>2
    <2> QED BY <1>1, <2>3
<1>6. Orders(R, S)
    BY <1>3, <1>4, <1>5 DEF Orders
<1> QED BY <1>6 DEF R

\* The rows that a store can hold have a score.
LEMMA Scored ==
    ASSUME StoreTypeOK
    PROVE  \A o \in Obs : row[o].score \in Nat /\ row[o].score \div 2 \in Nat
<1>1. \A o \in Obs : row[o] \in Row
    BY DEF StoreTypeOK
<1>2. \A r \in Row : r.score \in Nat
    BY ObservationAssumption
<1>3. \A o \in Obs : row[o].score \in Nat
    BY <1>1, <1>2
<1>4. \A n \in Nat : n \div 2 \in Nat
    OBVIOUS
<1> QED BY <1>3, <1>4

\* Some of the observations are finitely many numbers.
LEMMA SomeRows ==
    ASSUME NEW ids \in SUBSET Obs
    PROVE  ids \in SUBSET Nat /\ IsFiniteSet(ids)
BY ObservationAssumption, FS_Subset

\* Every order of some rows gives a list of them.
LEMMA SortedRows ==
    ASSUME NEW ids \in SUBSET Obs, NEW R, Orders(R, ids)
    PROVE  ListOf(Sorted(ids, R), ids)
<1>1. IsFiniteSet(ids)
    BY SomeRows
<1> QED BY <1>1, SortedList DEF ListOf

\* Sorting candidates by score or by date gives a list of them.
LEMMA ScoreList ==
    ASSUME NEW ids \in SUBSET Obs, NEW score, \A o \in ids : score[o] \in Nat
    PROVE  ListOf(ByScore(ids, score), ids)
<1> DEFINE R == {p \in ids \X ids : \/ score[p[1]] > score[p[2]]
                                    \/ score[p[1]] = score[p[2]] /\ p[1] > p[2]}
<1>1. ids \in SUBSET Nat
    BY SomeRows
<1>2. Orders(R, ids)
    BY <1>1, ScoresOrder
<1>3. ByScore(ids, score) = Sorted(ids, R)
    BY DEF ByScore
<1> HIDE DEF R
<1> QED BY <1>2, <1>3, SortedRows

\* Oldest first or newest first.
LEMMA DateList ==
    ASSUME NEW ids \in SUBSET Obs, NEW ascending \in BOOLEAN
    PROVE  ListOf(ByDate(ids, ascending), ids)
<1> DEFINE up == {p \in ids \X ids : p[1] < p[2]}
           down == {p \in ids \X ids : p[1] > p[2]}
<1>1. ids \in SUBSET Nat
    BY SomeRows
<1>2. Orders(up, ids) /\ Orders(down, ids)
    BY <1>1, NumbersOrder
<1>3. /\ ascending => ByDate(ids, ascending) = Sorted(ids, up)
      /\ ~ascending => ByDate(ids, ascending) = Sorted(ids, down)
    BY DEF ByDate
<1> HIDE DEF up, down
<1> QED BY <1>2, <1>3, SortedRows

\* Whatever orders a search - score, date or the places of a reranker - it orders
\* the admitted candidates.
LEMMA OrderedList ==
    ASSUME StoreTypeOK, NEW q, NEW ids \in SUBSET Obs, NEW place \in Places(q)
    PROVE  ListOf(Ordered(q, ids, place), ids)
<1>1. ListOf(ByDate(ids, FALSE), ids) /\ ListOf(ByDate(ids, TRUE), ids)
    BY DateList
<1>2. ListOf(ByScore(ids, [o \in ids |-> row[o].score]), ids)
    <2>1. \A o \in ids : [r \in ids |-> row[r].score][o] \in Nat
        BY Scored
    <2> QED BY <2>1, ScoreList
<1>3. q.rerank => ListOf(Reranked(ids, place), ids)
    <2>1. SUFFICES ASSUME q.rerank PROVE ListOf(Reranked(ids, place), ids)
        OBVIOUS
    <2>2. place \in Injection(Obs, Obs)
        BY <2>1 DEF Places
    <2> DEFINE R == {p \in ids \X ids : place[p[1]] < place[p[2]]}
    <2>3. Orders(R, ids)
        BY <2>2, PlacesOrder
    <2>4. Reranked(ids, place) = Sorted(ids, R)
        BY DEF Reranked
    <2> HIDE DEF R
    <2> QED BY <2>3, <2>4, SortedRows
<1>4. \/ Ordered(q, ids, place) = ByDate(ids, FALSE)
      \/ Ordered(q, ids, place) = ByDate(ids, TRUE)
      \/ q.rerank /\ Ordered(q, ids, place) = Reranked(ids, place)
      \/ Ordered(q, ids, place) = ByScore(ids, [o \in ids |-> row[o].score])
    BY Zenon DEF Ordered
<1> QED BY <1>1, <1>2, <1>3, <1>4, Zenon

\* The post-filter for superseded rows drops or moves rows and adds none.
LEMMA FilteredList ==
    ASSUME StoreTypeOK, NEW q, NEW ids \in SUBSET Obs, NEW found, ListOf(found, ids)
    PROVE  AfterSuperseded(q, found) \in Seq(ids)
<1> DEFINE kept == Range(found)
           old == SupersededIds(kept)
           half == [o \in kept |-> IF o \in old THEN row[o].score \div 2 ELSE row[o].score]
<1>1. kept \in SUBSET ids
    BY LenProperties DEF ListOf, Range
<1>2. Sublist(found, kept \ old) \in Seq(ids)
    <2>1. found \in Seq(ids)
        BY DEF ListOf
    <2> HIDE DEF kept, old
    <2>2. Sublist(found, kept \ old) \in Seq(ids \cap (kept \ old))
        BY <2>1, SublistList
    <2> QED BY <2>2, SeqMonotonic
<1>3. ByScore(kept, half) \in Seq(ids)
    <2>1. \A o \in kept : half[o] \in Nat
        BY <1>1, Scored
    <2>2. kept \in SUBSET Obs
        BY <1>1
    <2> HIDE DEF kept, half
    <2>3. ByScore(kept, half) \in Seq(kept)
        BY <2>1, <2>2, ScoreList DEF ListOf
    <2> QED BY <1>1, <2>3, SeqMonotonic
<1>4. \/ AfterSuperseded(q, found) = found
      \/ AfterSuperseded(q, found) = Sublist(found, kept \ old)
      \/ AfterSuperseded(q, found) = ByScore(kept, half)
    BY Zenon DEF AfterSuperseded
<1> QED BY <1>2, <1>3, <1>4, Zenon DEF ListOf

\* The returned page is a part of the list.
LEMMA PageOfList ==
    ASSUME NEW S, NEW found \in Seq(S)
    PROVE  Range(Cut(found)) \subseteq S
<1> DEFINE n == IF Len(found) < PageLimit THEN Len(found) ELSE PageLimit
<1>1. n \in Nat /\ n <= Len(found)
    BY ObservationAssumption, LenProperties
<1>2. \A i \in 1..n : found[i] \in S
    BY <1>1, LenProperties
<1> HIDE DEF n
<1>3. SubSeq(found, 1, n) \in Seq(S)
    BY <1>1, <1>2, SubSeqProperties
<1>4. Cut(found) \in Seq(S)
    BY <1>3 DEF Cut, n
<1> HIDE DEF n
<1> QED BY <1>4, LenProperties DEF Range

\* A search that does not answer from a point in time returns admitted candidates.
LEMMA SearchReturns ==
    ASSUME StoreTypeOK, NEW q, ~Anchored(q), NEW place \in Places(q)
    PROVE  Range(SearchItems(q, place)) \subseteq Admitted(q, Candidates(q))
<1> DEFINE ids == Admitted(q, Candidates(q))
<1>1. ids \in SUBSET Obs
    BY DEF Admitted, LoadObservations
<1> HIDE DEF ids
<1>2. ListOf(Ordered(q, ids, place), ids)
    BY <1>1, OrderedList
<1>3. AfterSuperseded(q, Ordered(q, ids, place)) \in Seq(ids)
    BY <1>1, <1>2, FilteredList
<1>4. Range(Cut(AfterSuperseded(q, Ordered(q, ids, place)))) \subseteq ids
    BY <1>3, PageOfList
<1> QED BY <1>4, Zenon DEF SearchItems, ids

\* In whatever places a reranker puts them.
LEMMA RankedAdmitted ==
    ASSUME StoreTypeOK, NEW q
    PROVE  Ranked(q) \subseteq Admitted(q, Candidates(q))
<1>1. CASE Anchored(q)
    BY <1>1 DEF Ranked
<1>2. CASE ~Anchored(q)
    BY <1>2, SearchReturns DEF Ranked
<1> QED BY <1>1, <1>2

------------------------------------------------------------------------------
(* The latest interaction. *)

\* Of some rows one is the newest.
LEMMA NewestExists ==
    ASSUME NEW ids \in SUBSET Obs, ids # {}
    PROVE  \E m \in ids : Newest(ids) = {m}
<1> DEFINE R == {p \in ids \X ids : p[1] > p[2]}
<1>1. ids \in SUBSET Nat /\ IsFiniteSet(ids)
    BY SomeRows
<1>2. Orders(R, ids)
    BY <1>1, NumbersOrder
<1>3. \A a, b \in ids : <<a, b>> \in R <=> a > b
    OBVIOUS
<1> HIDE DEF R
<1>4. Cardinality(ids) \in Nat /\ Cardinality(ids) # 0
    BY <1>1, FS_EmptySet, FS_CardinalityType
<1>5. 0 \in 0..(Cardinality(ids) - 1)
    BY <1>4
<1>6. PICK m \in ids : Cardinality(Preceding(m, R, ids)) = 0
    BY <1>1, <1>2, <1>5, PlacesTaken
<1>7. Preceding(m, R, ids) \subseteq ids
    BY DEF Preceding
<1>8. Preceding(m, R, ids) = {}
    BY <1>1, <1>6, <1>7, FS_Subset, FS_EmptySet
<1>9. ASSUME NEW p \in ids PROVE p <= m
    <2>1. ~(p > m)
        BY <1>3, <1>8 DEF Preceding
    <2> QED BY <1>1, <2>1
<1>10. \A o \in ids : (\A p \in ids : p <= o) => o = m
    BY <1>1, <1>9
<1>11. Newest(ids) = {m}
    BY <1>9, <1>10 DEF Newest
<1> QED BY <1>11

\* Every context is made of rows that were looked at, and no context is empty.
LEMMA ContextsOfRows ==
    ASSUME NEW ids \in SUBSET Obs, NEW c \in InteractionContexts(ids)
    PROVE  c \subseteq ids /\ c # {}
<1> DEFINE Turns(s) == {o \in ids : row[o].session = s}
           Prompts(s) == {o \in Turns(s) : row[o].event = "prompt"}
           Done(s) == {o \in Turns(s) : /\ row[o].event = "response"
                                        /\ \E p \in Prompts(s) : p < o}
           Last(s) == CHOOSE o \in Newest(Done(s)) : TRUE
           Context(s) ==
               IF Done(s) # {} THEN {Last(s)} \cup Newest({x \in Prompts(s) : x < Last(s)})
               ELSE Newest(Prompts(s))
<1>1. c # {} /\ \E s \in {row[o].session : o \in ids} : c = Context(s)
    BY Zenon DEF InteractionContexts
<1>2. PICK s : c = Context(s)
    BY <1>1
<1>3. Prompts(s) \subseteq ids /\ Done(s) \subseteq ids
    OBVIOUS
<1>4. \A t : Newest(t) \subseteq t
    BY DEF Newest
<1>5. CASE Done(s) # {}
    <2>1. Newest(Done(s)) # {}
        <3> HIDE DEF Done
        <3> QED BY <1>3, <1>5, NewestExists
    <2>2. Last(s) \in Done(s)
        <3> HIDE DEF Done
        <3> QED BY <1>4, <2>1
    <2>3. Last(s) \in ids
        BY <1>3, <2>2
    <2>4. Newest({x \in Prompts(s) : x < Last(s)}) \subseteq ids
        <3>1. {x \in Prompts(s) : x < Last(s)} \subseteq ids
            BY <1>3
        <3> QED BY <1>4, <3>1
    <2>5. c = {Last(s)} \cup Newest({x \in Prompts(s) : x < Last(s)})
        BY <1>2, <1>5, Zenon
    <2> HIDE DEF Last, Prompts
    <2> QED BY <1>1, <2>3, <2>4, <2>5
<1>6. CASE Done(s) = {}
    <2>1. c = Newest(Prompts(s))
        BY <1>2, <1>6, Zenon
    <2> HIDE DEF Prompts
    <2> QED BY <1>1, <1>3, <1>4, <2>1
<1> QED BY <1>5, <1>6

\* The latest context is made of rows that were looked at.
LEMMA LatestOfRows ==
    ASSUME NEW ids \in SUBSET Obs
    PROVE  LatestContext(ids) \subseteq ids
<1> DEFINE contexts == InteractionContexts(ids)
<1>1. \A c \in contexts : c \subseteq ids /\ c # {}
    BY ContextsOfRows
<1> HIDE DEF contexts
<1>2. CASE contexts = {}
    BY <1>2 DEF LatestContext, contexts
<1>3. CASE contexts # {}
    <2> DEFINE all == UNION contexts
    <2>1. all \subseteq ids /\ all # {}
        BY <1>1, <1>3
    <2> HIDE DEF all
    <2>2. PICK m \in all : Newest(all) = {m}
        BY <2>1, NewestExists
    <2>3. PICK c \in contexts : m \in c
        BY <2>2 DEF all
    <2>4. c \subseteq all
        BY DEF all
    <2>5. PICK n \in c : Newest(c) = {n}
        <3>1. c \in SUBSET Obs /\ c # {}
            BY <1>1
        <3> QED BY <3>1, NewestExists
    <2>6. m = n
        <3>1. m <= n /\ n <= m
            BY <2>2, <2>3, <2>4, <2>5 DEF Newest
        <3>2. m \in Nat /\ n \in Nat
            BY <2>1, <2>4, ObservationAssumption
        <3> QED BY <3>1, <3>2
    <2>7. \E d \in contexts : Newest(d) = Newest(all)
        BY <2>2, <2>5, <2>6
    <2>8. LatestContext(ids) = CHOOSE d \in contexts : Newest(d) = Newest(all)
        BY <1>3, Zenon DEF LatestContext, contexts, all
    <2>9. LatestContext(ids) \in contexts
        BY <2>7, <2>8
    <2> QED BY <1>1, <2>9
<1> QED BY <1>2, <1>3

\* A search is given a latest interaction of its caller only.
LEMMA InteractionOfTenant ==
    ASSUME NEW q
    PROVE  SearchInteraction(q) \subseteq TenantFilter(q) \cap Obs
<1> DEFINE ids == {o \in InteractionRows(q, ProjectMembers(q)) \cap TenantFilter(q) :
                       q.session = None \/ row[o].session = q.session}
<1>1. ids \subseteq TenantFilter(q) /\ ids \in SUBSET Obs
    BY DEF InteractionRows, InProjects
<1>2. SearchInteraction(q) = {} \/ SearchInteraction(q) = LatestContext(ids)
    BY Zenon DEF SearchInteraction
<1> HIDE DEF ids
<1> QED BY <1>1, <1>2, LatestOfRows

------------------------------------------------------------------------------
(* What every reader shows. *)

\* What is newest, and what fits on a page, is a part of what was read.
LEMMA PartsOfRead ==
    ASSUME NEW ids
    PROVE  Newest(ids) \subseteq ids /\ FirstPage(ids) \subseteq ids
BY DEF Newest, FirstPage

\* The readers that name rows, follow links or resume a session keep to the tenant.
LEMMA TenantKept == StoreTypeOK => WithinTenant
<1> SUFFICES ASSUME StoreTypeOK, NEW q \in Request
             PROVE  (UNION {Subgraph(q, e) : e \in UNION {r.entities : r \in Row}})
                    \cup (UNION {Timeline(q, c) : c \in Obs})
                    \cup (UNION {{l[1], l[2]} : l \in UNION {Links(q, c) : c \in Obs}})
                    \cup (UNION {SessionThread(q, row[c].session) : c \in Obs}) \cup Verified(q)
                    \cup ResumePack(q) \cup SearchInteraction(q) \subseteq TenantFilter(q)
    BY Zenon DEF WithinTenant
<1>1. \A e : Subgraph(q, e) \subseteq TenantFilter(q)
    BY Zenon DEF Subgraph
<1>2. \A c : Timeline(q, c) \subseteq TenantFilter(q)
    BY DEF Timeline
<1>3. \A c : \A l \in Links(q, c) : {l[1], l[2]} \subseteq TenantFilter(q)
    BY Zenon DEF Links
<1>4. \A s : SessionThread(q, s) \subseteq TenantFilter(q)
    BY DEF SessionThread
<1>5. Verified(q) \subseteq TenantFilter(q)
    BY DEF Verified
<1>6. ResumePack(q) \subseteq TenantFilter(q)
    BY PartsOfRead DEF ResumePack, ResumeSummary, ResumeRows
<1>7. SearchInteraction(q) \subseteq TenantFilter(q)
    BY InteractionOfTenant
<1>8. (UNION {{l[1], l[2]} : l \in UNION {Links(q, c) : c \in Obs}}) \subseteq TenantFilter(q)
    <2>1. SUFFICES ASSUME NEW l \in UNION {Links(q, c) : c \in Obs}
                   PROVE  {l[1], l[2]} \subseteq TenantFilter(q)
        BY Zenon
    <2>2. PICK c \in Obs : l \in Links(q, c)
        BY Zenon
    <2> QED BY <1>3, <2>2, Zenon
<1> QED BY <1>1, <1>2, <1>4, <1>5, <1>6, <1>7, <1>8, Zenon

\* What is archived or has expired is not listed by a reader.
LEMMA RemovedHidden == StoreTypeOK => RemovedStayHidden
<1> SUFFICES ASSUME StoreTypeOK, NEW q \in Request
             PROVE  /\ Ranked(q) \cap (archived \cup over) = {}
                    /\ Details(q, Obs) \cap (archived \cup over) = {}
                    /\ ~q.archived =>
                          (archived \cup over) \cap
                          (Feed(q) \cup Facets(q) \cup ResumeRows(q) \cup PinnedContinuity(q)
                              \cup Verified(q) \cup ProjectsStats(q)
                              \cup (UNION {SessionThread(q, row[o].session) : o \in Obs})
                              \cup (UNION {Timeline(q, c) \ {c} : c \in Obs})) = {}
    BY Zenon DEF RemovedStayHidden
<1>1. Ranked(q) \cap (archived \cup over) = {}
    BY RankedAdmitted DEF Admitted, LoadObservations
<1>2. Details(q, Obs) \cap (archived \cup over) = {}
    BY DEF Details, LoadObservations
<1>3. ASSUME ~q.archived
      PROVE  (archived \cup over) \cap
             (Feed(q) \cup Facets(q) \cup ResumeRows(q) \cup PinnedContinuity(q)
                 \cup Verified(q) \cup ProjectsStats(q)
                 \cup (UNION {SessionThread(q, row[o].session) : o \in Obs})
                 \cup (UNION {Timeline(q, c) \ {c} : c \in Obs})) = {}
    <2> DEFINE kept == Obs \ (archived \cup over)
    <2>1. ArchivedFilter(q) = kept
        BY <1>3 DEF ArchivedFilter
    <2>2. Feed(q) \subseteq ArchivedFilter(q)
        BY PartsOfRead DEF Feed
    <2>3. Facets(q) \subseteq ArchivedFilter(q) /\ ProjectsStats(q) \subseteq ArchivedFilter(q)
        BY DEF Facets, ProjectsStats
    <2>4. ResumeRows(q) \subseteq ArchivedFilter(q)
        BY PartsOfRead DEF ResumeRows
    <2>5. PinnedContinuity(q) \subseteq ArchivedFilter(q)
        BY PartsOfRead DEF PinnedContinuity
    <2>6. Verified(q) \subseteq kept
        BY <1>3 DEF Verified, TenantFilter
    <2>7. \A s : SessionThread(q, s) \subseteq ArchivedFilter(q)
        BY DEF SessionThread
    <2>8. \A c : Timeline(q, c) \ {c} \subseteq ArchivedFilter(q)
        BY DEF Timeline
    <2>9. kept \cap (archived \cup over) = {}
        OBVIOUS
    <2> HIDE DEF kept
    <2>10. (UNION {SessionThread(q, row[o].session) : o \in Obs}) \subseteq kept
        BY <2>1, <2>7, Zenon
    <2>11. (UNION {Timeline(q, c) \ {c} : c \in Obs}) \subseteq kept
        BY <2>1, <2>8, Zenon
    <2> HIDE DEF SessionThread, Timeline
    <2>12. Feed(q) \cup Facets(q) \cup ResumeRows(q) \cup PinnedContinuity(q)
           \cup Verified(q) \cup ProjectsStats(q)
           \cup (UNION {SessionThread(q, row[o].session) : o \in Obs})
           \cup (UNION {Timeline(q, c) \ {c} : c \in Obs}) \subseteq kept
        BY <2>1, <2>2, <2>3, <2>4, <2>5, <2>6, <2>10, <2>11, Zenon
    <2> QED BY <2>9, <2>12, Zenon
<1> QED BY <1>1, <1>2, <1>3

\* With no user to filter by, or with one, a page of the feed is the tenant's.
LEMMA FeedOfTenant ==
    ASSUME NEW q
    PROVE  /\ Feed(q) \subseteq TenantFilter(q)
           /\ Feed(q) \subseteq VisibilityFilter(q) \cap ArchivedFilter(q)
<1> DEFINE whose == IF q.member THEN TenantFilter(q)
                    ELSE {o \in Obs : /\ q.user = None \/ row[o].owner = q.user
                                      /\ q.team = None \/ team[o] = q.team}
<1>1. whose \subseteq TenantFilter(q)
    BY DEF TenantFilter
<1>2. Feed(q) \subseteq VisibilityFilter(q) \cap ArchivedFilter(q) \cap whose
    BY PartsOfRead DEF Feed
<1> HIDE DEF whose
<1> QED BY <1>1, <1>2

\* A search whose candidates all went through the common filters keeps to the
\* tenant and to what the caller may see.
LEMMA FilteredOfTenant ==
    ASSUME StoreTypeOK, NEW q, Filtered(q)
    PROVE  Ranked(q) \subseteq TenantFilter(q) \cap VisibilityFilter(q)
<1>1. CommonFilters(q) \subseteq TenantFilter(q)
    BY DEF CommonFilters
<1>2. Found(q) \subseteq TenantFilter(q)
    BY <1>1 DEF Found, LexicalSearch, VectorSearch
<1>3. WithInteraction(q, Found(q)) \subseteq TenantFilter(q)
    BY <1>2, InteractionOfTenant DEF WithInteraction
<1>4. \A ids : Neighbours(q, ids) \subseteq TenantFilter(q)
    BY <1>1 DEF Neighbours
<1>5. ASSUME NEW ids, ids \subseteq TenantFilter(q)
      PROVE  ExpandByLinks(q, ids) \subseteq TenantFilter(q)
    BY <1>4, <1>5, Zenon DEF ExpandByLinks
<1>6. Candidates(q) \subseteq TenantFilter(q)
    <2>1. Candidates(q) = ExpandByLinks(q, WithInteraction(q, Found(q)))
        BY Zenon DEF Candidates, Filtered, ExpandViaGraph
    <2> QED BY <1>3, <1>5, <2>1
<1>7. \A o \in Admitted(q, Candidates(q)) :
          o \in Obs /\ o \in Candidates(q) /\ (q.private \/ ~row[o].private)
    BY DEF Admitted, LoadObservations
<1> QED BY <1>6, <1>7, RankedAdmitted DEF VisibilityFilter

\* What is listed has passed the filters of what opens it.
LEMMA ListedOpens == StoreTypeOK => ListedCanBeOpened
<1> SUFFICES ASSUME StoreTypeOK, NEW q \in Request, ~q.archived,
                    NEW o \in Feed(q) \cup Facets(q)
                              \cup (UNION {SessionThread(q, row[p].session) : p \in Obs})
                              \cup (IF Filtered(q) THEN Ranked(q) ELSE {})
             PROVE  o \in Details(q, {o}) /\ o \in Timeline(q, o) /\ o \in Verified(q)
    BY Zenon DEF ListedCanBeOpened
<1> DEFINE kept == Obs \ (archived \cup over)
<1>1. ArchivedFilter(q) = kept
    BY DEF ArchivedFilter
<1>2. o \in TenantFilter(q) /\ o \in VisibilityFilter(q) /\ o \in kept
    <2>1. CASE o \in Feed(q)
        BY <1>1, <2>1, FeedOfTenant
    <2>2. CASE o \in Facets(q)
        BY <1>1, <2>2 DEF Facets
    <2>3. CASE o \in UNION {SessionThread(q, row[p].session) : p \in Obs}
        <3>1. PICK s : o \in SessionThread(q, s)
            BY <2>3, Zenon
        <3> QED BY <1>1, <3>1 DEF SessionThread
    <2>4. CASE Filtered(q) /\ o \in Ranked(q)
        <3>1. o \in kept
            BY <2>4, RankedAdmitted DEF Admitted, LoadObservations
        <3> QED BY <2>4, <3>1, FilteredOfTenant
    <2> HIDE DEF kept
    <2> QED BY <2>1, <2>2, <2>3, <2>4, Zenon
<1>3. o \in Obs /\ o \notin archived \cup over /\ (q.private \/ ~row[o].private)
    BY <1>2 DEF VisibilityFilter
<1>4. o \in Details(q, {o})
    BY <1>2, <1>3 DEF Details, LoadObservations
<1>5. o \in Timeline(q, o)
    BY <1>2, <1>3 DEF Timeline
<1>6. o \in Verified(q)
    BY <1>2, <1>3 DEF Verified
<1> QED BY <1>4, <1>5, <1>6

------------------------------------------------------------------------------
(* The operations. *)

\* What the operations keep: the type, and that what is archived has a reason.
StoreInv == StoreTypeOK /\ NothingVanishes

\* A row that cleanup archives has a newer copy that is live and that cleanup keeps.
LEMMA CopyKept ==
    ASSUME StoreTypeOK, NEW alive \in SUBSET Obs, NEW o \in Surplus(alive)
    PROVE  \E p \in alive \ Surplus(alive) : p > o /\ row[p].text = row[o].text
<1> DEFINE copies == {p \in alive : p > o /\ row[p].text = row[o].text}
<1>1. copies \in SUBSET Obs /\ copies # {} /\ o \in Obs
    BY DEF Surplus
<1> HIDE DEF copies
<1>2. PICK m \in copies : Newest(copies) = {m}
    BY <1>1, NewestExists
<1>3. \A p \in copies : p <= m
    BY <1>2 DEF Newest
<1>4. m \in alive /\ m > o /\ row[m].text = row[o].text
    BY <1>2 DEF copies
<1>5. m \notin Surplus(alive)
    <2>1. SUFFICES ASSUME m \in Surplus(alive) PROVE FALSE
        OBVIOUS
    <2>2. PICK p \in alive : p > m /\ row[p].text = row[m].text
        BY <2>1 DEF Surplus
    <2>3. p \in Nat /\ m \in Nat /\ o \in Nat
        BY <1>1, <1>4, ObservationAssumption
    <2>4. p \in copies
        BY <1>4, <2>2, <2>3 DEF copies
    <2> QED BY <1>3, <2>2, <2>3, <2>4
<1> QED BY <1>4, <1>5

\* A step that archives nothing and forgets nothing leaves reasons as they were.
LEMMA ReasonsStay ==
    ASSUME NothingVanishes, row' = row, archived' = archived, forgotten' = forgotten
    PROVE  NothingVanishes'
BY DEF NothingVanishes

\* Every operation keeps the type and the reasons.
LEMMA StoreStep == StoreInv /\ [StoreNext]_storeVars => StoreInv'
<1> SUFFICES ASSUME StoreInv, [StoreNext]_storeVars PROVE StoreInv'
    OBVIOUS
<1>0. StoreTypeOK /\ NothingVanishes
    BY DEF StoreInv
<1>1. ASSUME NEW q \in Request, Search(q) PROVE StoreInv'
    <2>1. PICK place \in Places(q) : Touch(q, Range(SearchItems(q, place)))
        BY <1>1 DEF Search
    <2>2. UNCHANGED <<row, team, archived, over, forgotten, links, scan, ops>>
        BY <1>1 DEF Search
    <2>3. hit' \subseteq Obs
        <3>1. CASE Anchored(q)
            BY <1>0, <2>1, <3>1 DEF Touch, StoreTypeOK
        <3>2. CASE ~Anchored(q)
            <4>1. Range(SearchItems(q, place)) \subseteq Obs
                BY <1>0, <3>2, SearchReturns DEF Admitted, LoadObservations
            <4>2. hit' = hit \cup Range(SearchItems(q, place))
                BY <2>1, <3>2 DEF Touch
            <4> QED BY <1>0, <4>1, <4>2 DEF StoreTypeOK
        <3> QED BY <3>1, <3>2
    <2>4. StoreTypeOK'
        BY <1>0, <2>2, <2>3 DEF StoreTypeOK
    <2> QED BY <1>0, <2>2, <2>4, ReasonsStay DEF StoreInv
<1>2. ASSUME NEW o \in Obs, Expire(o) PROVE StoreInv'
    <2>1. StoreTypeOK'
        BY <1>0, <1>2 DEF Expire, StoreTypeOK
    <2>2. row' = row /\ archived' = archived /\ forgotten' = forgotten
        BY <1>2 DEF Expire
    <2> QED BY <1>0, <2>1, <2>2, ReasonsStay DEF StoreInv
<1>3. ASSUME NEW o \in Obs, NEW t \in Team, NEW user, Share(o, t, user) PROVE StoreInv'
    <2>1. StoreTypeOK'
        BY <1>0, <1>3 DEF Share, StoreTypeOK
    <2>2. row' = row /\ archived' = archived /\ forgotten' = forgotten
        BY <1>3 DEF Share
    <2> QED BY <1>0, <2>1, <2>2, ReasonsStay DEF StoreInv
<1>4. ASSUME NEW o \in Obs, NEW p \in Obs, NEW r \in Relation, CreateLink(o, p, r)
      PROVE  StoreInv'
    <2>1. StoreTypeOK'
        BY <1>0, <1>4 DEF CreateLink, StoreTypeOK
    <2>2. row' = row /\ archived' = archived /\ forgotten' = forgotten
        BY <1>4 DEF CreateLink
    <2> QED BY <1>0, <2>1, <2>2, ReasonsStay DEF StoreInv
<1>5. CASE Forget
    <2>1. PICK chosen \in SUBSET ForgetCandidates :
              archived' = archived \cup chosen /\ forgotten' = forgotten \cup chosen
        BY <1>5 DEF Forget
    <2>2. UNCHANGED <<row, team, over, hit, links, scan>>
        BY <1>5 DEF Forget
    <2>3. \A o \in chosen : o \in Obs /\ o \notin archived /\ ~row[o].private /\ ~row[o].held
        BY <2>1 DEF ForgetCandidates
    <2>4. StoreTypeOK'
        BY <1>0, <2>1, <2>2, <2>3 DEF StoreTypeOK
    <2>5. ASSUME NEW o \in archived'
          PROVE  IF o \in forgotten' THEN ~row[o].private /\ ~row[o].held
                 ELSE \E p \in Obs : /\ p > o /\ row[p].text = row[o].text
                                     /\ p \notin archived' \/ p \in forgotten'
        <3>1. CASE o \in chosen
            BY <2>1, <2>3, <3>1
        <3>2. CASE o \notin chosen /\ o \in forgotten
            <4>1. o \in archived
                BY <2>1, <2>5, <3>2
            <4> QED BY <1>0, <2>1, <3>2, <4>1 DEF NothingVanishes
        <3>3. CASE o \notin chosen /\ o \notin forgotten
            <4>1. o \in archived
                BY <2>1, <2>5, <3>3
            <4>2. PICK p \in Obs : /\ p > o /\ row[p].text = row[o].text
                                   /\ p \notin archived \/ p \in forgotten
                BY <1>0, <3>3, <4>1 DEF NothingVanishes
            <4>3. p \notin archived' \/ p \in forgotten'
                BY <2>1, <4>2
            <4> QED BY <2>1, <3>3, <4>2, <4>3
        <3> QED BY <3>1, <3>2, <3>3
    <2>6. NothingVanishes'
        BY <2>2, <2>5 DEF NothingVanishes
    <2> QED BY <2>4, <2>6 DEF StoreInv
<1>6. CASE CleanupDuplicates
    <2> DEFINE alive == Obs \ (archived \cup over)
               gone == Surplus(alive)
    <2>1. /\ archived' = archived \cup gone
          /\ UNCHANGED <<row, team, over, hit, forgotten, links, scan>>
        BY <1>6 DEF CleanupDuplicates
    <2>2. gone \subseteq alive
        BY DEF Surplus
    <2>3. StoreTypeOK'
        BY <1>0, <2>1, <2>2 DEF StoreTypeOK
    <2>4. \A o \in gone : \E p \in alive \ gone : p > o /\ row[p].text = row[o].text
        BY <1>0, CopyKept
    <2>5. alive \in SUBSET Obs /\ alive \cap archived = {} /\ forgotten \subseteq archived
        BY <1>0 DEF StoreTypeOK
    <2> HIDE DEF gone, alive
    <2>6. ASSUME NEW o \in archived'
          PROVE  IF o \in forgotten THEN ~row[o].private /\ ~row[o].held
                 ELSE \E p \in Obs : /\ p > o /\ row[p].text = row[o].text
                                     /\ p \notin archived' \/ p \in forgotten
        <3>1. CASE o \in forgotten
            BY <1>0, <2>5, <3>1 DEF NothingVanishes
        <3>2. CASE o \in gone /\ o \notin forgotten
            BY <2>1, <2>4, <2>5, <3>2
        <3>3. CASE o \notin gone /\ o \notin forgotten
            <4>1. o \in archived
                BY <2>1, <2>6, <3>3
            <4>2. PICK p \in Obs : /\ p > o /\ row[p].text = row[o].text
                                   /\ p \notin archived \/ p \in forgotten
                BY <1>0, <3>3, <4>1 DEF NothingVanishes
            <4>3. CASE p \notin gone
                BY <2>1, <3>3, <4>2, <4>3
            <4>4. CASE p \in gone
                <5>1. PICK r \in alive \ gone : r > p /\ row[r].text = row[p].text
                    BY <2>4, <4>4
                <5>2. r > o
                    <6>1. r \in Nat /\ p \in Nat /\ o \in Nat
                        BY <1>0, <2>5, <4>1, ObservationAssumption DEF StoreTypeOK
                    <6> QED BY <4>2, <5>1, <6>1
                <5>3. r \in Obs /\ r \notin archived' /\ row[r].text = row[o].text
                    BY <2>1, <2>5, <4>2, <5>1
                <5> QED BY <3>3, <5>2, <5>3
            <4> QED BY <4>3, <4>4
        <3> QED BY <3>1, <3>2, <3>3
    <2>7. NothingVanishes'
        BY <2>1, <2>6 DEF NothingVanishes
    <2> QED BY <2>3, <2>7 DEF StoreInv
<1>7. CASE StartScan
    <2>1. ConceptPairs \subseteq Obs \X Obs
        BY DEF ConceptPairs
    <2>2. scan' = [pending |-> ConceptPairs, confirmed |-> {}]
        BY <1>7 DEF StartScan
    <2>3. scan'.pending \subseteq Obs \X Obs /\ scan'.confirmed \subseteq Obs \X Obs
        BY <2>1, <2>2
    <2>4. UNCHANGED <<row, team, archived, over, hit, forgotten, links>>
        BY <1>7 DEF StartScan
    <2>5. StoreTypeOK'
        BY <1>0, <2>3, <2>4 DEF StoreTypeOK
    <2> QED BY <1>0, <2>4, <2>5, ReasonsStay DEF StoreInv
<1>8. CASE EndScan
    <2>1. scan.confirmed \subseteq Obs \X Obs
        BY <1>0, <1>8 DEF EndScan, StoreTypeOK
    <2>2. {<<p[2], p[1], "superseded">> : p \in scan.confirmed} \subseteq Obs \X Obs \X Relation
        BY <2>1 DEF Relation
    <2>3. /\ links' = links \cup {<<p[2], p[1], "superseded">> : p \in scan.confirmed}
          /\ scan' = None
          /\ UNCHANGED <<row, team, archived, over, hit, forgotten, ops>>
        BY <1>8 DEF EndScan
    <2>4. StoreTypeOK'
        BY <1>0, <2>2, <2>3 DEF StoreTypeOK
    <2> QED BY <1>0, <2>3, <2>4, ReasonsStay DEF StoreInv
<1>9. ASSUME NEW v \in BOOLEAN, Adjudicate(v) PROVE StoreInv'
    <2> DEFINE pair == CHOOSE p \in scan.pending : TRUE
    <2>1. scan # None /\ scan.pending # {}
        BY <1>9 DEF Adjudicate
    <2>2. scan.pending \subseteq Obs \X Obs /\ scan.confirmed \subseteq Obs \X Obs
        BY <1>0, <2>1 DEF StoreTypeOK
    <2>3. pair \in scan.pending
        BY <2>1
    <2>4. scan' = [pending |-> scan.pending \ {pair},
                   confirmed |-> scan.confirmed \cup {p \in {pair} : v}]
        BY <1>9, Zenon DEF Adjudicate
    <2> HIDE DEF pair
    <2>5. scan'.pending \subseteq Obs \X Obs /\ scan'.confirmed \subseteq Obs \X Obs
        BY <2>2, <2>3, <2>4
    <2>6. UNCHANGED <<row, team, archived, over, hit, forgotten, links, ops>>
        BY <1>9, Zenon DEF Adjudicate
    <2>7. StoreTypeOK'
        BY <1>0, <2>5, <2>6 DEF StoreTypeOK
    <2> QED BY <1>0, <2>6, <2>7, ReasonsStay DEF StoreInv
<1>10. CASE UNCHANGED storeVars
    <2>1. StoreTypeOK'
        BY <1>0, <1>10 DEF storeVars, StoreTypeOK
    <2> QED BY <1>0, <1>10, <2>1, ReasonsStay DEF storeVars, StoreInv
<1> QED
    BY <1>1, <1>2, <1>3, <1>4, <1>5, <1>6, <1>7, <1>8, <1>9, <1>10 DEF StoreNext

\* A store as it is first looked at.
LEMMA StoreStart == StoreInit => StoreInv
BY ObservationAssumption DEF StoreInit, StoreInv, StoreTypeOK, NothingVanishes

\* ReadersSound, for any store, any requests and any places a reranker gives: no
\* reader lists what was archived or has expired, and what names rows, follows
\* links or resumes a session shows a member nothing of others.
THEOREM ReadersStaySound == StoreSpec => []ReadersSound
<1>1. StoreInv => ReadersSound
    BY TenantKept, RemovedHidden DEF StoreInv, ReadersSound
<1> QED BY StoreStart, StoreStep, <1>1, PTL DEF StoreSpec

\* ListedCanBeOpened: what search, feed, the facets or a thread list, timeline,
\* getObservations and verifyObservation open to the same caller.
THEOREM ListedAlwaysOpens == StoreSpec => []ListedCanBeOpened
<1>1. StoreInv => ListedCanBeOpened
    BY ListedOpens DEF StoreInv
<1> QED BY StoreStart, StoreStep, <1>1, PTL DEF StoreSpec

\* NothingVanishes: runForgetPolicy takes no private or held row, and
\* cleanupDuplicateObservations no text of which it does not keep a newer copy,
\* in whatever order they run and time passes.
THEOREM NothingEverVanishes == StoreSpec => []NothingVanishes
<1>1. StoreInv => NothingVanishes
    BY DEF StoreInv
<1> QED BY StoreStart, StoreStep, <1>1, PTL DEF StoreSpec

------------------------------------------------------------------------------
(* The feed and the stream: what holds between any two steps. *)

\* Rows are records of their own ids.
RowsSound ==
    /\ feedRows \subseteq [id : Nat, at : 1..LastAt, project : Project]
    /\ IsFiniteSet(feedRows)
    /\ \A r, s \in feedRows : r.id = s.id => r = s

\* The ring holds the last events without a gap, up to the counter.
RingSound ==
    /\ counter \in Nat
    /\ ring \in Seq([id : Nat, row : feedRows])
    /\ Len(ring) <= Retention /\ Len(ring) <= counter
    /\ ring = <<>> => counter = 0
    /\ \A i \in DOMAIN ring : ring[i].id = counter - Len(ring) + i

\* The live stream is never ahead of the counter; the client that resumes has read on
\* from the position it brought.
StreamsSound ==
    /\ live \in [open : BOOLEAN, last : Nat]
    /\ live.open => live.last <= counter
    /\ reader \in [open : BOOLEAN, last : Nat, brought : Nat, seen : Seq(Nat)]
    /\ reader.brought <= reader.last
    /\ ReaderSees

\* A list of rows of a selection, each once.
RowList(items, sel) ==
    /\ ListOf(items, feedRows)
    /\ \A r \in Range(items) : Belongs(sel, r)

\* A position in a list, or none.
Cursor == feedRows \cup {NoneYet}

\* A list of the UI, shown or cached: what was there when its first page was read
\* and is not archived, it has, or it lies behind the cursor.
EntryOf(x, rows, gone) ==
    /\ x \in [sel : Selection, items : Seq(rows), cursor : rows \cup {NoneYet},
              more : BOOLEAN, failed : BOOLEAN, base : SUBSET rows]
    /\ ListOf(x.items, rows)
    /\ \A r \in Range(x.items) : Belongs(x.sel, r)
    /\ \A r \in x.base : r.id \notin gone /\ Serves(x.sel, r) =>
          \/ r \in Range(x.items)
          \/ x.more /\ x.cursor # NoneYet /\ Ahead(x.cursor, r)

ListsSound ==
    /\ EntryOf(list, feedRows, hidden)
    /\ DOMAIN cache = Selection
    /\ \A s \in Selection : cache[s] # NoneYet =>
          EntryOf(cache[s], feedRows, hidden) /\ cache[s].sel = s

\* An answer under way: it has what was visible behind the cursor it was asked for,
\* or leads on to it.
AnswerOf(answer, q, rows) ==
    /\ answer \in [items : Seq(rows), next : rows \cup {NoneYet}]
    /\ ListOf(answer.items, rows)
    /\ \A r \in Range(answer.items) : Belongs(q.sel, r)
    /\ \A r \in q.base : q.first \/ Ahead(q.cursor, r) =>
          \/ r \in Range(answer.items)
          \/ answer.next # NoneYet /\ Ahead(answer.next, r)

\* The request in flight belongs to the list x, and was answered for no less.
RequestOf(q, x, rows, gone) ==
    /\ q \in [sel : Selection, first : BOOLEAN, cursor : rows \cup {NoneYet},
              answer : [items : Seq(rows), next : rows \cup {NoneYet}] \cup {NoneYet},
              base : SUBSET rows, aborted : {FALSE}]
    /\ q.sel = x.sel
    /\ q.cursor = (IF q.first THEN NoneYet ELSE x.cursor)
    /\ q.first \/ x.cursor # NoneYet
    /\ q.answer # NoneYet =>
          /\ AnswerOf(q.answer, q, rows)
          /\ q.first \/ \A r \in x.base : r.id \notin gone /\ Serves(x.sel, r) => r \in q.base

RequestSound == request # NoneYet => RequestOf(request, list, feedRows, hidden)

FeedInv == RowsSound /\ RingSound /\ StreamsSound /\ ListsSound /\ RequestSound

\* What is answered late was aborted.
LateSound == \A q \in late : q.aborted

\* Different elements have as many different images.
LEMMA DistinctImages ==
    ASSUME NEW S, IsFiniteSet(S), NEW f, \A x, y \in S : f[x] = f[y] => x = y
    PROVE  Cardinality({f[x] : x \in S}) = Cardinality(S)
<1> DEFINE T == {f[x] : x \in S}
           g == [x \in S |-> f[x]]
<1>1. g \in Bijection(S, T)
    BY DEF Bijection, Injection, Surjection, IsInjective
<1>2. ExistsBijection(S, T)
    BY <1>1 DEF ExistsBijection
<1> QED BY <1>2, FS_Bijection

\* A list without repetitions has as many elements as places.
LEMMA ListCount ==
    ASSUME NEW S, NEW items, ListOf(items, S)
    PROVE  Cardinality(Range(items)) = Len(items)
<1>1. Len(items) \in Nat /\ DOMAIN items = 1..Len(items)
    BY LenProperties DEF ListOf
<1>2. IsFiniteSet(1..Len(items)) /\ Cardinality(1..Len(items)) = Len(items)
  <2>1. ASSUME NEW n \in Nat PROVE IsFiniteSet(1..n) /\ Cardinality(1..n) = n
    <3>1. /\ IsFiniteSet(1..n)
          /\ Cardinality(1..n) = IF 1 > n THEN 0 ELSE n - 1 + 1
        BY FS_Interval
    <3> QED BY <3>1
  <2> QED BY <1>1, <2>1
<1>3. \A x, y \in DOMAIN items : items[x] = items[y] => x = y
    BY DEF ListOf
<1>4. Cardinality({items[x] : x \in DOMAIN items}) = Cardinality(DOMAIN items)
    BY <1>1, <1>2, <1>3, DistinctImages
<1> QED BY <1>1, <1>2, <1>4 DEF Range

\* Rows are ordered by the feed.
LEMMA RowFields ==
    ASSUME RowsSound, NEW r \in feedRows
    PROVE  /\ r.id \in Nat /\ r.at \in Nat /\ r.at \in 1..LastAt /\ r.project \in Project
           /\ r # NoneYet
<1>1. r \in [id : Nat, at : 1..LastAt, project : Project] /\ LastAt \in Nat
    BY FeedAssumption DEF FeedAssumption, RowsSound
<1>2. r \in [id : Nat, at : Nat, project : Project]
    BY <1>1
<1> QED BY <1>1, <1>2, FeedAssumption DEF FeedAssumption

LEMMA AheadOnward ==
    ASSUME RowsSound, NEW a \in feedRows, NEW b \in feedRows, NEW c \in feedRows,
           Ahead(a, b), Ahead(b, c)
    PROVE  Ahead(a, c)
<1>1. /\ a.id \in Nat /\ a.at \in Nat /\ b.id \in Nat /\ b.at \in Nat
      /\ c.id \in Nat /\ c.at \in Nat
    BY RowFields
<1> QED BY <1>1 DEF Ahead

LEMMA RowsOrder ==
    ASSUME RowsSound, NEW S \in SUBSET feedRows
    PROVE  Orders({p \in S \X S : Ahead(p[1], p[2])}, S)
<1> DEFINE R == {p \in S \X S : Ahead(p[1], p[2])}
<1>1. \A a, b \in S : <<a, b>> \in R <=> Ahead(a, b)
    OBVIOUS
<1> HIDE DEF R
<1>2. ASSUME NEW a \in S PROVE <<a, a>> \notin R
  <2>1. a.id \in Nat /\ a.at \in Nat
      BY RowFields
  <2> QED BY <1>1, <2>1 DEF Ahead
<1>3. ASSUME NEW a \in S, NEW b \in S, a # b PROVE <<a, b>> \in R \/ <<b, a>> \in R
  <2>1. a.id \in Nat /\ a.at \in Nat /\ b.id \in Nat /\ b.at \in Nat /\ a.id # b.id
      BY <1>3, RowFields DEF RowsSound
  <2> QED BY <1>1, <2>1 DEF Ahead
<1>4. ASSUME NEW a \in S, NEW b \in S, NEW c \in S, <<a, b>> \in R, <<b, c>> \in R
      PROVE  <<a, c>> \in R
    BY <1>1, <1>4, AheadOnward
<1>5. Orders(R, S)
    BY <1>2, <1>3, <1>4 DEF Orders
<1> QED BY <1>5 DEF R

\* A page has the first rows behind the cursor; what it leaves out lies behind the
\* next cursor.
LEMMA PageSound ==
    ASSUME RowsSound, NEW sel \in Selection, NEW cursor \in Cursor
    PROVE  LET page == Page(sel, cursor)
           IN  /\ page \in [items : Seq(feedRows), next : Cursor]
               /\ RowList(page.items, sel)
               /\ \A r \in Visible(sel) : cursor = NoneYet \/ Ahead(cursor, r) =>
                     \/ r \in Range(page.items)
                     \/ page.next # NoneYet /\ Ahead(page.next, r)
<1> DEFINE after == {r \in Visible(sel) : cursor = NoneYet \/ Ahead(cursor, r)}
           R == {p \in after \X after : Ahead(p[1], p[2])}
           all == Sorted(after, R)
           n == IF Len(all) > PageSize THEN PageSize ELSE Len(all)
           items == SubSeq(all, 1, n)
           next == IF Len(all) > PageSize THEN all[n] ELSE NoneYet
           page == Page(sel, cursor)
<1>1. page = [items |-> items, next |-> next]
    BY DEF Page
<1>2. /\ after \subseteq feedRows /\ \A r \in after : Serves(sel, r)
      /\ \A r \in Visible(sel) : cursor = NoneYet \/ Ahead(cursor, r) => r \in after
    BY DEF Visible
<1>3. IsFiniteSet(after) /\ Orders(R, after)
  <2>1. IsFiniteSet(after)
      BY <1>2, FS_Subset DEF RowsSound
  <2> HIDE DEF after
  <2>2. Orders(R, after)
      BY <1>2, RowsOrder
  <2> QED BY <2>1, <2>2
<1>4. \A a, b \in after : <<a, b>> \in R => Ahead(a, b)
    OBVIOUS
<1> HIDE DEF after, R
<1>5. /\ all \in Seq(after)
      /\ \A i, j \in DOMAIN all : i # j => all[i] # all[j]
      /\ \A r \in after : \E i \in DOMAIN all : all[i] = r
      /\ \A i, j \in DOMAIN all : i < j => <<all[i], all[j]>> \in R
    BY <1>3, SortedList, SortedAll, SortedInOrder
<1> HIDE DEF all
<1> DEFINE m == Len(all)
<1>6. /\ m \in Nat /\ DOMAIN all = 1..m
      /\ \A i \in 1..m : all[i] \in after
    BY <1>5, LenProperties
<1>7. /\ n \in Nat /\ n <= m
      /\ \/ n \in 1..m /\ next = all[n]
         \/ n = m /\ next = NoneYet
  <2>1. PageSize \in Nat /\ PageSize # 0
      BY FeedAssumption DEF FeedAssumption
  <2>2. CASE m > PageSize
    <3>1. n = PageSize /\ next = all[n]
        BY <2>2
    <3> HIDE DEF m, n, next
    <3>2. m \in Nat
        BY <1>6
    <3> QED BY <2>1, <2>2, <3>1, <3>2
  <2>3. CASE ~(m > PageSize)
    <3>1. n = m /\ next = NoneYet
        BY <2>3
    <3> QED BY <1>6, <3>1
  <2> QED BY <2>2, <2>3
<1> HIDE DEF m, n, next
<1>8. /\ items \in Seq(after) /\ Len(items) = n /\ DOMAIN items = 1..n
      /\ \A i \in 1..n : items[i] = all[i]
  <2>1. \A i \in 1..n : all[i] \in after
      BY <1>6, <1>7
  <2>2. /\ items \in Seq(after)
        /\ Len(items) = IF 1 <= n THEN n - 1 + 1 ELSE 0
        /\ \A i \in 1..(n - 1 + 1) : items[i] = all[1 + i - 1]
      BY <1>7, <2>1, SubSeqProperties
  <2>3. Len(items) = n
      BY <1>7, <2>2
  <2>4. DOMAIN items = 1..n
      BY <2>2, <2>3, LenProperties
  <2>5. \A i \in 1..n : items[i] = all[i]
      BY <1>7, <2>2
  <2> QED BY <2>2, <2>3, <2>4, <2>5
<1> HIDE DEF items
<1>9. items \in Seq(feedRows) /\ next \in Cursor
  <2>1. items \in Seq(feedRows)
      BY <1>2, <1>8, SeqMonotonic
  <2>2. next \in Cursor
      BY <1>2, <1>6, <1>7 DEF Cursor
  <2> QED BY <2>1, <2>2
<1>10. RowList(items, sel)
  <2>1. \A i, j \in DOMAIN items : i # j => items[i] # items[j]
      BY <1>5, <1>6, <1>7, <1>8
  <2>2. \A r \in Range(items) : Belongs(sel, r)
      BY <1>2, <1>6, <1>7, <1>8 DEF Range, Belongs
  <2> QED BY <1>9, <2>1, <2>2 DEF RowList, ListOf
<1>11. ASSUME NEW r \in after
       PROVE  \/ r \in Range(items)
              \/ next # NoneYet /\ Ahead(next, r)
  <2>1. PICK i \in DOMAIN all : all[i] = r
      BY <1>5
  <2>2. CASE i <= n
      BY <1>6, <1>7, <1>8, <2>1, <2>2 DEF Range
  <2>3. CASE ~(i <= n)
    <3>1. n \in 1..m /\ next = all[n] /\ n < i
        BY <1>6, <1>7, <2>1, <2>3
    <3>2. Ahead(all[n], all[i]) /\ all[n] \in feedRows
        BY <1>2, <1>4, <1>5, <1>6, <2>1, <3>1
    <3> QED BY <2>1, <3>1, <3>2, RowFields
  <2> QED BY <2>2, <2>3
<1> QED BY <1>1, <1>2, <1>9, <1>10, <1>11

\* The lists the UI builds: a filtered one, one with a row in front, one with a page
\* behind.
LEMMA RowsFiltered ==
    ASSUME NEW items, ListOf(items, feedRows), NEW T
    PROVE  /\ ListOf(Sublist(items, T), feedRows)
           /\ Range(Sublist(items, T)) = Range(items) \cap T
<1> DEFINE kept == Sublist(items, T)
<1>1. items \in Seq(feedRows) /\ IsInjective(items)
    BY DEF ListOf, IsInjective
<1>2. kept \in Seq(feedRows \cap T) /\ Range(kept) = Range(items) \cap T /\ IsInjective(kept)
    BY <1>1, SublistList
<1> HIDE DEF kept
<1>3. kept \in Seq(feedRows)
    BY <1>2, SeqMonotonic
<1>4. ListOf(kept, feedRows)
    BY <1>2, <1>3 DEF ListOf, IsInjective
<1> QED BY <1>2, <1>4 DEF kept

\* Two lists without a row in common, one behind the other.
LEMMA JoinedList ==
    ASSUME NEW a, NEW b, ListOf(a, feedRows), ListOf(b, feedRows),
           Range(a) \cap Range(b) = {}
    PROVE  ListOf(a \o b, feedRows) /\ Range(a \o b) = Range(a) \cup Range(b)
<1> DEFINE c == a \o b
           m == Len(a)
           n == Len(b)
<1>1. /\ a \in Seq(feedRows) /\ b \in Seq(feedRows)
      /\ \A i, j \in DOMAIN a : i # j => a[i] # a[j]
      /\ \A i, j \in DOMAIN b : i # j => b[i] # b[j]
    BY DEF ListOf
<1>2. /\ c \in Seq(feedRows) /\ Len(c) = m + n
      /\ \A i \in 1..(m + n) : c[i] = IF i <= m THEN a[i] ELSE b[i - m]
    BY <1>1, ConcatProperties
<1>3. m \in Nat /\ n \in Nat /\ DOMAIN a = 1..m /\ DOMAIN b = 1..n
    BY <1>1, LenProperties
<1>4. DOMAIN c = 1..(m + n)
    BY <1>2, LenProperties
<1>5. \A i \in DOMAIN a, j \in DOMAIN b : a[i] # b[j]
    BY DEF Range
<1> HIDE DEF c, m, n
<1>6. \A i \in 1..m : i \in 1..(m + n) /\ c[i] = a[i]
    BY <1>2, <1>3
<1>7. \A i \in 1..n : m + i \in 1..(m + n) /\ c[m + i] = b[i]
    BY <1>2, <1>3
<1>8. ASSUME NEW i \in 1..(m + n)
      PROVE  \/ i \in 1..m /\ c[i] = a[i]
             \/ i - m \in 1..n /\ c[i] = b[i - m] /\ i > m
    BY <1>2, <1>3
<1>9. ASSUME NEW i \in DOMAIN c, NEW j \in DOMAIN c, i # j PROVE c[i] # c[j]
  <2>1. i \in 1..(m + n) /\ j \in 1..(m + n) /\ i \in Int /\ j \in Int
      BY <1>3, <1>4
  <2>2. CASE i \in 1..m /\ c[i] = a[i] /\ j \in 1..m /\ c[j] = a[j]
      BY <1>1, <1>3, <1>9, <2>2
  <2>3. CASE /\ i - m \in 1..n /\ c[i] = b[i - m]
             /\ j - m \in 1..n /\ c[j] = b[j - m]
    <3>1. i - m # j - m
        BY <1>3, <1>9, <2>1
    <3> QED BY <1>1, <1>3, <2>3, <3>1
  <2>4. CASE i \in 1..m /\ c[i] = a[i] /\ j - m \in 1..n /\ c[j] = b[j - m]
      BY <1>3, <1>5, <2>4
  <2>5. CASE j \in 1..m /\ c[j] = a[j] /\ i - m \in 1..n /\ c[i] = b[i - m]
      BY <1>3, <1>5, <2>5
  <2> QED BY <1>8, <2>1, <2>2, <2>3, <2>4, <2>5
<1>10. ListOf(c, feedRows)
    BY <1>2, <1>9 DEF ListOf
<1>11. Range(c) \subseteq Range(a) \cup Range(b)
    BY <1>3, <1>4, <1>8 DEF Range
<1>12. Range(a) \subseteq Range(c) /\ Range(b) \subseteq Range(c)
    BY <1>3, <1>4, <1>6, <1>7 DEF Range
<1> QED BY <1>10, <1>11, <1>12 DEF c

LEMMA SeededList ==
    ASSUME NEW items, NEW sel, ListOf(items, feedRows)
    PROVE  RowList(Sublist(items, {r \in Range(items) : Admits(sel, r)}), sel)
<1> DEFINE T == {r \in Range(items) : Admits(sel, r)}
<1>1. \A r \in T : Belongs(sel, r)
    BY DEF Belongs
<1> HIDE DEF T
<1>2. RowList(Sublist(items, T), sel)
    BY <1>1, RowsFiltered DEF RowList
<1> QED BY <1>2 DEF T

LEMMA PrependedList ==
    ASSUME NEW items, NEW sel, RowList(items, sel), NEW new \in feedRows, Belongs(sel, new)
    PROVE  /\ RowList(Prepended(items, new), sel)
           /\ Range(items) \subseteq Range(Prepended(items, new))
<1> DEFINE T == Range(items) \ {new}
           rest == Sublist(items, T)
           one == <<new>>
<1>1. ListOf(rest, feedRows) /\ Range(rest) = Range(items) \cap T
  <2>1. ListOf(items, feedRows)
      BY DEF RowList
  <2> HIDE DEF T
  <2> QED BY <2>1, RowsFiltered
<1>2. ListOf(one, feedRows) /\ Range(one) = {new}
    BY DEF ListOf, Range
<1>3. Prepended(items, new) = one \o rest
    BY DEF Prepended
<1>4. Range(one) \cap Range(rest) = {}
    BY <1>1, <1>2
<1>5. Range(items) \subseteq {new} \cup Range(rest)
    BY <1>1
<1> HIDE DEF rest, one
<1>6. ListOf(one \o rest, feedRows) /\ Range(one \o rest) = {new} \cup Range(rest)
    BY <1>1, <1>2, <1>4, JoinedList
<1>7. \A r \in Range(one \o rest) : Belongs(sel, r)
    BY <1>1, <1>6 DEF RowList
<1> QED BY <1>3, <1>5, <1>6, <1>7 DEF RowList

LEMMA MergedList ==
    ASSUME NEW items, NEW more, NEW sel, RowList(items, sel), RowList(more, sel)
    PROVE  /\ RowList(MergeFeedItems(items, more), sel)
           /\ Range(MergeFeedItems(items, more)) = Range(items) \cup Range(more)
<1> DEFINE T == Range(more) \ Range(items)
           rest == Sublist(more, T)
<1>1. ListOf(rest, feedRows) /\ Range(rest) = Range(more) \cap T
  <2>1. ListOf(more, feedRows)
      BY DEF RowList
  <2> HIDE DEF T
  <2> QED BY <2>1, RowsFiltered
<1>2. MergeFeedItems(items, more) = items \o rest
    BY DEF MergeFeedItems
<1>3. Range(items) \cap Range(rest) = {} /\ ListOf(items, feedRows)
    BY <1>1 DEF RowList
<1>4. Range(items) \cup Range(rest) = Range(items) \cup Range(more)
    BY <1>1
<1> HIDE DEF rest
<1>5. ListOf(items \o rest, feedRows) /\ Range(items \o rest) = Range(items) \cup Range(more)
    BY <1>1, <1>3, <1>4, JoinedList
<1>6. \A r \in Range(items \o rest) : Belongs(sel, r)
    BY <1>5 DEF RowList
<1> QED BY <1>2, <1>5, <1>6 DEF RowList

------------------------------------------------------------------------------
(* The stream. *)

\* Where what the ring still has behind a position begins.
Onward(last) == IF last <= counter - Len(ring) THEN counter - Len(ring) ELSE last

\* It is handed out in order and without a gap, from the position on unless the ring
\* was cut past it.
LEMMA EventsHandedOut ==
    ASSUME RingSound, NEW last \in Nat
    PROVE  LET events == EventsSince(last)
           IN  /\ events \in Seq([id : Nat, row : feedRows])
               /\ \A n \in DOMAIN events : events[n].id > last /\ events[n].id <= counter
               /\ \A n \in DOMAIN events : events[n].id = Onward(last) + n
<1> DEFINE X == [id : Nat, row : feedRows]
           T == {e \in Range(ring) : e.id > last}
           places == {i \in DOMAIN ring : ring[i] \in T}
           new == Sublist(ring, T)
           events == EventsSince(last)
           size == Len(ring)
           base == counter - Len(ring)
<1>1. /\ ring \in Seq(X) /\ size \in Nat /\ DOMAIN ring = 1..size /\ counter \in Nat
      /\ base \in Nat /\ base + size = counter
      /\ \A i \in 1..size : ring[i] \in X /\ ring[i].id = base + i
  <2>1. /\ ring \in Seq(X) /\ Len(ring) \in Nat /\ DOMAIN ring = 1..Len(ring)
        /\ counter \in Nat /\ Len(ring) <= counter
        /\ \A i \in 1..Len(ring) : ring[i] \in X /\ ring[i].id = counter - Len(ring) + i
      BY LenProperties DEF RingSound
  <2> QED BY <2>1
<1>2. places = {i \in 1..size : base + i > last}
    BY <1>1 DEF Range
<1> HIDE DEF X, T, places, size, base
<1>3. PICK m \in 0..size : /\ places = (m + 1)..size
                           /\ base + m >= last \/ m = size
                           /\ base <= last => base + m <= last
                           /\ last <= base => m = 0
  <2>1. CASE last <= base
    <3>1. places = (0 + 1)..size
        BY <1>1, <1>2, <2>1
    <3> QED BY <1>1, <2>1, <3>1
  <2>2. CASE last >= base + size
    <3>1. places = (size + 1)..size
        BY <1>1, <1>2, <2>2
    <3> QED BY <1>1, <2>2, <3>1
  <2>3. CASE base < last /\ last < base + size
    <3>1. places = ((last - base) + 1)..size /\ last - base \in 0..size
        BY <1>1, <1>2, <2>3
    <3>2. base + (last - base) = last /\ ~(last <= base)
        BY <1>1, <2>3
    <3> QED BY <3>1, <3>2
  <2> QED BY <1>1, <2>1, <2>2, <2>3
<1>4. /\ new = [n \in 1..(size - m) |-> ring[m + n]]
      /\ \A n \in 1..(size - m) : m + n \in 1..size
  <2>1. m + 1 \in Nat /\ size \in Nat /\ m + 1 <= size + 1
      BY <1>1, <1>3
  <2>2. Ascending((m + 1)..size) = [i \in 1..(size - (m + 1) + 1) |-> (m + 1) + i - 1]
      BY <2>1, AscendingInterval
  <2>3. new = [n \in DOMAIN Ascending(places) |-> ring[Ascending(places)[n]]]
      BY DEF Sublist, places
  <2>4. size - (m + 1) + 1 = size - m
      BY <1>1, <1>3
  <2>5. \A n \in 1..(size - m) : m + n \in 1..size /\ (m + 1) + n - 1 = m + n
      BY <1>1, <1>3
  <2> DEFINE s == Ascending(places)
  <2>6. s = [i \in 1..(size - m) |-> (m + 1) + i - 1]
      BY <1>3, <2>2, <2>4
  <2> HIDE DEF s, new
  <2>7. DOMAIN s = 1..(size - m) /\ \A n \in 1..(size - m) : s[n] = m + n
      BY <2>5, <2>6
  <2> QED BY <2>3, <2>5, <2>7 DEF s
<1>5. size - m \in Nat /\ Len(new) = size - m
  <2>1. size - m \in Nat
      BY <1>1, <1>3
  <2> HIDE DEF new
  <2> QED BY <1>4, <2>1
<1> DEFINE c == IF Len(new) > Batch200 THEN Batch200 ELSE Len(new)
<1>6. c \in Nat /\ c <= size - m
  <2>1. Batch200 \in Nat
      BY FeedAssumption DEF FeedAssumption
  <2> QED BY <1>5, <2>1
<1>7. events = SubSeq(new, 1, c)
    BY DEF EventsSince, T
<1> HIDE DEF new, c, events
<1>8. /\ events \in Seq(X) /\ DOMAIN events = 1..c
      /\ \A n \in 1..c : events[n] = ring[m + n] /\ m + n \in 1..size
  <2>1. \A n \in 1..c : n \in 1..(size - m)
      BY <1>5, <1>6
  <2>2. \A n \in 1..c : new[n] = ring[m + n] /\ new[n] \in X /\ m + n \in 1..size
      BY <1>1, <1>4, <2>1
  <2>3. /\ SubSeq(new, 1, c) \in Seq(X)
        /\ Len(SubSeq(new, 1, c)) = IF 1 <= c THEN c - 1 + 1 ELSE 0
        /\ \A n \in 1..(c - 1 + 1) : SubSeq(new, 1, c)[n] = new[1 + n - 1]
      BY <1>6, <2>2, SubSeqProperties
  <2>4. Len(events) = c /\ events \in Seq(X)
      BY <1>6, <1>7, <2>3
  <2>5. DOMAIN events = 1..c
      BY <2>4, LenProperties
  <2>6. \A n \in 1..c : events[n] = new[n]
      BY <1>6, <1>7, <2>3
  <2> QED BY <2>2, <2>4, <2>5, <2>6
<1>9. ASSUME NEW n \in DOMAIN events
      PROVE  /\ events[n].id > last /\ events[n].id <= counter
             /\ events[n].id = Onward(last) + n
  <2>1. /\ n \in 1..c /\ m + n \in 1..size /\ m \in Nat /\ n \in Nat \ {0}
        /\ events[n].id = base + (m + n)
      BY <1>1, <1>3, <1>6, <1>8
  <2>2. base + m >= last
      BY <1>1, <1>3, <2>1
  <2> DEFINE id == events[n].id
  <2>3. id = base + (m + n)
      BY <2>1
  <2> HIDE DEF id
  <2>4. id > last /\ id <= counter
      BY <1>1, <2>1, <2>2, <2>3
  <2>5. Onward(last) = IF last <= base THEN base ELSE last
      BY DEF Onward, base
  <2>6. id = Onward(last) + n
    <3>1. CASE last <= base
        BY <1>1, <1>3, <2>1, <2>3, <2>5, <3>1
    <3>2. CASE ~(last <= base)
      <4>1. base + m <= last /\ base + m >= last /\ base + m \in Int /\ last \in Int
          BY <1>1, <1>3, <2>1, <2>2, <3>2
      <4>2. base + m = last
          BY <4>1
      <4>3. id = (base + m) + n
          BY <1>1, <2>1, <2>3
      <4> QED BY <2>5, <3>2, <4>2, <4>3
    <3> QED BY <3>1, <3>2
  <2> QED BY <2>4, <2>6 DEF id
<1> QED BY <1>8, <1>9 DEF X, events

LEMMA LatestIsCounter ==
    ASSUME RingSound
    PROVE  LatestStreamEventId = counter
<1>1. /\ Len(ring) \in Nat /\ DOMAIN ring = 1..Len(ring) /\ counter \in Nat
      /\ ring # <<>> => Len(ring) # 0
    BY LenProperties, EmptySeq DEF RingSound
<1>2. CASE ring = <<>>
    BY <1>2 DEF LatestStreamEventId
<1>3. CASE ring # <<>>
  <2>1. Len(ring) \in DOMAIN ring
      BY <1>1, <1>3
  <2>2. ring[Len(ring)].id = counter - Len(ring) + Len(ring)
      BY <2>1 DEF RingSound
  <2> QED BY <1>1, <1>3, <2>2 DEF LatestStreamEventId
<1> QED BY <1>2, <1>3

------------------------------------------------------------------------------
(* Lists and requests. *)

LEMMA EmptyEntry ==
    ASSUME NEW sel \in Selection, NEW rows, NEW gone
    PROVE  EntryOf(EmptyList(sel), rows, gone) /\ EmptyList(sel).sel = sel
<1>1. <<>> \in Seq(rows) /\ DOMAIN <<>> = {} /\ Range(<<>>) = {}
    BY EmptySeq DEF Range
<1> QED BY <1>1 DEF EntryOf, EmptyList, ListOf

\* A request for a first page.
LEMMA FreshRequest ==
    ASSUME NEW sel \in Selection, NEW x, x.sel = sel, NEW rows, NEW gone
    PROVE  RequestOf(NewRequest(sel, TRUE, NoneYet), x, rows, gone)
<1> DEFINE q == NewRequest(sel, TRUE, NoneYet)
<1>1. /\ q \in [sel : Selection, first : BOOLEAN, cursor : rows \cup {NoneYet},
                answer : [items : Seq(rows), next : rows \cup {NoneYet}] \cup {NoneYet},
                base : SUBSET rows, aborted : {FALSE}]
      /\ q.sel = sel /\ q.first = TRUE /\ q.cursor = NoneYet /\ q.answer = NoneYet
    BY DEF NewRequest
<1> HIDE DEF q
<1>2. RequestOf(q, x, rows, gone)
    BY <1>1 DEF RequestOf
<1> QED BY <1>2 DEF q

\* Lists stay sound when rows are added and archived, and when only an error is shown
\* or taken back.
LEMMA EntryGrows ==
    ASSUME NEW rows, NEW more, rows \subseteq more, NEW gone, NEW went, gone \subseteq went,
           NEW x, EntryOf(x, rows, gone)
    PROVE  EntryOf(x, more, went)
<1> DEFINE E == [sel : Selection, items : Seq(rows), cursor : rows \cup {NoneYet},
                 more : BOOLEAN, failed : BOOLEAN, base : SUBSET rows]
           F == [sel : Selection, items : Seq(more), cursor : more \cup {NoneYet},
                 more : BOOLEAN, failed : BOOLEAN, base : SUBSET more]
<1>1. x \in E /\ ListOf(x.items, rows) /\ x.base \subseteq rows
    BY DEF EntryOf
<1>2. Seq(rows) \subseteq Seq(more)
    BY SeqMonotonic
<1>3. x \in F
    BY <1>1, <1>2
<1>4. ListOf(x.items, more)
    BY <1>1, <1>2 DEF ListOf
<1> QED BY <1>3, <1>4 DEF EntryOf

LEMMA EntryMarked ==
    ASSUME NEW rows, NEW gone, NEW x, EntryOf(x, rows, gone), NEW y,
           y = [x EXCEPT !.failed = FALSE] \/ y = [x EXCEPT !.failed = TRUE]
    PROVE  /\ EntryOf(y, rows, gone)
           /\ y.sel = x.sel /\ y.cursor = x.cursor /\ y.base = x.base
<1>1. /\ y \in [sel : Selection, items : Seq(rows), cursor : rows \cup {NoneYet},
                more : BOOLEAN, failed : BOOLEAN, base : SUBSET rows]
      /\ y.sel = x.sel /\ y.items = x.items /\ y.cursor = x.cursor /\ y.more = x.more
      /\ y.base = x.base
    BY DEF EntryOf
<1>2. EntryOf(y, rows, gone)
    BY <1>1 DEF EntryOf
<1> QED BY <1>1, <1>2

\* So does a request, and when its list shows other items.
LEMMA RequestGrows ==
    ASSUME NEW rows, NEW more, rows \subseteq more, NEW gone, NEW went, gone \subseteq went,
           NEW q, NEW x, RequestOf(q, x, rows, gone), x.base \subseteq rows,
           NEW y, y.sel = x.sel, y.cursor = x.cursor, y.base = x.base
    PROVE  RequestOf(q, y, more, went)
<1> DEFINE A == [items : Seq(rows), next : rows \cup {NoneYet}]
           B == [items : Seq(more), next : more \cup {NoneYet}]
<1>1. Seq(rows) \subseteq Seq(more)
    BY SeqMonotonic
<1>2. A \subseteq B
    BY <1>1
<1>3. /\ q \in [sel : Selection, first : BOOLEAN, cursor : rows \cup {NoneYet},
                answer : A \cup {NoneYet}, base : SUBSET rows, aborted : {FALSE}]
      /\ q.base \subseteq rows
    BY DEF RequestOf
<1>4. q.answer # NoneYet => AnswerOf(q.answer, q, more)
  <2>1. ASSUME q.answer # NoneYet PROVE AnswerOf(q.answer, q, more)
    <3>1. AnswerOf(q.answer, q, rows)
        BY <2>1 DEF RequestOf
    <3> DEFINE answer == q.answer
    <3>2. answer \in A /\ ListOf(answer.items, rows)
        BY <3>1 DEF AnswerOf
    <3>3. answer \in B /\ ListOf(answer.items, more)
        BY <1>1, <1>2, <3>2 DEF ListOf
    <3> HIDE DEF answer
    <3>4. AnswerOf(answer, q, rows) => AnswerOf(answer, q, more)
        BY <3>3 DEF AnswerOf
    <3> QED BY <3>1, <3>4 DEF answer
  <2> QED BY <2>1
<1> HIDE DEF A
<1>5. q \in [sel : Selection, first : BOOLEAN, cursor : more \cup {NoneYet},
             answer : B \cup {NoneYet}, base : SUBSET more, aborted : {FALSE}]
  <2> HIDE DEF B
  <2> QED BY <1>2, <1>3
<1>6. /\ q.sel = y.sel /\ q.cursor = (IF q.first THEN NoneYet ELSE y.cursor)
      /\ q.first \/ y.cursor # NoneYet
      /\ q.answer # NoneYet =>
            q.first \/ \A r \in y.base : r.id \notin went /\ Serves(y.sel, r) => r \in q.base
    BY DEF RequestOf
<1> QED BY <1>4, <1>5, <1>6 DEF RequestOf

------------------------------------------------------------------------------
(* What the invariant says of the feed. *)

LEMMA FeedInvExact ==
    ASSUME FeedInv, LateSound
    PROVE  FeedExact
<1>1. /\ RowsSound /\ RingSound /\ StreamsSound /\ EntryOf(list, feedRows, hidden)
    BY DEF FeedInv, ListsSound
<1>2. \A r \in feedRows : r.at \in 1..LastAt /\ r.project \in Project
    BY <1>1, RowFields
<1>3. Cardinality({r.id : r \in feedRows}) = Cardinality(feedRows)
  <2> DEFINE f == [r \in feedRows |-> r.id]
  <2>1. IsFiniteSet(feedRows) /\ \A r, s \in feedRows : f[r] = f[s] => r = s
      BY <1>1 DEF RowsSound
  <2>2. {f[r] : r \in feedRows} = {r.id : r \in feedRows}
      OBVIOUS
  <2> HIDE DEF f
  <2>3. Cardinality({f[r] : r \in feedRows}) = Cardinality(feedRows)
      BY <2>1, DistinctImages
  <2> QED BY <2>2, <2>3
<1>4. /\ list.sel \in Selection /\ ListOf(list.items, feedRows)
      /\ list.items \in Seq(feedRows)
    BY <1>1 DEF EntryOf
<1>5. Range(list.items) \subseteq feedRows
    BY <1>4, LenProperties DEF Range
<1>6. Cardinality(Range(list.items)) = Len(list.items)
    BY <1>4, ListCount
<1>7. FeedTypeOK
    BY <1>1, <1>2, <1>3, <1>4, <1>5, <1>6 DEF FeedTypeOK, RingSound, StreamsSound, LateSound
<1>8. ShownBelong
    BY <1>1 DEF ShownBelong, EntryOf
<1>9. PagedComplete
  <2>1. ASSUME ~list.more, NEW r \in list.base \cap Visible(list.sel)
        PROVE  r \in Range(list.items)
      BY <1>1, <2>1 DEF EntryOf, Visible
  <2> QED BY <2>1 DEF PagedComplete
<1>10. ReaderSees
    BY <1>1 DEF StreamsSound
<1> QED BY <1>7, <1>8, <1>9, <1>10 DEF FeedExact

LEMMA FeedInvInit ==
    ASSUME FeedInit
    PROVE  FeedInv /\ LateSound
<1>1. RowsSound
  <2>1. feedRows = {}
      BY DEF FeedInit
  <2> QED BY <2>1, FS_EmptySet DEF RowsSound
<1>2. RingSound
  <2>1. ring = <<>> /\ counter = 0 /\ Len(ring) = 0 /\ DOMAIN ring = {}
      BY DEF FeedInit
  <2>2. ring \in Seq([id : Nat, row : feedRows])
      BY <2>1, EmptySeq
  <2>3. Retention \in Nat
      BY FeedAssumption DEF FeedAssumption
  <2> QED BY <2>1, <2>2, <2>3 DEF RingSound
<1>3. StreamsSound
  <2>1. /\ live = [open |-> FALSE, last |-> 0]
        /\ reader = [open |-> FALSE, last |-> 0, brought |-> 0, seen |-> <<>>]
      BY DEF FeedInit
  <2>2. <<>> \in Seq(Nat) /\ Range(<<>>) = {} /\ DOMAIN <<>> = {}
      BY EmptySeq DEF Range
  <2>3. (0 + 1) .. 0 = {}
      BY SMT
  <2> QED BY <2>1, <2>2, <2>3 DEF StreamsSound, ReaderSees
<1>4. AllProjects \in Selection
    BY DEF Selection
<1>5. EntryOf(EmptyList(AllProjects), feedRows, hidden) /\ EmptyList(AllProjects).sel = AllProjects
    BY <1>4, EmptyEntry
<1>6. ListsSound
  <2>1. list = EmptyList(AllProjects) /\ cache = [s \in Selection |-> NoneYet]
      BY DEF FeedInit
  <2> QED BY <1>4, <1>5, <2>1 DEF ListsSound
<1>7. RequestSound
  <2>1. /\ list = EmptyList(AllProjects)
        /\ request \in {NewRequest(AllProjects, TRUE, NoneYet), NoneYet}
      BY DEF FeedInit
  <2> QED BY <1>4, <1>5, <2>1, FreshRequest DEF RequestSound
<1>8. LateSound
    BY DEF FeedInit, LateSound
<1> QED BY <1>1, <1>2, <1>3, <1>6, <1>7, <1>8 DEF FeedInv

------------------------------------------------------------------------------
(* What a step leaves alone stays sound. *)

LEMMA ListsStay ==
    ASSUME ListsSound, RequestSound, UNCHANGED <<list, request, cache>>,
           feedRows \subseteq feedRows', hidden \subseteq hidden'
    PROVE  ListsSound' /\ RequestSound'
<1> DEFINE rows == feedRows'
           gone == hidden'
<1>1. feedRows \subseteq rows /\ hidden \subseteq gone
    OBVIOUS
<1>2. list' = list /\ request' = request /\ cache' = cache
    OBVIOUS
<1> HIDE DEF rows, gone
<1>3. EntryOf(list, rows, gone)
    BY <1>1, EntryGrows DEF ListsSound
<1>4. \A s \in Selection : cache[s] # NoneYet =>
          EntryOf(cache[s], rows, gone) /\ cache[s].sel = s
    BY <1>1, EntryGrows DEF ListsSound
<1>5. request # NoneYet => RequestOf(request, list, rows, gone)
  <2>1. list.base \subseteq feedRows
      BY DEF ListsSound, EntryOf
  <2> QED BY <1>1, <2>1, RequestGrows DEF RequestSound
<1>6. DOMAIN cache = Selection
    BY DEF ListsSound
<1> QED BY <1>2, <1>3, <1>4, <1>5, <1>6 DEF ListsSound, RequestSound, rows, gone

LEMMA RingStays ==
    ASSUME RowsSound, RingSound, UNCHANGED serverVars
    PROVE  /\ RowsSound' /\ RingSound'
           /\ feedRows' = feedRows /\ hidden' = hidden /\ counter' = counter
           /\ ring' = ring /\ epoch' = epoch
BY DEF serverVars, RowsSound, RingSound

LEMMA StreamsStay ==
    ASSUME StreamsSound, UNCHANGED serverVars, reader' = reader,
           live' \in [open : BOOLEAN, last : Nat], live'.open => live'.last <= counter
    PROVE  StreamsSound'
BY DEF serverVars, StreamsSound, ReaderSees

\* The UI shows another list and may keep one in its cache.
LEMMA ListShown ==
    ASSUME ListsSound, UNCHANGED serverVars, EntryOf(list', feedRows, hidden),
           NEW s \in Selection, NEW x, cache' = cache \/ cache' = [cache EXCEPT ![s] = x],
           cache' # cache => EntryOf(x, feedRows, hidden) /\ x.sel = s
    PROVE  ListsSound'
<1>1. feedRows' = feedRows /\ hidden' = hidden
    BY DEF serverVars
<1>2. DOMAIN cache = Selection
    BY DEF ListsSound
<1>3. DOMAIN cache' = Selection
    BY <1>2
<1>4. ASSUME NEW t \in Selection, cache'[t] # NoneYet
      PROVE  EntryOf(cache'[t], feedRows, hidden) /\ cache'[t].sel = t
  <2>1. CASE cache'[t] = cache[t]
      BY <1>4, <2>1 DEF ListsSound
  <2>2. CASE cache'[t] # cache[t]
    <3>1. cache' # cache /\ t = s /\ cache'[t] = x
        BY <1>2, <2>2
    <3> QED BY <3>1
  <2> QED BY <2>1, <2>2
<1> QED BY <1>1, <1>3, <1>4 DEF ListsSound

\* What a selection shows: its cached entry, a seed taken from the entry of all, or
\* nothing yet.
Shown(sel) ==
    IF cache[sel] # NoneYet THEN [cache[sel] EXCEPT !.failed = FALSE]
    ELSE IF HasSeed(sel) THEN Seeded(sel) ELSE EmptyList(sel)

LEMMA ShownSound ==
    ASSUME ListsSound, NEW sel \in Selection
    PROVE  EntryOf(Shown(sel), feedRows, hidden) /\ Shown(sel).sel = sel
<1>1. CASE cache[sel] # NoneYet
  <2> DEFINE x == cache[sel]
  <2>1. EntryOf(x, feedRows, hidden) /\ x.sel = sel
      BY <1>1 DEF ListsSound
  <2>2. Shown(sel) = [x EXCEPT !.failed = FALSE]
      BY <1>1 DEF Shown
  <2> HIDE DEF x
  <2> DEFINE y == Shown(sel)
  <2>3. y = [x EXCEPT !.failed = FALSE] \/ y = [x EXCEPT !.failed = TRUE]
      BY <2>2
  <2> HIDE DEF y
  <2>4. EntryOf(y, feedRows, hidden) /\ y.sel = x.sel
      BY <2>1, <2>3, EntryMarked
  <2> QED BY <2>1, <2>4 DEF y
<1>2. CASE cache[sel] = NoneYet /\ HasSeed(sel)
  <2> DEFINE all == cache[AllProjects].items
             items == Sublist(all, {r \in Range(all) : Admits(sel, r)})
  <2>1. AllProjects \in Selection /\ cache[AllProjects] # NoneYet
      BY <1>2 DEF HasSeed, Selection
  <2>2. ListOf(all, feedRows)
      BY <2>1 DEF ListsSound, EntryOf
  <2> HIDE DEF all
  <2>3. RowList(items, sel)
      BY <2>2, SeededList
  <2>4. Shown(sel) = [EmptyList(sel) EXCEPT !.items = items, !.more = FALSE]
      BY <1>2 DEF Shown, Seeded, all
  <2> HIDE DEF items
  <2>5. Shown(sel) = [sel |-> sel, items |-> items, cursor |-> NoneYet, more |-> FALSE,
                      failed |-> FALSE, base |-> {}]
      BY <2>4 DEF EmptyList
  <2>6. items \in Seq(feedRows) /\ ListOf(items, feedRows) /\ \A r \in Range(items) : Belongs(sel, r)
      BY <2>3 DEF RowList, ListOf
  <2> QED BY <2>5, <2>6 DEF EntryOf
<1>3. CASE cache[sel] = NoneYet /\ ~HasSeed(sel)
  <2>1. Shown(sel) = EmptyList(sel)
      BY <1>3 DEF Shown
  <2> QED BY <2>1, EmptyEntry
<1> QED BY <1>1, <1>2, <1>3

------------------------------------------------------------------------------
(* The daemon's steps. *)

LEMMA AnnounceKeeps ==
    ASSUME FeedInv, NEW id \in 1..MaxStored, NEW at \in 1..LastAt, NEW p \in Project,
           Announce(id, at, p)
    PROVE  FeedInv'
<1> DEFINE new == [id |-> id, at |-> at, project |-> p]
           e == [id |-> counter + 1, row |-> new]
           grown == Append(ring, e)
           cut == Len(grown) > Retention
           X == [id : Nat, row : feedRows']
<1>1. /\ RowsSound /\ RingSound /\ StreamsSound /\ ListsSound /\ RequestSound
    BY DEF FeedInv
<1>2. /\ \A r \in feedRows : r.id # id
      /\ feedRows' = feedRows \cup {new} /\ counter' = counter + 1
      /\ ring' = IF cut THEN SubSeq(grown, Len(grown) - Retention + 1, Len(grown)) ELSE grown
      /\ hidden' = hidden /\ reader' = reader
      /\ list' = list /\ request' = request /\ cache' = cache /\ live' = live
    BY DEF Announce, uiVars
<1>3. new \in [id : Nat, at : 1..LastAt, project : Project] /\ new.id = id
  <2>1. MaxStored \in Nat
      BY FeedAssumption DEF FeedAssumption
  <2> QED BY <2>1
<1>4. RowsSound'
  <2>1. IsFiniteSet(feedRows \cup {new})
      BY <1>1, FS_AddElement DEF RowsSound
  <2> HIDE DEF new
  <2>2. \A r, s \in feedRows \cup {new} : r.id = s.id => r = s
      BY <1>1, <1>2, <1>3 DEF RowsSound
  <2> QED BY <1>1, <1>2, <1>3, <2>1, <2>2 DEF RowsSound
<1>5. ListsSound' /\ RequestSound'
  <2>1. UNCHANGED <<list, request, cache>> /\ feedRows \subseteq feedRows' /\ hidden \subseteq hidden'
      BY <1>2
  <2> QED BY <1>1, <2>1, ListsStay
<1> DEFINE n == Len(ring)
<1>6. /\ n \in Nat /\ counter \in Nat /\ n <= Retention /\ n <= counter
      /\ Retention \in Nat /\ Retention # 0
      /\ ring \in Seq(X) /\ \A i \in 1..n : ring[i].id = counter - n + i
  <2>1. ring \in Seq([id : Nat, row : feedRows])
      BY <1>1 DEF RingSound
  <2>2. [id : Nat, row : feedRows] \subseteq X
      BY <1>2
  <2>3. ring \in Seq(X)
    <3> HIDE DEF X
    <3> QED BY <2>1, <2>2, SeqMonotonic
  <2>4. n \in Nat /\ DOMAIN ring = 1..n
      BY <2>1, LenProperties
  <2>5. Retention \in Nat /\ Retention # 0
      BY FeedAssumption DEF FeedAssumption
  <2> QED BY <1>1, <2>3, <2>4, <2>5 DEF RingSound
<1>7. e \in X /\ e.id = counter + 1
    BY <1>2, <1>6
<1> HIDE DEF n, e, X
<1>8. /\ grown \in Seq(X) /\ Len(grown) = n + 1
      /\ \A i \in 1..(n + 1) : grown[i] \in X /\ grown[i].id = counter - n + i
  <2>1. /\ grown \in Seq(X) /\ Len(grown) = n + 1
        /\ \A i \in 1..n : grown[i] = ring[i]
        /\ grown[n + 1] = e
      BY <1>6, <1>7, AppendProperties DEF n
  <2> HIDE DEF grown
  <2>2. \A i \in 1..(n + 1) : grown[i] \in X
      BY <1>6, <2>1, ElementOfSeq
  <2>3. \A i \in 1..(n + 1) : i \in 1..n \/ i = n + 1
      BY <1>6
  <2>4. ASSUME NEW i \in 1..(n + 1) PROVE grown[i].id = counter - n + i
    <3>1. CASE i \in 1..n
        BY <1>6, <2>1, <3>1
    <3>2. CASE i = n + 1
      <4>1. grown[i].id = counter + 1
          BY <1>7, <2>1, <3>2
      <4>2. counter + 1 = counter - n + i
          BY <1>6, <3>2
      <4> QED BY <4>1, <4>2
    <3> QED BY <2>3, <3>1, <3>2
  <2> QED BY <2>1, <2>2, <2>4
<1> HIDE DEF grown
<1>10. /\ ring' \in Seq(X) /\ Len(ring') \in Nat /\ Len(ring') # 0
       /\ Len(ring') <= Retention /\ Len(ring') <= counter + 1
       /\ Len(ring') = IF cut THEN Retention ELSE n + 1
       /\ cut => n = Retention
       /\ \A i \in 1..Len(ring') : ring'[i].id = counter + 1 - Len(ring') + i
  <2>1. CASE n = Retention
    <3> DEFINE b == n + 1
    <3>1. cut /\ ring' = SubSeq(grown, 2, b)
      <4>1. Len(grown) = b /\ b > Retention /\ b - Retention + 1 = 2
          BY <1>6, <1>8, <2>1
      <4> HIDE DEF b
      <4> QED BY <1>2, <4>1
    <3>2. /\ SubSeq(grown, 2, b) \in Seq(X)
          /\ Len(SubSeq(grown, 2, b)) = IF 2 <= b THEN b - 2 + 1 ELSE 0
          /\ \A i \in 1..(b - 2 + 1) : SubSeq(grown, 2, b)[i] = grown[2 + i - 1]
      <4>1. \A i \in 2..b : grown[i] \in X
          BY <1>6, <1>8
      <4>2. 2 \in Int /\ b \in Int
          BY <1>6
      <4> HIDE DEF b
      <4> QED BY <4>1, <4>2, SubSeqProperties
    <3>3. b - 2 + 1 = n /\ 2 <= b
        BY <1>6, <2>1
    <3> HIDE DEF b
    <3>4. Len(ring') = n /\ \A i \in 1..n : ring'[i] = grown[i + 1]
      <4>1. Len(ring') = n /\ \A i \in 1..n : ring'[i] = grown[2 + i - 1]
          BY <3>1, <3>2, <3>3
      <4>2. \A i \in 1..n : 2 + i - 1 = i + 1
          BY <1>6
      <4> QED BY <4>1, <4>2
    <3>5. \A i \in 1..n : i + 1 \in 1..(n + 1) /\ counter - n + (i + 1) = counter + 1 - n + i
        BY <1>6
    <3>6. \A i \in 1..n : ring'[i].id = counter + 1 - n + i
        BY <1>8, <3>4, <3>5
    <3>7. ring' \in Seq(X) /\ Len(ring') = n /\ Retention = n /\ n <= counter + 1
        BY <1>6, <2>1, <3>1, <3>2, <3>4
    <3>8. cut
        BY <3>1
    <3> HIDE DEF cut
    <3> QED BY <1>6, <3>6, <3>7, <3>8
  <2>2. CASE n # Retention
    <3> DEFINE b == n + 1
    <3>1. /\ counter + 1 - b = counter - n /\ b <= Retention /\ b <= counter + 1
          /\ b \in Nat /\ b # 0 /\ ~(b > Retention)
        BY <1>6, <2>2
    <3>2. Len(grown) = b
        BY <1>8
    <3> HIDE DEF b
    <3>3. ~cut /\ ring' = grown
        BY <1>2, <3>1, <3>2
    <3>4. \A i \in 1..b : grown[i].id = counter + 1 - b + i
        BY <1>8, <3>1 DEF b
    <3> QED BY <1>8, <3>1, <3>2, <3>3, <3>4 DEF b
  <2> QED BY <2>1, <2>2
<1>11. RingSound'
  <2>1. DOMAIN ring' = 1..Len(ring')
      BY <1>10, LenProperties
  <2>2. ring' # <<>>
      BY <1>10, EmptySeq
  <2>3. counter' = counter + 1 /\ counter + 1 \in Nat
      BY <1>2, <1>6
  <2> HIDE DEF cut
  <2>4. ring' \in Seq([id : Nat, row : feedRows'])
      BY <1>10 DEF X
  <2>5. Len(ring') <= Retention /\ Len(ring') <= counter'
      BY <1>10, <2>3
  <2>6. ASSUME NEW i \in DOMAIN ring' PROVE ring'[i].id = counter' - Len(ring') + i
    <3>1. ring'[i].id = counter + 1 - Len(ring') + i
      <4>1. i \in 1..Len(ring')
          BY <2>1
      <4>2. \A j \in 1..Len(ring') : ring'[j].id = counter + 1 - Len(ring') + j
          BY <1>10, Zenon
      <4> QED BY <4>1, <4>2, Zenon
    <3>2. counter \in Nat /\ Len(ring') \in Nat /\ i \in Nat
        BY <1>6, <1>10, <2>1
    <3> QED BY <2>3, <3>1, <3>2
  <2>7. counter' \in Nat /\ (ring' = <<>> => counter' = 0)
      BY <2>2, <2>3
  <2> QED BY <2>4, <2>5, <2>6, <2>7 DEF RingSound
<1>12. StreamsSound'
  <2>1. live.open => live.last <= counter'
      BY <1>1, <1>2, <1>6 DEF StreamsSound
  <2>2. counter - n <= counter' - Len(ring')
    <3>1. counter' = counter + 1
        BY <1>2
    <3>2. CASE cut
      <4>1. Len(ring') = n
          BY <1>10, <3>2
      <4> QED BY <1>6, <3>1, <4>1
    <3>3. CASE ~cut
      <4>1. Len(ring') = n + 1
          BY <1>10, <3>3
      <4> QED BY <1>6, <3>1, <4>1
    <3> QED BY <3>2, <3>3
  <2>3. counter' - Len(ring') \in Int /\ counter - n \in Int
      BY <1>2, <1>6, <1>10
  <2> HIDE DEF cut
  <2>4. ReaderSees'
    <3>1. ReaderSees /\ reader.brought \in Nat /\ reader.last \in Nat
        BY <1>1 DEF StreamsSound
    <3>2. ASSUME NEW i \in (reader.brought + 1) .. reader.last
          PROVE  i \in Range(reader.seen) \/ i <= counter' - Len(ring')
      <4>1. i \in Range(reader.seen) \/ i <= counter - n
          BY <3>1 DEF ReaderSees, n
      <4> QED BY <2>2, <2>3, <3>1, <4>1
    <3> QED BY <1>2, <3>1, <3>2 DEF ReaderSees
  <2> QED BY <1>1, <1>2, <2>1, <2>4 DEF StreamsSound
<1> QED BY <1>4, <1>5, <1>11, <1>12 DEF FeedInv

LEMMA HideRowKeeps ==
    ASSUME FeedInv, NEW r \in feedRows, HideRow(r)
    PROVE  FeedInv'
<1>1. /\ RowsSound /\ RingSound /\ StreamsSound /\ ListsSound /\ RequestSound
    BY DEF FeedInv
<1>2. /\ hidden' = hidden \cup {r.id} /\ UNCHANGED <<list, request, cache>>
      /\ feedRows' = feedRows /\ ring' = ring /\ counter' = counter /\ epoch' = epoch
      /\ live' = live /\ reader' = reader
    BY DEF HideRow, uiVars
<1>3. ListsSound' /\ RequestSound'
  <2>1. feedRows \subseteq feedRows' /\ hidden \subseteq hidden'
      BY <1>2
  <2> QED BY <1>1, <1>2, <2>1, ListsStay
<1>4. RowsSound' /\ RingSound' /\ StreamsSound'
    BY <1>1, <1>2 DEF RowsSound, RingSound, StreamsSound, ReaderSees
<1> QED BY <1>3, <1>4 DEF FeedInv

LEMMA RestartKeeps ==
    ASSUME FeedInv, RestartDaemon
    PROVE  FeedInv'
<1>1. /\ RowsSound /\ RingSound /\ StreamsSound /\ ListsSound /\ RequestSound
    BY DEF FeedInv
<1>2. /\ epoch' = epoch + 1 /\ ring' = <<>> /\ counter' = 0
      /\ live' = [open |-> FALSE, last |-> 0]
      /\ reader' = [open |-> FALSE, last |-> reader.last, brought |-> reader.last, seen |-> <<>>]
      /\ feedRows' = feedRows /\ hidden' = hidden /\ UNCHANGED <<list, request, cache>>
    BY DEF RestartDaemon
<1>3. ListsSound' /\ RequestSound'
  <2>1. feedRows \subseteq feedRows' /\ hidden \subseteq hidden'
      BY <1>2
  <2> QED BY <1>1, <1>2, <2>1, ListsStay
<1>4. RowsSound'
    BY <1>1, <1>2 DEF RowsSound
<1>5. RingSound'
  <2>1. ring' \in Seq([id : Nat, row : feedRows']) /\ Len(ring') = 0 /\ DOMAIN ring' = {}
      BY <1>2, EmptySeq
  <2>2. Retention \in Nat
      BY FeedAssumption DEF FeedAssumption
  <2> QED BY <1>2, <2>1, <2>2 DEF RingSound
<1>6. StreamsSound'
  <2>1. reader.last \in Nat
      BY <1>1 DEF StreamsSound
  <2>2. <<>> \in Seq(Nat) /\ Range(<<>>) = {} /\ DOMAIN <<>> = {}
      BY EmptySeq DEF Range
  <2>3. (reader.last + 1) .. reader.last = {}
      BY <2>1
  <2>4. ReaderSees'
      BY <1>2, <2>2, <2>3 DEF ReaderSees
  <2>5. live' \in [open : BOOLEAN, last : Nat] /\ ~live'.open
      BY <1>2
  <2> QED BY <1>2, <2>1, <2>2, <2>4, <2>5 DEF StreamsSound
<1> QED BY <1>3, <1>4, <1>5, <1>6 DEF FeedInv

------------------------------------------------------------------------------
(* The steps of the UI's list. *)

LEMMA LiveOpenings ==
    ASSUME StreamsSound
    PROVE  /\ live \in [open : BOOLEAN, last : Nat]
           /\ live.open => live.last <= counter
           /\ [open |-> FALSE, last |-> 0] \in [open : BOOLEAN, last : Nat]
BY DEF StreamsSound

\* A selection, and a refresh of the same one.
LEMMA SelectionKeeps ==
    ASSUME FeedInv, NEW sel \in Selection, list' = Shown(sel),
           request' = NewRequest(sel, TRUE, NoneYet), UNCHANGED <<serverVars, cache, reader>>,
           live' = live \/ live' = [open |-> FALSE, last |-> 0]
    PROVE  FeedInv'
<1>1. /\ RowsSound /\ RingSound /\ StreamsSound /\ ListsSound /\ RequestSound
    BY DEF FeedInv
<1>2. UNCHANGED serverVars /\ cache' = cache /\ reader' = reader
    OBVIOUS
<1>3. RowsSound' /\ RingSound' /\ feedRows' = feedRows /\ hidden' = hidden
    BY <1>1, <1>2, RingStays
<1>4. StreamsSound'
  <2>1. live' \in [open : BOOLEAN, last : Nat] /\ (live'.open => live'.last <= counter)
      BY <1>1, LiveOpenings
  <2> QED BY <1>1, <1>2, <2>1, StreamsStay
<1>5. EntryOf(Shown(sel), feedRows, hidden) /\ Shown(sel).sel = sel
    BY <1>1, ShownSound
<1>6. ListsSound'
    BY <1>1, <1>2, <1>3, <1>5 DEF ListsSound
<1>7. RequestSound'
  <2>1. RequestOf(NewRequest(sel, TRUE, NoneYet), list', feedRows', hidden')
      BY <1>5, FreshRequest
  <2> QED BY <2>1 DEF RequestSound
<1> QED BY <1>3, <1>4, <1>6, <1>7 DEF FeedInv

LEMMA LoadMoreKeeps ==
    ASSUME FeedInv, LoadMore
    PROVE  FeedInv'
<1>1. /\ RowsSound /\ RingSound /\ StreamsSound /\ ListsSound /\ RequestSound
    BY DEF FeedInv
<1>2. /\ list.cursor # NoneYet /\ request' = NewRequest(list.sel, FALSE, list.cursor)
      /\ list' = [list EXCEPT !.failed = FALSE]
      /\ UNCHANGED serverVars /\ cache' = cache /\ live' = live /\ reader' = reader
    BY DEF LoadMore
<1>3. RowsSound' /\ RingSound' /\ feedRows' = feedRows /\ hidden' = hidden
    BY <1>1, <1>2, RingStays
<1>4. StreamsSound'
    BY <1>1, <1>2, LiveOpenings, StreamsStay
<1>5. /\ EntryOf(list', feedRows, hidden)
      /\ list'.sel = list.sel /\ list'.cursor = list.cursor
  <2>1. EntryOf(list, feedRows, hidden)
      BY <1>1 DEF ListsSound
  <2> QED BY <1>2, <2>1, EntryMarked
<1>6. ListsSound'
    BY <1>1, <1>2, <1>3, <1>5 DEF ListsSound
<1>7. RequestSound'
  <2>1. list.sel \in Selection /\ list.cursor \in feedRows \cup {NoneYet}
      BY <1>1 DEF ListsSound, EntryOf
  <2>2. /\ request' \in [sel : Selection, first : BOOLEAN, cursor : feedRows \cup {NoneYet},
               answer : [items : Seq(feedRows), next : feedRows \cup {NoneYet}] \cup {NoneYet},
               base : SUBSET feedRows, aborted : {FALSE}]
        /\ request'.sel = list.sel /\ request'.first = FALSE
        /\ request'.cursor = list.cursor /\ request'.answer = NoneYet
      BY <1>2, <2>1 DEF NewRequest
  <2>3. RequestOf(request', list', feedRows, hidden)
      BY <1>2, <1>5, <2>2 DEF RequestOf
  <2> QED BY <1>3, <2>3 DEF RequestSound
<1> QED BY <1>3, <1>4, <1>6, <1>7 DEF FeedInv

\* The daemon answers from the rows visible now; the list had no others.
LEMMA ServePageKeeps ==
    ASSUME FeedInv, ServePage
    PROVE  FeedInv'
<1>1. /\ RowsSound /\ RingSound /\ StreamsSound /\ ListsSound /\ RequestSound
    BY DEF FeedInv
<1> DEFINE page == Page(request.sel, request.cursor)
           seen == Visible(request.sel)
<1>2. /\ request # NoneYet
      /\ request' = [request EXCEPT !.answer = page, !.base = seen]
      /\ UNCHANGED serverVars /\ cache' = cache /\ live' = live /\ reader' = reader
      /\ list' = list
    BY DEF ServePage
<1>3. RowsSound' /\ RingSound' /\ feedRows' = feedRows /\ hidden' = hidden
    BY <1>1, <1>2, RingStays
<1>4. StreamsSound'
    BY <1>1, <1>2, LiveOpenings, StreamsStay
<1>5. ListsSound'
    BY <1>1, <1>2, <1>3 DEF ListsSound
<1> DEFINE A == [items : Seq(feedRows), next : feedRows \cup {NoneYet}]
<1>6. RequestOf(request, list, feedRows, hidden)
    BY <1>1, <1>2 DEF RequestSound
<1>7. /\ request \in [sel : Selection, first : BOOLEAN, cursor : feedRows \cup {NoneYet},
                      answer : A \cup {NoneYet}, base : SUBSET feedRows, aborted : {FALSE}]
      /\ request.sel = list.sel
      /\ request.cursor = (IF request.first THEN NoneYet ELSE list.cursor)
      /\ request.first \/ list.cursor # NoneYet
    BY <1>6 DEF RequestOf
<1>8. /\ page \in A /\ RowList(page.items, request.sel)
      /\ \A r \in seen : request.cursor = NoneYet \/ Ahead(request.cursor, r) =>
            \/ r \in Range(page.items)
            \/ page.next # NoneYet /\ Ahead(page.next, r)
  <2>1. request.sel \in Selection /\ request.cursor \in Cursor
      BY <1>7 DEF Cursor
  <2> QED BY <1>1, <2>1, PageSound DEF Cursor
<1>9. /\ seen \subseteq feedRows
      /\ \A r \in list.base : r.id \notin hidden /\ Serves(list.sel, r) => r \in seen
  <2>1. list.base \subseteq feedRows
      BY <1>1 DEF ListsSound, EntryOf
  <2> QED BY <1>7, <2>1 DEF Visible
<1> HIDE DEF page, seen, A
<1>10. /\ request' \in [sel : Selection, first : BOOLEAN, cursor : feedRows \cup {NoneYet},
                        answer : A \cup {NoneYet}, base : SUBSET feedRows, aborted : {FALSE}]
       /\ request'.sel = request.sel /\ request'.first = request.first
       /\ request'.cursor = request.cursor /\ request'.answer = page /\ request'.base = seen
    BY <1>2, <1>7, <1>8, <1>9
<1>11. AnswerOf(page, request', feedRows)
  <2>1. \A r \in seen : request.first \/ Ahead(request.cursor, r) =>
            \/ r \in Range(page.items)
            \/ page.next # NoneYet /\ Ahead(page.next, r)
      BY <1>7, <1>8
  <2> QED BY <1>8, <1>10, <2>1 DEF AnswerOf, RowList, A
<1>12. RequestOf(request', list, feedRows, hidden)
    BY <1>7, <1>9, <1>10, <1>11 DEF RequestOf, A
<1>13. RequestSound'
    BY <1>2, <1>3, <1>12 DEF RequestSound
<1> QED BY <1>3, <1>4, <1>5, <1>13 DEF FeedInv

\* An answer that is not outdated is the one of the request in flight.
LEMMA OutstandingOne ==
    ASSUME LateSound, NEW q \in UnderWay, ~Outdated(q)
    PROVE  request # NoneYet /\ q = request
BY DEF LateSound, UnderWay, Outdated

\* The end of an outdated one changes nothing that is shown.
LEMMA OutdatedKeeps ==
    ASSUME FeedInv, NEW q, Outdated(q), PageArrives(q) \/ PageFails(q)
    PROVE  FeedInv'
<1>1. /\ RowsSound /\ RingSound /\ StreamsSound /\ ListsSound /\ RequestSound
    BY DEF FeedInv
<1>2. /\ list' = list /\ cache' = cache /\ request' \in {NoneYet, request}
      /\ UNCHANGED serverVars /\ live' = live /\ reader' = reader
    BY DEF PageArrives, PageFails, Finished
<1>3. RowsSound' /\ RingSound' /\ feedRows' = feedRows /\ hidden' = hidden
    BY <1>1, <1>2, RingStays
<1>4. StreamsSound'
    BY <1>1, <1>2, LiveOpenings, StreamsStay
<1>5. ListsSound' /\ RequestSound'
    BY <1>1, <1>2, <1>3 DEF ListsSound, RequestSound
<1> QED BY <1>3, <1>4, <1>5 DEF FeedInv

\* A first page replaces the list; a further one, asked for behind the list's cursor,
\* has what the list left out or leads on to it.
LEMMA PageArrivesKeeps ==
    ASSUME FeedInv, LateSound, NEW q \in UnderWay, ~Outdated(q), PageArrives(q)
    PROVE  FeedInv'
<1>1. /\ RowsSound /\ RingSound /\ StreamsSound /\ ListsSound /\ RequestSound
    BY DEF FeedInv
<1> DEFINE answer == request.answer
           items == Applied(list.items, answer, request.first)
           entry == [sel |-> list.sel, items |-> items, cursor |-> answer.next,
                     more |-> answer.next # NoneYet, failed |-> FALSE,
                     base |-> IF request.first THEN request.base ELSE list.base]
<1>2. /\ request # NoneYet /\ answer # NoneYet /\ request' = NoneYet
      /\ list' = entry /\ cache' = [cache EXCEPT ![request.sel] = entry]
      /\ UNCHANGED serverVars /\ live' = live /\ reader' = reader
  <2>1. request # NoneYet /\ q = request
      BY OutstandingOne
  <2> QED BY <2>1 DEF PageArrives, Finished, EntryWith
<1>3. RowsSound' /\ RingSound' /\ feedRows' = feedRows /\ hidden' = hidden
    BY <1>1, <1>2, RingStays
<1>4. StreamsSound'
    BY <1>1, <1>2, LiveOpenings, StreamsStay
<1>5. RequestOf(request, list, feedRows, hidden) /\ EntryOf(list, feedRows, hidden)
    BY <1>1, <1>2 DEF RequestSound, ListsSound
<1>6. /\ request.sel = list.sel /\ list.sel \in Selection /\ request.base \subseteq feedRows
      /\ request.cursor = (IF request.first THEN NoneYet ELSE list.cursor)
      /\ request.first \in BOOLEAN
      /\ RowList(list.items, list.sel) /\ list.base \subseteq feedRows
    BY <1>5 DEF RequestOf, EntryOf, RowList
<1>7. /\ RowList(answer.items, list.sel) /\ answer.next \in feedRows \cup {NoneYet}
      /\ \A r \in request.base : request.first \/ Ahead(request.cursor, r) =>
            \/ r \in Range(answer.items)
            \/ answer.next # NoneYet /\ Ahead(answer.next, r)
      /\ request.first \/ \A r \in list.base :
                              r.id \notin hidden /\ Serves(list.sel, r) => r \in request.base
  <2>1. /\ AnswerOf(answer, request, feedRows)
        /\ request.first \/ \A r \in list.base :
                                r.id \notin hidden /\ Serves(list.sel, r) => r \in request.base
      BY <1>2, <1>5 DEF RequestOf
  <2> HIDE DEF answer
  <2> QED BY <1>6, <2>1 DEF AnswerOf, RowList
<1> HIDE DEF answer
<1>8. /\ RowList(items, list.sel)
      /\ IF request.first THEN items = answer.items
         ELSE Range(items) = Range(list.items) \cup Range(answer.items)
    BY <1>6, <1>7, MergedList DEF Applied
<1> HIDE DEF items
<1>9. ASSUME NEW r \in entry.base, r.id \notin hidden, Serves(list.sel, r)
      PROVE  r \in Range(items) \/ (answer.next # NoneYet /\ Ahead(answer.next, r))
  <2>1. CASE request.first
      BY <1>7, <1>8, <1>9, <2>1
  <2>2. CASE ~request.first
    <3>1. r \in list.base /\ r \in request.base
        BY <1>7, <1>9, <2>2
    <3>2. r \in Range(list.items) \/ Ahead(list.cursor, r)
        BY <1>5, <1>9, <3>1 DEF EntryOf
    <3>3. request.cursor = list.cursor
        BY <1>6, <2>2
    <3> QED BY <1>7, <1>8, <2>2, <3>1, <3>2, <3>3
  <2> QED BY <2>1, <2>2
<1>10. /\ entry \in [sel : Selection, items : Seq(feedRows), cursor : feedRows \cup {NoneYet},
                     more : BOOLEAN, failed : BOOLEAN, base : SUBSET feedRows]
       /\ entry.sel = list.sel /\ entry.items = items /\ entry.cursor = answer.next
       /\ entry.more = (answer.next # NoneYet)
  <2>1. items \in Seq(feedRows)
      BY <1>8 DEF RowList, ListOf
  <2> QED BY <1>6, <1>7, <2>1
<1> HIDE DEF entry
<1>11. EntryOf(entry, feedRows, hidden)
    BY <1>8, <1>9, <1>10 DEF EntryOf, RowList
<1>12. ListsSound'
  <2>1. request.sel \in Selection /\ entry.sel = request.sel
      BY <1>6, <1>10
  <2> QED BY <1>1, <1>2, <1>11, <2>1, ListShown
<1>13. RequestSound'
    BY <1>2 DEF RequestSound
<1> QED BY <1>3, <1>4, <1>12, <1>13 DEF FeedInv

LEMMA PageFailsKeeps ==
    ASSUME FeedInv, LateSound, NEW q \in UnderWay, ~Outdated(q), PageFails(q)
    PROVE  FeedInv'
<1>1. /\ RowsSound /\ RingSound /\ StreamsSound /\ ListsSound /\ RequestSound
    BY DEF FeedInv
<1>2. /\ list' = [list EXCEPT !.failed = TRUE] /\ request' = NoneYet
      /\ UNCHANGED serverVars /\ cache' = cache /\ live' = live /\ reader' = reader
  <2>1. q = request
      BY OutstandingOne
  <2> QED BY <2>1 DEF PageFails, Finished
<1>3. RowsSound' /\ RingSound' /\ feedRows' = feedRows /\ hidden' = hidden
    BY <1>1, <1>2, RingStays
<1>4. StreamsSound'
    BY <1>1, <1>2, LiveOpenings, StreamsStay
<1>5. EntryOf(list', feedRows, hidden)
  <2>1. EntryOf(list, feedRows, hidden)
      BY <1>1 DEF ListsSound
  <2> QED BY <1>2, <2>1, EntryMarked
<1>6. ListsSound'
    BY <1>1, <1>2, <1>3, <1>5 DEF ListsSound
<1>7. RequestSound'
    BY <1>2 DEF RequestSound
<1> QED BY <1>3, <1>4, <1>6, <1>7 DEF FeedInv

------------------------------------------------------------------------------
(* The steps of the streams. *)

LEMMA LiveOpenedKeeps ==
    ASSUME FeedInv, ConnectLive \/ DropLive
    PROVE  FeedInv'
<1>1. /\ RowsSound /\ RingSound /\ StreamsSound /\ ListsSound /\ RequestSound
    BY DEF FeedInv
<1>2. /\ UNCHANGED serverVars /\ UNCHANGED <<list, request, cache>> /\ reader' = reader
      /\ \/ live' = [open |-> TRUE, last |-> counter]
         \/ live' = [open |-> FALSE, last |-> 0]
    BY <1>1, LatestIsCounter DEF ConnectLive, DropLive
<1>3. RowsSound' /\ RingSound' /\ feedRows' = feedRows /\ hidden' = hidden
    BY <1>1, <1>2, RingStays
<1>4. StreamsSound'
  <2>1. counter \in Nat /\ live \in [open : BOOLEAN, last : Nat]
      BY <1>1 DEF RingSound, StreamsSound
  <2>2. CASE live' = [open |-> TRUE, last |-> counter]
    <3>1. live' \in [open : BOOLEAN, last : Nat] /\ live'.last = counter
        BY <2>1, <2>2
    <3>2. live'.open => live'.last <= counter
        BY <2>1, <3>1
    <3> QED BY <1>1, <1>2, <3>1, <3>2, StreamsStay
  <2>3. CASE live' = [open |-> FALSE, last |-> 0]
    <3>1. live' \in [open : BOOLEAN, last : Nat] /\ ~live'.open
        BY <2>1, <2>3
    <3> QED BY <1>1, <1>2, <3>1, StreamsStay
  <2> QED BY <1>2, <2>2, <2>3
<1>5. ListsSound' /\ RequestSound'
    BY <1>1, <1>2, <1>3, ListsStay
<1> QED BY <1>3, <1>4, <1>5 DEF FeedInv

\* An event of the live stream: its row, when it is of the selection, is put in front.
LEMMA LiveEventKeeps ==
    ASSUME FeedInv, LiveEvent
    PROVE  FeedInv'
<1>1. /\ RowsSound /\ RingSound /\ StreamsSound /\ ListsSound /\ RequestSound
    BY DEF FeedInv
<1> DEFINE events == EventsSince(live.last)
           e == Head(events)
           items == PrependLiveItem(list.items, e.row)
           X == [id : Nat, row : feedRows]
<1>2. /\ live.open /\ events # <<>>
      /\ live' = [live EXCEPT !.last = e.id] /\ list' = [list EXCEPT !.items = items]
      /\ cache' = IF items # list.items
                  THEN [cache EXCEPT ![list.sel] = [list EXCEPT !.items = items, !.failed = FALSE]]
                  ELSE cache
      /\ UNCHANGED serverVars /\ request' = request /\ reader' = reader
    BY DEF LiveEvent
<1>3. RowsSound' /\ RingSound' /\ feedRows' = feedRows /\ hidden' = hidden
    BY <1>1, <1>2, RingStays
<1>4. live \in [open : BOOLEAN, last : Nat] /\ EntryOf(list, feedRows, hidden)
    BY <1>1 DEF StreamsSound, ListsSound
<1>5. e \in X /\ e.id <= counter
  <2>1. events \in Seq(X) /\ \A n \in DOMAIN events : events[n].id <= counter
      BY <1>1, <1>4, EventsHandedOut
  <2> HIDE DEF events, X
  <2>2. 1 \in DOMAIN events /\ e = events[1] /\ e \in X
      BY <1>2, <2>1, EmptySeq, LenProperties, HeadTailProperties
  <2> QED BY <2>1, <2>2
<1>6. e.row \in feedRows /\ e.id \in Nat
    BY <1>5
<1> HIDE DEF events, e, X
<1>7. StreamsSound'
  <2>1. live' \in [open : BOOLEAN, last : Nat] /\ (live'.open => live'.last <= counter)
      BY <1>2, <1>4, <1>5, <1>6
  <2> QED BY <1>1, <1>2, <2>1, StreamsStay
<1>8. RowList(items, list.sel) /\ Range(list.items) \subseteq Range(items)
  <2>1. RowList(list.items, list.sel)
      BY <1>4 DEF EntryOf, RowList
  <2>2. CASE Serves(list.sel, e.row) /\ Admits(list.sel, e.row)
    <3>1. items = Prepended(list.items, e.row)
        BY <2>2 DEF PrependLiveItem
    <3>2. Belongs(list.sel, e.row)
        BY <2>2 DEF Belongs
    <3> HIDE DEF items
    <3> QED BY <1>6, <2>1, <3>1, <3>2, PrependedList
  <2>3. CASE ~(Serves(list.sel, e.row) /\ Admits(list.sel, e.row))
    <3>1. items = list.items
        BY <2>3 DEF PrependLiveItem
    <3> HIDE DEF items
    <3> QED BY <2>1, <3>1
  <2> QED BY <2>2, <2>3
<1> HIDE DEF items
<1>9. ASSUME NEW x, \/ x = [list EXCEPT !.items = items]
                    \/ x = [list EXCEPT !.items = items, !.failed = FALSE]
      PROVE  /\ EntryOf(x, feedRows, hidden)
             /\ x.sel = list.sel /\ x.cursor = list.cursor /\ x.base = list.base
  <2>1. items \in Seq(feedRows)
      BY <1>8 DEF RowList, ListOf
  <2>2. /\ x \in [sel : Selection, items : Seq(feedRows), cursor : feedRows \cup {NoneYet},
                  more : BOOLEAN, failed : BOOLEAN, base : SUBSET feedRows]
        /\ x.sel = list.sel /\ x.items = items /\ x.cursor = list.cursor
        /\ x.more = list.more /\ x.base = list.base
      BY <1>4, <1>9, <2>1 DEF EntryOf
  <2> QED BY <1>4, <1>8, <2>2 DEF EntryOf, RowList
<1>10. /\ EntryOf(list', feedRows, hidden)
       /\ list'.sel = list.sel /\ list'.cursor = list.cursor /\ list'.base = list.base
    BY <1>2, <1>9
<1>11. ListsSound'
  <2> DEFINE x == [list EXCEPT !.items = items, !.failed = FALSE]
  <2>1. EntryOf(x, feedRows, hidden) /\ x.sel = list.sel
      BY <1>9
  <2>2. list.sel \in Selection
      BY <1>4 DEF EntryOf
  <2>3. cache' = cache \/ cache' = [cache EXCEPT ![list.sel] = x]
      BY <1>2
  <2> HIDE DEF x
  <2> QED BY <1>1, <1>2, <1>10, <2>1, <2>2, <2>3, ListShown
<1>12. RequestSound'
  <2>1. ASSUME request # NoneYet PROVE RequestOf(request, list', feedRows, hidden)
    <3>1. RequestOf(request, list, feedRows, hidden) /\ list.base \subseteq feedRows
        BY <1>1, <1>4, <2>1 DEF RequestSound, EntryOf
    <3> QED BY <1>10, <3>1, RequestGrows
  <2> QED BY <1>2, <1>3, <2>1 DEF RequestSound
<1> QED BY <1>3, <1>7, <1>11, <1>12 DEF FeedInv

\* The client that resumes connects where it was.
LEMMA ReaderOpenedKeeps ==
    ASSUME FeedInv, ConnectReader \/ DropReader
    PROVE  FeedInv'
<1>1. /\ RowsSound /\ RingSound /\ StreamsSound /\ ListsSound /\ RequestSound
    BY DEF FeedInv
<1>2. /\ UNCHANGED serverVars /\ UNCHANGED <<list, request, cache>> /\ live' = live
      /\ reader' \in {[reader EXCEPT !.open = TRUE], [reader EXCEPT !.open = FALSE]}
    BY DEF ConnectReader, DropReader, uiVars
<1>3. /\ RowsSound' /\ RingSound' /\ feedRows' = feedRows /\ hidden' = hidden
      /\ counter' = counter /\ ring' = ring
    BY <1>1, <1>2, RingStays
<1>4. ListsSound' /\ RequestSound'
    BY <1>1, <1>2, <1>3, ListsStay
<1>5. StreamsSound'
  <2>1. /\ reader' \in [open : BOOLEAN, last : Nat, brought : Nat, seen : Seq(Nat)]
        /\ reader'.last = reader.last /\ reader'.brought = reader.brought
        /\ reader'.seen = reader.seen
      BY <1>1, <1>2 DEF StreamsSound
  <2> QED BY <1>1, <1>2, <1>3, <2>1 DEF StreamsSound, ReaderSees
<1> QED BY <1>3, <1>4, <1>5 DEF FeedInv

\* Up to 200 events at once go on where the client was.
LEMMA EmitKeeps ==
    ASSUME FeedInv, EmitEvents
    PROVE  FeedInv'
<1>1. /\ RowsSound /\ RingSound /\ StreamsSound /\ ListsSound /\ RequestSound
    BY DEF FeedInv
<1> DEFINE events == EventsSince(reader.last)
           n == Len(events)
           ids == [i \in 1..n |-> events[i].id]
           last == ReaderPosition(events)
           R == [open : BOOLEAN, last : Nat, brought : Nat, seen : Seq(Nat)]
           X == [id : Nat, row : feedRows]
<1>2. /\ reader.open /\ events # <<>>
      /\ reader' = [reader EXCEPT !.last = last, !.seen = @ \o ids]
      /\ UNCHANGED serverVars /\ UNCHANGED <<list, request, cache>> /\ live' = live
    BY DEF EmitEvents, uiVars
<1>3. /\ RowsSound' /\ RingSound' /\ feedRows' = feedRows /\ hidden' = hidden
      /\ counter' = counter /\ ring' = ring
    BY <1>1, <1>2, RingStays
<1>4. ListsSound' /\ RequestSound'
    BY <1>1, <1>2, <1>3, ListsStay
<1>5. reader \in R /\ reader.brought <= reader.last /\ ReaderSees
    BY <1>1, <1>2 DEF StreamsSound
<1>6. /\ events \in Seq(X)
      /\ \A i \in DOMAIN events : events[i].id > reader.last /\ events[i].id <= counter
      /\ \A i \in DOMAIN events : events[i].id = Onward(reader.last) + i
    BY <1>1, <1>5, EventsHandedOut
<1>7. last = events[n].id
    BY DEF ReaderPosition
<1> HIDE DEF events, X, last
<1>8. /\ n \in Nat /\ n # 0 /\ DOMAIN events = 1..n
      /\ \A i \in 1..n : events[i].id \in Nat
  <2>1. n \in Nat /\ n # 0 /\ DOMAIN events = 1..n
      BY <1>2, <1>6, LenProperties, EmptySeq
  <2>2. \A i \in 1..n : events[i] \in X
      BY <1>6, <2>1, ElementOfSeq
  <2> QED BY <2>1, <2>2 DEF X
<1> HIDE DEF n
<1>9. last \in Nat /\ last > reader.last
  <2>1. n \in 1..n
      BY <1>8
  <2> QED BY <1>6, <1>7, <1>8, <2>1
<1>10. ids \in Seq(Nat) /\ Len(ids) = n /\ \A i \in 1..n : ids[i] = events[i].id
  <2>1. ids \in [1..n -> Nat]
      BY <1>8
  <2> HIDE DEF ids
  <2>2. ids \in Seq(Nat)
      BY <1>8, <2>1, SeqDef
  <2>3. Len(ids) = n
    <3>1. DOMAIN ids = 1..n /\ DOMAIN ids = 1..Len(ids) /\ Len(ids) \in Nat
        BY <2>1, <2>2, LenProperties
    <3> QED BY <1>8, <3>1
  <2>4. \A i \in 1..n : ids[i] = events[i].id
      BY DEF ids
  <2> QED BY <2>2, <2>3, <2>4
<1> HIDE DEF ids
<1>11. reader.seen \o ids \in Seq(Nat)
    BY <1>5, <1>10, ConcatProperties
<1>12. /\ reader' \in R /\ reader'.last = last /\ reader'.brought = reader.brought
       /\ reader'.seen = reader.seen \o ids
    BY <1>2, <1>5, <1>9, <1>11
<1> DEFINE m == Len(reader.seen)
           seen == reader.seen \o ids
           start == Onward(reader.last)
           base == counter - Len(ring)
<1>13. /\ m \in Nat /\ DOMAIN reader.seen = 1..m /\ DOMAIN seen = 1..(m + n)
       /\ \A i \in 1..m : seen[i] = reader.seen[i]
       /\ \A i \in 1..n : seen[m + i] = ids[i]
       /\ \A i \in 1..(m + n) : i \in 1..m \/ (i - m \in 1..n /\ i = m + (i - m))
  <2> DEFINE old == reader.seen
  <2>1. old \in Seq(Nat) /\ m \in Nat /\ DOMAIN old = 1..m
      BY <1>5, LenProperties
  <2> HIDE DEF old, m
  <2>2. /\ old \o ids \in Seq(Nat) /\ Len(old \o ids) = Len(old) + Len(ids)
        /\ \A i \in 1..(Len(old) + Len(ids)) :
              (old \o ids)[i] = IF i <= Len(old) THEN old[i] ELSE ids[i - Len(old)]
      BY <1>10, <2>1, ConcatProperties
  <2>3. Len(old) = m /\ Len(ids) = n
      BY <1>10 DEF m, old
  <2> DEFINE all == old \o ids
  <2>4. /\ DOMAIN all = 1..(m + n)
        /\ \A i \in 1..(m + n) : all[i] = IF i <= m THEN old[i] ELSE ids[i - m]
      BY <2>2, <2>3, LenProperties
  <2> HIDE DEF all
  <2>5. \A i \in 1..m : i \in 1..(m + n) /\ i <= m
      BY <1>8, <2>1
  <2>6. \A i \in 1..n : m + i \in 1..(m + n) /\ ~(m + i <= m) /\ (m + i) - m = i
      BY <1>8, <2>1
  <2>7. \A i \in 1..(m + n) : i \in 1..m \/ (i - m \in 1..n /\ i = m + (i - m))
      BY <1>8, <2>1
  <2>8. all = seen
      BY DEF all, old
  <2>9. \A i \in 1..m : all[i] = old[i]
      BY <2>4, <2>5
  <2>10. \A i \in 1..n : all[m + i] = ids[i]
      BY <2>4, <2>6
  <2> QED BY <2>1, <2>4, <2>7, <2>8, <2>9, <2>10 DEF old
<1>14. /\ start \in Int /\ start >= reader.last /\ base \in Int
       /\ start = reader.last \/ start = base
       /\ \A i \in 1..n : ids[i] = start + i
       /\ last = start + n
       /\ reader.last \in Nat /\ reader.brought \in Nat
  <2>1. base \in Int
      BY <1>1, LenProperties DEF RingSound
  <2>2. reader.last \in Nat /\ reader.brought \in Nat
      BY <1>5
  <2>3. start = IF reader.last <= base THEN base ELSE reader.last
      BY DEF Onward
  <2>4. \A i \in 1..n : ids[i] = start + i
      BY <1>6, <1>8, <1>10
  <2>5. n \in 1..n
      BY <1>8
  <2> HIDE DEF base, start
  <2>6. last = start + n
      BY <1>7, <1>10, <2>4, <2>5
  <2> QED BY <2>1, <2>2, <2>3, <2>4, <2>6
<1>15. /\ \A i, j \in 1..m : i < j => reader.seen[i] < reader.seen[j]
       /\ \A i \in 1..m : reader.seen[i] \in (reader.brought + 1) .. reader.last
       /\ \A i \in (reader.brought + 1) .. reader.last : i \in Range(reader.seen) \/ i <= base
  <2>1. DOMAIN reader.seen = 1..m
      BY <1>13
  <2>2. \A i \in 1..m : reader.seen[i] \in Range(reader.seen)
      BY <2>1 DEF Range
  <2> QED BY <1>5, <2>1, <2>2 DEF ReaderSees
<1> HIDE DEF seen, m, start, base
<1>16. /\ \A i \in 1..m : seen[i] \in Int /\ seen[i] >= reader.brought + 1 /\ seen[i] <= reader.last
       /\ \A i, j \in 1..m : i < j => seen[i] < seen[j]
       /\ \A i \in 1..n : seen[m + i] = start + i
    BY <1>13, <1>14, <1>15
<1>17. ASSUME NEW i \in DOMAIN seen, NEW j \in DOMAIN seen, i < j PROVE seen[i] < seen[j]
  <2>1. i \in 1..(m + n) /\ j \in 1..(m + n) /\ i \in Int /\ j \in Int /\ m \in Int
      BY <1>8, <1>13
  <2>2. CASE j \in 1..m
    <3>1. i \in 1..m
        BY <1>13, <1>17, <2>1, <2>2
    <3> QED BY <1>16, <1>17, <2>2, <3>1
  <2>3. CASE i \in 1..m /\ j - m \in 1..n
    <3>1. seen[j] = start + (j - m) /\ j - m >= 1
        BY <1>13, <1>16, <2>1, <2>3
    <3>2. seen[i] \in Int /\ seen[i] <= reader.last
        BY <1>16, <2>3
    <3> QED BY <1>14, <2>1, <3>1, <3>2
  <2>4. CASE i - m \in 1..n /\ j - m \in 1..n
    <3>1. seen[j] = start + (j - m) /\ seen[i] = start + (i - m)
        BY <1>13, <1>16, <2>1, <2>4
    <3> QED BY <1>14, <1>17, <2>1, <3>1
  <2> QED BY <1>13, <2>1, <2>2, <2>3, <2>4
<1>18. ASSUME NEW i \in DOMAIN seen PROVE seen[i] \in (reader.brought + 1) .. last
  <2>1. i \in 1..(m + n) /\ i \in Int /\ m \in Int
      BY <1>8, <1>13
  <2>2. CASE i \in 1..m
    <3>1. seen[i] \in Int /\ seen[i] >= reader.brought + 1 /\ seen[i] <= reader.last
        BY <1>16, <2>2
    <3> QED BY <1>9, <1>14, <3>1
  <2>3. CASE i - m \in 1..n
    <3>1. seen[i] = start + (i - m) /\ i - m >= 1 /\ i - m <= n
        BY <1>13, <1>16, <2>1, <2>3
    <3> QED BY <1>5, <1>8, <1>14, <2>1, <3>1
  <2> QED BY <1>13, <2>1, <2>2, <2>3
<1>19. ASSUME NEW x \in (reader.brought + 1) .. last PROVE x \in Range(seen) \/ x <= base
  <2>1. CASE x <= reader.last
    <3>1. x \in (reader.brought + 1) .. reader.last
        BY <1>14, <2>1
    <3>2. x \in Range(reader.seen) \/ x <= base
        BY <1>15, <3>1
    <3>3. Range(reader.seen) \subseteq Range(seen)
      <4>1. \A i \in 1..m : i \in DOMAIN seen
          BY <1>8, <1>13
      <4> QED BY <1>13, <4>1 DEF Range
    <3> QED BY <3>2, <3>3
  <2>2. CASE ~(x <= reader.last) /\ x <= start
      BY <1>14, <2>2
  <2>3. CASE x > start
    <3>1. x - start \in 1..n /\ start + (x - start) = x
        BY <1>8, <1>9, <1>14, <2>3
    <3>2. m + (x - start) \in DOMAIN seen
        BY <1>8, <1>13, <3>1
    <3>3. seen[m + (x - start)] = x
        BY <1>16, <3>1
    <3> QED BY <3>2, <3>3 DEF Range
  <2> QED BY <1>14, <2>1, <2>2, <2>3
<1>20. StreamsSound'
  <2>1. ReaderSees'
    <3>1. Range(seen) \subseteq (reader.brought + 1) .. last
        BY <1>18 DEF Range
    <3>2. reader'.seen = seen /\ counter' - Len(ring') = base
        BY <1>3, <1>12 DEF seen, base
    <3> QED BY <1>12, <1>17, <1>19, <3>1, <3>2 DEF ReaderSees
  <2>2. reader'.brought <= reader'.last
      BY <1>5, <1>9, <1>12, <1>14
  <2> QED BY <1>1, <1>2, <1>3, <1>12, <2>1, <2>2 DEF StreamsSound
<1> QED BY <1>3, <1>4, <1>20 DEF FeedInv

------------------------------------------------------------------------------
LEMMA FeedStep ==
    ASSUME FeedInv, LateSound, [FeedNext]_feedVars
    PROVE  FeedInv'
<1>1. ASSUME NEW id \in 1..MaxStored, NEW at \in 1..LastAt, NEW p \in Project,
             Announce(id, at, p)
      PROVE  FeedInv'
    BY <1>1, AnnounceKeeps
<1>2. ASSUME NEW r \in feedRows, HideRow(r) PROVE FeedInv'
    BY <1>2, HideRowKeeps
<1>3. CASE RestartDaemon
    BY <1>3, RestartKeeps
<1>4. ASSUME NEW s \in Selection, SelectProject(s) PROVE FeedInv'
  <2>1. /\ list' = Shown(s) /\ request' = NewRequest(s, TRUE, NoneYet)
        /\ live' = [open |-> FALSE, last |-> 0] /\ UNCHANGED <<serverVars, cache, reader>>
      BY <1>4 DEF SelectProject, Shown
  <2> QED BY <2>1, SelectionKeeps
<1>5. CASE Refresh
  <2>1. /\ list' = Shown(list.sel) /\ request' = NewRequest(list.sel, TRUE, NoneYet)
        /\ live' = live /\ UNCHANGED <<serverVars, cache, reader>>
      BY <1>5 DEF Refresh, Shown
  <2>2. list.sel \in Selection
      BY DEF FeedInv, ListsSound, EntryOf
  <2> QED BY <2>1, <2>2, SelectionKeeps
<1>6. CASE LoadMore \/ ServePage
    BY <1>6, LoadMoreKeeps, ServePageKeeps
<1>10. ASSUME NEW q \in UnderWay, PageArrives(q) \/ PageFails(q) PROVE FeedInv'
    BY <1>10, OutdatedKeeps, PageArrivesKeeps, PageFailsKeeps
<1>7. CASE ConnectLive \/ DropLive \/ LiveEvent
    BY <1>7, LiveOpenedKeeps, LiveEventKeeps
<1>8. CASE ReaderStep
    BY <1>8, ReaderOpenedKeeps, EmitKeeps DEF ReaderStep
<1>9. CASE UNCHANGED feedVars
  <2>1. /\ UNCHANGED <<list, request, cache>> /\ feedRows' = feedRows /\ hidden' = hidden
        /\ ring' = ring /\ counter' = counter
        /\ live' = live /\ reader' = reader
      BY <1>9 DEF feedVars
  <2>2. /\ RowsSound /\ RingSound /\ StreamsSound /\ ListsSound /\ RequestSound
      BY DEF FeedInv
  <2>3. RowsSound' /\ RingSound' /\ StreamsSound'
      BY <2>1, <2>2 DEF RowsSound, RingSound, StreamsSound, ReaderSees
  <2>4. ListsSound' /\ RequestSound'
      BY <2>1, <2>2, ListsStay
  <2> QED BY <2>3, <2>4 DEF FeedInv
<1> QED BY <1>1, <1>2, <1>3, <1>4, <1>5, <1>6, <1>7, <1>8, <1>9, <1>10
        DEF FeedNext, DaemonStep, UiStep

LEMMA LateStep ==
    ASSUME FeedInv, LateSound, [FeedNext]_feedVars
    PROVE  LateSound'
<1>1. ASSUME AbortRequest PROVE LateSound'
  <2>1. CASE late' = late
      BY <2>1 DEF LateSound
  <2>2. CASE request # NoneYet /\ late' = late \cup {[request EXCEPT !.aborted = TRUE]}
    <3>1. [request EXCEPT !.aborted = TRUE].aborted
        BY <2>2 DEF FeedInv, RequestSound, RequestOf
    <3> QED BY <2>2, <3>1 DEF LateSound
  <2> QED BY <1>1, <2>1, <2>2 DEF AbortRequest
<1>2. ASSUME late' \subseteq late PROVE LateSound'
    BY <1>2 DEF LateSound
<1>3. CASE DaemonStep
    BY <1>2, <1>3 DEF DaemonStep, Announce, HideRow, RestartDaemon, uiVars
<1>4. CASE UiStep
    BY <1>1, <1>2, <1>4 DEF UiStep, SelectProject, Refresh, LoadMore, ServePage, PageArrives,
       PageFails, Finished, ConnectLive, DropLive, LiveEvent
<1>5. CASE ReaderStep
    BY <1>2, <1>5 DEF ReaderStep, ConnectReader, DropReader, EmitEvents, uiVars
<1>6. CASE UNCHANGED feedVars
    BY <1>2, <1>6 DEF feedVars
<1> QED BY <1>3, <1>4, <1>5, <1>6 DEF FeedNext

\* Both clients of the feed see what was recorded, for any projects, page size, ring
\* and number of restarts: a list that says there is no more has every row that was
\* there when its first page was read and is not archived, whatever pages were late,
\* aborted or cached and whatever was put in front; and a client that resumes by id
\* gets the events of its daemon in order, each once, and all of them but what the
\* ring dropped before it came and, after a restart, what is numbered up to the
\* position it brought.
THEOREM FeedSeesAll == FeedSpec => []FeedExact
<1>1. FeedInit => FeedInv /\ LateSound
    BY FeedInvInit
<1>2. (FeedInv /\ LateSound) /\ [FeedNext]_feedVars => (FeedInv /\ LateSound)'
    BY FeedStep, LateStep
<1>3. FeedInv /\ LateSound => FeedExact
    BY FeedInvExact
<1> QED BY <1>1, <1>2, <1>3, PTL DEF FeedSpec
==============================================================================
