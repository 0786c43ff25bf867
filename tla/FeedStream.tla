---------------------------- MODULE FeedStream ----------------------------
(* The feed and the event stream: the daemon's keyset pages (feed), its ring
   of stream events (appendStreamEvent, /v1/stream) and the client of both,
   the web UI: a list that pages, refreshes in the background, caches one
   entry per selection and merges live items (useFeedPagination, useSSE).
   A second kind of stream client resumes from the last id it saw, and sends
   that id to a restarted daemon too, whose ids begin at 1 again.  Whose rows
   a selection gets is the daemon's relation (Expansion), whose rows the UI
   takes from a list or an event its own (Related); titles, tags and health
   events are left out, except that a skipped event still moves the position. *)
EXTENDS Integers, SortedLists, Functions

CONSTANTS
    Project,      \* projects of observations and of selections
    Expansion,       \* project -> projects the daemon selects with it
    Related,      \* project -> projects the UI matches with it
    AllProjects,  \* the selection "__all__"
    NoneYet,      \* an absent cursor, request or cache entry
    LastAt,       \* bound: creation times are 1 .. LastAt
    MaxStored,    \* bound: observations ever stored
    PageSize,     \* the page limit
    Batch200,     \* stream events handed out per poll
    Retention,    \* stream events kept in the ring
    MaxLate,      \* bound: answers of aborted requests under way
    MaxRestarts   \* bound: restarts of the daemon, for each client

ASSUME FeedAssumption ==
    /\ AllProjects \notin Project
    /\ NoneYet \notin [id : Nat, at : Nat, project : Project]
    /\ Expansion \in [Project -> SUBSET Project] /\ Related \in [Project -> SUBSET Project]
    /\ MaxLate \in Nat
    /\ {LastAt, MaxStored, PageSize, Batch200, Retention} \subseteq Nat \ {0}
    /\ MaxRestarts \in [{"ui", "reader"} -> Nat]

VARIABLES
    feedRows,      \* mem_observations: records [id, at, project]
    hidden,    \* ids of the rows archived since
    ring,      \* the stream events kept: records [id, row]
    counter,   \* streamEventCounter
    watched,   \* which client this behaviour follows: "ui" or "reader"
    epoch,     \* how often the daemon has been restarted
    list,      \* the UI's [sel, items, cursor, more, failed, base]
    request,   \* the page request in flight, the one of controllerRef
    late,      \* aborted requests whose answer is still handed on
    cache,     \* feedCache: an entry per selection
    live,      \* the UI's stream [open, last]
    reader     \* the resuming client: open, the last id it saw, the id it brought
               \* to this daemon, and the ids it has seen of this daemon

serverVars == <<watched, feedRows, hidden, ring, counter, epoch>>
uiVars == <<list, request, late, cache, live>>
feedVars == <<watched, feedRows, hidden, ring, counter, epoch, list, request, late, cache, live, reader>>

Selection == Project \cup {AllProjects}

\* expandProjectSelection of the daemon.
Serves(sel, row) == sel = AllProjects \/ row.project \in Expansion[sel]

\* projectMatchesSelection of the UI: a path matches what lies below and above it.
Admits(sel, row) == sel = AllProjects \/ row.project \in Related[sel]

Belongs(sel, row) == Serves(sel, row) \/ Admits(sel, row)

\* ORDER BY created_at DESC, id DESC
Ahead(a, b) == a.at > b.at \/ (a.at = b.at /\ a.id > b.id)

Visible(sel) == {r \in feedRows : r.id \notin hidden /\ Serves(sel, r)}

\* feed: one page after the cursor, and a next cursor when a row is left.
Page(sel, cursor) ==
    LET after == {r \in Visible(sel) : cursor = NoneYet \/ Ahead(cursor, r)}
        all == Sorted(after, {p \in after \X after : Ahead(p[1], p[2])})
        n == IF Len(all) > PageSize THEN PageSize ELSE Len(all)
    IN  [items |-> SubSeq(all, 1, n),
         next |-> IF Len(all) > PageSize THEN all[n] ELSE NoneYet]

\* mergeFeedItems: the first place of each id is kept.
MergeFeedItems(current, incoming) ==
    current \o Sublist(incoming, Range(incoming) \ Range(current))

Prepended(current, row) ==
    <<row>> \o Sublist(current, Range(current) \ {row})

EmptyList(sel) ==
    [sel |-> sel, items |-> <<>>, cursor |-> NoneYet, more |-> TRUE,
     failed |-> FALSE, base |-> {}]

NewRequest(sel, first, cursor) ==
    [sel |-> sel, first |-> first, cursor |-> cursor, answer |-> NoneYet, base |-> {},
     aborted |-> FALSE]

\* getStreamEventsSince
EventsSince(last) ==
    LET new == Sublist(ring, {e \in Range(ring) : e.id > last})
    IN  SubSeq(new, 1, IF Len(new) > Batch200 THEN Batch200 ELSE Len(new))

\* getLatestStreamEventId
LatestStreamEventId == IF ring = <<>> THEN counter ELSE ring[Len(ring)].id

\* Every entry is a list of rows that were stored, each once; positions in the
\* stream never pass the counter of the daemon they belong to.
FeedTypeOK ==
    /\ \A r \in feedRows : r.at \in 1 .. LastAt /\ r.project \in Project
    /\ Cardinality({r.id : r \in feedRows}) = Cardinality(feedRows)
    /\ list.sel \in Selection /\ Range(list.items) \subseteq feedRows
    /\ Cardinality(Range(list.items)) = Len(list.items)
    /\ \A q \in late : q.aborted
    /\ live.open => live.last <= counter
    /\ Len(ring) <= Retention

FeedInit ==
    /\ watched \in {"ui", "reader"}
    /\ feedRows = {} /\ hidden = {} /\ ring = <<>> /\ counter = 0 /\ epoch = 0
    /\ list = EmptyList(AllProjects)
    /\ request = IF watched = "ui" THEN NewRequest(AllProjects, TRUE, NoneYet) ELSE NoneYet
    /\ late = {}
    /\ cache = [s \in Selection |-> NoneYet]
    /\ live = [open |-> FALSE, last |-> 0]
    /\ reader = [open |-> FALSE, last |-> 0, brought |-> 0, seen |-> <<>>]

------------------------------------------------------------------------------
(* The daemon. *)

\* recordEvent's last steps: the row is stored, the event appended, the ring cut.
Announce(id, at, project) ==
    LET row == [id |-> id, at |-> at, project |-> project]
        grown == Append(ring, [id |-> counter + 1, row |-> row])
        cut == Len(grown) > Retention
    IN  /\ Cardinality(feedRows) < MaxStored
        /\ \A r \in feedRows : r.id # id
        /\ feedRows' = feedRows \cup {row}
        /\ counter' = counter + 1
        /\ ring' = IF cut THEN SubSeq(grown, Len(grown) - Retention + 1, Len(grown)) ELSE grown
        /\ UNCHANGED <<watched, hidden, epoch, uiVars, reader>>

\* The forget policy archives a row: it leaves every page read from now on.
HideRow(r) ==
    /\ r \in feedRows /\ r.id \notin hidden
    /\ hidden' = hidden \cup {r.id}
    /\ UNCHANGED <<watched, feedRows, ring, counter, epoch, uiVars, reader>>

\* A restart: ring and counter start over and every stream is cut.  The client
\* that resumes keeps the last id it saw and brings it to the new daemon.
RestartDaemon ==
    /\ epoch < MaxRestarts[watched]
    /\ epoch' = epoch + 1 /\ ring' = <<>> /\ counter' = 0
    /\ live' = [open |-> FALSE, last |-> 0]
    /\ reader' = [open |-> FALSE, last |-> reader.last, brought |-> reader.last, seen |-> <<>>]
    /\ UNCHANGED <<watched, feedRows, hidden, list, request, late, cache>>

------------------------------------------------------------------------------
(* The UI's list. *)

\* buildSeedCacheEntry: the entry of "all" restricted to the project.
Seeded(sel) ==
    LET all == cache[AllProjects].items
        items == Sublist(all, {r \in Range(all) : Admits(sel, r)})
    IN  [EmptyList(sel) EXCEPT !.items = items, !.more = FALSE]

HasSeed(sel) ==
    /\ sel # AllProjects /\ cache[AllProjects] # NoneYet
    /\ \E r \in Range(cache[AllProjects].items) : Admits(sel, r)

\* controllerRef.abort(): an unanswered request ends in an AbortError that says
\* nothing; an answer that has come already is still handed to fetchPage.
AbortRequest ==
    /\ late' = IF request = NoneYet \/ request.answer = NoneYet THEN late
               ELSE late \cup {[request EXCEPT !.aborted = TRUE]}
    /\ Cardinality(late') <= MaxLate

\* The effect of the selection: any request is aborted, the cached or seeded
\* entry is shown, and a first page is asked for.
SelectProject(sel) ==
    /\ list' = IF cache[sel] # NoneYet THEN [cache[sel] EXCEPT !.failed = FALSE]
               ELSE IF HasSeed(sel) THEN Seeded(sel) ELSE EmptyList(sel)
    /\ AbortRequest
    /\ request' = NewRequest(sel, TRUE, NoneYet)
    /\ live' = [open |-> FALSE, last |-> 0]
    /\ UNCHANGED <<serverVars, cache, reader>>

\* refresh: the effect runs again for the same selection (a cached entry is
\* then there unless no page has ever arrived).
Refresh ==
    /\ list' = IF cache[list.sel] # NoneYet THEN [cache[list.sel] EXCEPT !.failed = FALSE]
               ELSE IF HasSeed(list.sel) THEN Seeded(list.sel) ELSE EmptyList(list.sel)
    /\ AbortRequest
    /\ request' = NewRequest(list.sel, TRUE, NoneYet)
    /\ UNCHANGED <<serverVars, cache, live, reader>>

LoadMore ==
    /\ list.more /\ list.cursor # NoneYet /\ request = NoneYet
    /\ request' = NewRequest(list.sel, FALSE, list.cursor)
    /\ list' = [list EXCEPT !.failed = FALSE]
    /\ UNCHANGED <<serverVars, late, cache, live, reader>>

UnderWay == late \cup ({request} \ {NoneYet})

\* Mutant: only the error path asks whether the request was aborted.
NeverOutdated(q) == FALSE

\* signal.aborted || requestId !== requestIdRef.current: a request is superseded
\* only after it was aborted.
Outdated(q) == q.aborted

\* The daemon reads the page; the answer is under way.
ServePage ==
    /\ request # NoneYet /\ request.answer = NoneYet
    /\ request' = [request EXCEPT !.answer = Page(request.sel, request.cursor), !.base = Visible(request.sel)]
    /\ UNCHANGED <<serverVars, list, late, cache, live, reader>>

\* append: further pages are merged behind the list, a first page replaces it.
Applied(items, answer, first) ==
    IF first THEN answer.items ELSE MergeFeedItems(items, answer.items)

\* The finally block of fetchPage.
Finished(q) ==
    /\ request' = IF q = request THEN NoneYet ELSE request
    /\ late' = late \ {q}

\* What the list becomes with a page.
EntryWith(q) ==
    [sel |-> list.sel, items |-> Applied(list.items, q.answer, q.first),
     cursor |-> q.answer.next, more |-> q.answer.next # NoneYet, failed |-> FALSE,
     base |-> IF q.first THEN q.base ELSE list.base]

\* fetchPage goes on after its await: an outdated answer is dropped.
PageArrives(q) ==
    /\ q \in UnderWay /\ q.answer # NoneYet
    /\ IF Outdated(q) THEN UNCHANGED <<list, cache>>
       ELSE list' = EntryWith(q) /\ cache' = [cache EXCEPT ![q.sel] = EntryWith(q)]
    /\ Finished(q)
    /\ UNCHANGED <<serverVars, live, reader>>

\* The request fails, or its abort takes effect: AbortError says nothing.
PageFails(q) ==
    /\ q \in UnderWay
    /\ list' = IF Outdated(q) THEN list ELSE [list EXCEPT !.failed = TRUE]
    /\ Finished(q)
    /\ UNCHANGED <<serverVars, cache, live, reader>>

------------------------------------------------------------------------------
(* Streams. *)

\* useSSE's connect: no position is sent and replay is off, so it starts at
\* the latest event.
ConnectLive ==
    /\ ~live.open
    /\ live' = [open |-> TRUE, last |-> LatestStreamEventId]
    /\ UNCHANGED <<serverVars, list, request, late, cache, reader>>

\* The position is the daemon's and goes with the stream.
DropLive ==
    /\ live.open
    /\ live' = [open |-> FALSE, last |-> 0]
    /\ UNCHANGED <<serverVars, list, request, late, cache, reader>>

\* prependLiveItem, of an event that passed the stream's project filter.
PrependLiveItem(items, row) ==
    IF Serves(list.sel, row) /\ Admits(list.sel, row) THEN Prepended(items, row) ELSE items

\* One event of emitEvents: the position moves even when the event is skipped
\* by the stream's project filter.
LiveEvent ==
    /\ live.open /\ EventsSince(live.last) # <<>>
    /\ LET e == Head(EventsSince(live.last))
           items == PrependLiveItem(list.items, e.row)
       IN  /\ live' = [live EXCEPT !.last = e.id]
           /\ list' = [list EXCEPT !.items = items]
           /\ cache' = IF items # list.items
                       THEN [cache EXCEPT ![list.sel] = [list EXCEPT !.items = items, !.failed = FALSE]]
                       ELSE cache
    /\ UNCHANGED <<serverVars, request, late, reader>>

\* A client that sends since= or Last-Event-ID; zero asks for the whole ring.
ConnectReader ==
    /\ ~reader.open
    /\ reader' = [reader EXCEPT !.open = TRUE]
    /\ UNCHANGED <<serverVars, uiVars>>

DropReader ==
    /\ reader.open
    /\ reader' = [reader EXCEPT !.open = FALSE]
    /\ UNCHANGED <<serverVars, uiVars>>

ReaderPosition(events) == events[Len(events)].id

\* emitEvents of the poll timer: up to 200 events in one go.
EmitEvents ==
    /\ reader.open /\ EventsSince(reader.last) # <<>>
    /\ LET events == EventsSince(reader.last)
       IN  reader' = [reader EXCEPT !.last = ReaderPosition(events),
                        !.seen = @ \o [i \in 1 .. Len(events) |-> events[i].id]]
    /\ UNCHANGED <<serverVars, uiVars>>

DaemonStep ==
    \/ \E id \in 1 .. MaxStored, at \in 1 .. LastAt, p \in Project : Announce(id, at, p)
    \/ \E r \in feedRows : HideRow(r)
    \/ RestartDaemon

UiStep ==
    \/ \E s \in Selection \ {list.sel} : SelectProject(s)
    \/ Refresh
    \/ LoadMore \/ ServePage
    \/ \E q \in UnderWay : PageArrives(q) \/ PageFails(q)
    \/ ConnectLive \/ DropLive \/ LiveEvent

ReaderStep == ConnectReader \/ DropReader \/ EmitEvents

FeedNext ==
    \/ DaemonStep
    \/ watched = "ui" /\ UiStep
    \/ watched = "reader" /\ ReaderStep

FeedSpec == FeedInit /\ [][FeedNext]_feedVars

------------------------------------------------------------------------------
(* A list that says there is nothing more, with no request open and no error
   shown, holds every row of its selection that was there when its first page
   was read and is still visible: rows stored, archived or announced between
   two pages never make the cursor jump over one. *)
PagedComplete ==
    (~list.more /\ request = NoneYet /\ ~list.failed)
        => (list.base \cap Visible(list.sel)) \subseteq Range(list.items)

(* Whatever answers are late, aborted or cached, the list only shows rows the
   daemon or the UI's own match gives the project selected now. *)
ShownBelong == \A r \in Range(list.items) : Belongs(list.sel, r)

(* A client that resumes by id sees the events of the daemon it is connected to
   each once and in order, over any number of reconnections, and what it has
   passed over the ring had dropped by then.  Its position is only compared:
   of a restarted daemon, whose ids begin at 1 again, it sees nothing up to the
   id it brought from the one before (server.ts:991, getStreamEventsSince), so
   those events never reach it. *)
ReaderSees ==
    /\ \A i, j \in DOMAIN reader.seen : i < j => reader.seen[i] < reader.seen[j]
    /\ Range(reader.seen) \subseteq (reader.brought + 1) .. reader.last
    /\ \A n \in (reader.brought + 1) .. reader.last :
           n \in Range(reader.seen) \/ n <= counter - Len(ring)

\* What the clients of the feed see: the list of the UI has rows of the selected
\* project only, each once, and all of them when it says that there are no more;
\* the stream that is resumed by id passes over what the ring dropped and over
\* what a restarted daemon numbers up to the position brought along.
FeedExact == FeedTypeOK /\ ShownBelong /\ PagedComplete /\ ReaderSees
==============================================================================
