------------------------------- MODULE Sessions -------------------------------
(***************************************************************************)
(* Sessions (core/session-manager.ts) and the scheduler that summarises    *)
(* open ones (core/partial-finalize-scheduler.ts).  A tick of the          *)
(* scheduler takes its candidates at once and then awaits between them, so *)
(* that events, finalize calls and archiving come in between.  Events      *)
(* carry the time of their source: an ingested one may be older than a     *)
(* summary that was written before it arrived.                             *)
(***************************************************************************)
EXTENDS SortedLists, Functions

CONSTANTS Session,      \* session ids
          MaxEntries,   \* bound on the rows of the store
          MaxClock,     \* bound on the clock
          EventKind,    \* session -> the kinds of events its clients send
          MaxArchived,  \* bound on archived rows
          SummaryRows,  \* rows a handoff reviews at most
          MinSteps,     \* rows that make a session a skill
          TickLimit     \* sessions a tick takes at most

Kinds == {"prompt", "response", "work", "done", "final", "partial", "skill"}

ASSUME SessionAssumption ==
    /\ EventKind \in [Session -> SUBSET {"prompt", "response", "work", "done"}] /\ MaxArchived \in Nat /\ MaxEntries \in Nat
    /\ MaxClock \in Nat \ {0} /\ SummaryRows \in Nat \ {0} /\ MinSteps \in Nat \ {0} /\ TickLimit \in Nat \ {0}

VARIABLES clock,     \* milliseconds, as far as rows tell them apart
          entries,   \* observations in order of arrival
          known,     \* sessions with a row in mem_sessions
          closed,    \* the ones with ended_at
          tick       \* sessions left of the tick under way, or <<>>

sessionVars == <<clock, entries, known, closed, tick>>

SessionTypeOK ==
    /\ clock \in 1..MaxClock
    /\ known \subseteq Session /\ IsFiniteSet(known) /\ closed \subseteq known
    /\ entries \in Seq([session : known, kind : Kinds, at : 1..clock, archived : BOOLEAN,
                        text : Seq(1..Len(entries))])
    /\ \A i \in DOMAIN entries : Range(entries[i].text) \subseteq 1..(i - 1)
    /\ tick \in Seq(known)

SessionInit ==
    /\ clock = 1 /\ entries = <<>> /\ known = {} /\ closed = {} /\ tick = <<>>

------------------------------------------------------------------------------
\* The rows of a session that were not archived, and its summaries.
LiveRows(s) == {i \in DOMAIN entries : entries[i].session = s /\ ~entries[i].archived}

Summaries(s) == {i \in LiveRows(s) : entries[i].kind \in {"final", "partial"}}

\* Rows in order of creation; ties go by arrival.
ByTime(ids) ==
    Sorted(ids, {p \in ids \X ids : \/ entries[p[1]].at < entries[p[2]].at
                                    \/ entries[p[1]].at = entries[p[2]].at /\ p[1] < p[2]})

\* loadSessionSummaryRows: the oldest rows up to a limit.
SummaryRowsOf(s) ==
    LET all == ByTime(LiveRows(s))
    IN  SubSeq(all, 1, IF Len(all) < SummaryRows THEN Len(all) ELSE SummaryRows)

\* What buildStructuredHandoff knows before its first row; 0 stands for none.
NoExchange == [prompt |-> 0, user |-> 0, assistant |-> 0]

\* Mutant: an answer is paired with the prompt that follows it.
ExchangeOfLastPrompt(before, i) ==
    CASE entries[i].kind = "prompt"   -> [before EXCEPT !.prompt = i, !.user = i]
      [] entries[i].kind = "response" -> [before EXCEPT !.assistant = i]
      [] OTHER                        -> before

\* One round of its loop: an answer goes with the prompt that is current then.
ExchangeWith(before, i) ==
    CASE entries[i].kind = "prompt"   -> [before EXCEPT !.prompt = i]
      [] entries[i].kind = "response" ->
             [prompt |-> before.prompt, user |-> before.prompt, assistant |-> i]
      [] OTHER                        -> before

\* buildStructuredHandoff, its latest exchange.
LatestExchange(ids) ==
    LET upTo[n \in 0..Len(ids)] ==
            IF n = 0 THEN NoExchange ELSE ExchangeWith(upTo[n - 1], ids[n])
    IN  upTo[Len(ids)]

\* detectSkillFromSession: enough rows that are work, the last one saying done.
IsSkill(s) ==
    LET ids == ByTime({i \in DOMAIN entries :
                           /\ entries[i].session = s
                           /\ entries[i].kind \notin {"final", "partial", "skill"}})
    IN  Len(ids) >= MinSteps /\ entries[ids[Len(ids)]].kind = "done"

\* A row; the text of a summary tells which rows it reviewed.
Entry(s, kind, at) ==
    [session |-> s, kind |-> kind, at |-> at, archived |-> FALSE,
     text |-> IF kind \in {"final", "partial"} THEN SummaryRowsOf(s) ELSE <<>>]

\* The content hash of recordEvent: a summary whose text is in the store.
Repeated(e) ==
    /\ e.kind \in {"final", "partial"}
    /\ \E i \in DOMAIN entries : /\ entries[i].session = e.session /\ ~entries[i].archived
                                 /\ entries[i].kind \in {"final", "partial"}
                                 /\ entries[i].text = e.text

\* What one call of recordEvent adds.
Unrepeated(e) == IF Repeated(e) THEN <<>> ELSE <<e>>

\* recordEvent, as far as sessions go: ensureSession creates the row it lacks
\* and never opens one that ended.
Store(s, new) == entries' = entries \o new /\ known' = known \cup {s}

\* An event of a session, of now or of an earlier time; recordCheckpoint.
RecordEntry(s, kind, at) ==
    /\ Len(entries) < MaxEntries /\ at <= clock
    /\ Store(s, Unrepeated(Entry(s, kind, at)))
    /\ UNCHANGED <<clock, closed, tick>>

\* finalizeSession.  The row is ended first, whatever recordEvent answers; a
\* session without a row is not ended, and recordEvent then creates it open.
FinalizeSession(s, ok, persist) ==
    /\ Len(entries) < MaxEntries
    /\ closed' = closed \cup ({s} \cap known)
    /\ IF ok THEN Store(s, Unrepeated(Entry(s, "final", clock)) \o
                           IF persist /\ IsSkill(s) THEN <<Entry(s, "skill", clock)>> ELSE <<>>)
       ELSE UNCHANGED <<entries, known>>
    /\ UNCHANGED <<clock, tick>>

\* Mutant: the scheduler's word is taken for it that the session is open.
PartialOfAny(s) == Store(s, Unrepeated(Entry(s, "partial", clock)))

\* partialFinalizeSession: nothing for a session that has ended.
PartialFinalize(s) ==
    IF s \in closed THEN UNCHANGED <<entries, known>>
    ELSE Store(s, Unrepeated(Entry(s, "partial", clock)))

\* finalizeSession with partial = true, asked for by a client.
CallPartial(s) ==
    Len(entries) < MaxEntries /\ PartialFinalize(s) /\ UNCHANGED <<clock, closed, tick>>

\* MAX(created_at) of some rows.
Newest(ids) ==
    IF ids = {} THEN 0
    ELSE entries[CHOOSE i \in ids : \A j \in ids : entries[i].at >= entries[j].at].at

\* A session that queryActiveSessions selects: open, with a row that is newer
\* than its last summary.
Candidate(s) == s \in known \ closed /\ Newest(LiveRows(s)) > Newest(Summaries(s))

\* queryActiveSessions: the ones with the newest rows, up to a limit.
QueryActiveSessions ==
    LET all == {s \in Session : Candidate(s)}
        Latest(s) == Newest(LiveRows(s))
    IN  {list \in UNION {[1..n -> all] : n \in {IF Cardinality(all) < TickLimit
                                                THEN Cardinality(all) ELSE TickLimit}} :
            /\ IsInjective(list)
            /\ \A i, j \in DOMAIN list : i < j => Latest(list[i]) >= Latest(list[j])
            /\ \A s \in all \ Range(list), i \in DOMAIN list : Latest(list[i]) >= Latest(s)}

\* A tick begins, unless the last one is still under way.
StartTick ==
    /\ tick = <<>> /\ tick' \in QueryActiveSessions /\ tick' # <<>>
    /\ UNCHANGED <<clock, entries, known, closed>>

\* Mutant: an error ends the tick and leaves it marked as under way.
ProcessOrStop(ok) ==
    /\ tick # <<>> /\ ok /\ tick' = Tail(tick) /\ Len(tick) > 1
    /\ PartialFinalize(Head(tick)) /\ UNCHANGED <<clock, closed>>

\* processSession: the next session of the tick, whatever became of it.  An
\* error is logged and the tick goes on.
ProcessSession(ok) ==
    /\ tick # <<>> /\ tick' = Tail(tick)
    /\ IF ok THEN PartialFinalize(Head(tick)) ELSE UNCHANGED <<entries, known>>
    /\ UNCHANGED <<clock, closed>>

\* The process restarts.
SessionRestart == tick # <<>> /\ tick' = <<>> /\ UNCHANGED <<clock, entries, known, closed>>

\* The forget policy archives a row.
ArchiveEntry(i) ==
    /\ Cardinality({j \in DOMAIN entries : entries[j].archived}) < MaxArchived
    /\ ~entries[i].archived /\ entries' = [entries EXCEPT ![i].archived = TRUE]
    /\ UNCHANGED <<clock, known, closed, tick>>

Advance == clock < MaxClock /\ clock' = clock + 1 /\ UNCHANGED <<entries, known, closed, tick>>

SessionNext ==
    \/ \E s \in Session, at \in 1..MaxClock : \E k \in EventKind[s] :
          RecordEntry(s, k, at)
    \/ \E s \in Session, ok, persist \in BOOLEAN : FinalizeSession(s, ok, persist)
    \/ \E s \in Session : CallPartial(s)
    \/ StartTick \/ (\E ok \in BOOLEAN : ProcessSession(ok)) \/ SessionRestart
    \/ \E i \in DOMAIN entries : ArchiveEntry(i)
    \/ Advance

\* The tick is at a session.
AtHead(s) == tick # <<>> /\ Head(tick) = s

\* The timer ticks; what fails for a session, a timeout or a busy store, does not
\* fail for ever.
SessionFairness ==
    /\ WF_sessionVars(StartTick) /\ WF_sessionVars(\E ok \in BOOLEAN : ProcessSession(ok))
    /\ \A s \in Session : SF_sessionVars(AtHead(s) /\ ProcessSession(TRUE))

SessionSpec == SessionInit /\ [][SessionNext]_sessionVars /\ SessionFairness

------------------------------------------------------------------------------
\* A session that was closed gets no partial summary any more, although a tick
\* that chose it while it was open is still under way: the last summary in the
\* store is the one of its end.
NoPartialAfterEnd ==
    [][\A i \in DOMAIN entries' \ DOMAIN entries :
          entries'[i].kind = "partial" => entries'[i].session \notin closed]_sessionVars

\* The latest exchange of a handoff is the last answer among the rows it reviews,
\* with the last prompt before it, for events that arrive in any order.  The rows
\* it reviews are the oldest ones: of a session with more rows it is the latest
\* exchange of the session's beginning.
ExchangeIsLatest ==
    \A s \in known :
        LET ids == SummaryRowsOf(s)
            exchange == LatestExchange(ids)
            Is(n, kind) == entries[ids[n]].kind = kind
        IN  IF exchange.assistant = 0 THEN \A n \in DOMAIN ids : ~Is(n, "response")
            ELSE \E n \in DOMAIN ids :
                    /\ ids[n] = exchange.assistant /\ Is(n, "response")
                    /\ \A m \in DOMAIN ids : m > n => ~Is(m, "response")
                    /\ \A m \in 1..(n - 1) : Is(m, "prompt") =>
                          \E l \in m..(n - 1) : ids[l] = exchange.user

\* What the documentation promises of a handoff: the last answer of the session.
\* It is not kept for a session with more rows than a summary reviews.
HandoffLatest ==
    \A s \in known : \A i \in LiveRows(s) :
        entries[i].kind = "response" =>
            LET answer == LatestExchange(SummaryRowsOf(s)).assistant
            IN  answer # 0 /\ entries[answer].at >= entries[i].at

\* A session is crowded out: the limit of a tick is used up by candidates with rows
\* as new as its own.
Crowded(s) ==
    Cardinality({r \in Session \ {s} :
                    Candidate(r) /\ Newest(LiveRows(r)) >= Newest(LiveRows(s))}) >= TickLimit

\* Its summary would say what one in the store says, so that nothing is stored: so
\* it is once the rows that a summary reviews do not change any more.
SaysNothingNew(s) == Repeated(Entry(s, "partial", clock))

\* A session with a row newer than its last summary is summarised or it ends.  One
\* that stays a candidate for ever is crowded out again and again by busier ones,
\* or has outgrown what a summary reviews.
SummarisedEventually ==
    \A s \in Session : <>[]Candidate(s) => []<>(Crowded(s) \/ SaysNothingNew(s))

\* Handoffs are right about the rows they review in every state.
HandoffSound == SessionTypeOK /\ ExchangeIsLatest
==============================================================================
