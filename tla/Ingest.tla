------------------------------- MODULE Ingest --------------------------------
(***************************************************************************)
(* The pollers of memory-server/src/core/ingest-coordinator.ts: files that *)
(* other programs write are read from a stored offset, parsed, recorded    *)
(* line by line, and the offset moves on.  A poll is synchronous, but      *)
(* every record and every offset is a commit of its own, so a crash may    *)
(* fall between any two of them, and the writer of a file may append to it *)
(* or replace it between any two steps.                                    *)
(*                                                                         *)
(* Sizes are in half lines: a complete line is two units, a line that is   *)
(* still being written is one.  An opencode row is a line, its rowid the   *)
(* index; the row's parts are rows of another table, read after it.        *)
(***************************************************************************)
EXTENDS SortedLists

CONSTANTS File,
          KindChoices,    \* the assignments of a kind to every file to look at
          LineText,           \* what a line may say; Noise makes no event
          Noise,
          TextOf,         \* the texts that are written to a file
          Oversize,       \* the texts of lines longer than MAX_BYTES_PER_FILE
          Recap,          \* the answer a compaction of a rollout repeats before
                          \* its last one; None for the other lines
          None,           \* no offset row, no context, no poll under way
          MaxLines,       \* bound on the lines of all files together
          MaxMishaps,     \* bound on replacements of a file, polls that die
                          \* and replays, taken together
          FilesPerPoll,   \* MAX_FILES_PER_POLL
          UnitsPerFile    \* MAX_BYTES_PER_FILE

\* The pollers by their treatment of offsets.
Kind == {"rollout", "history", "rows", "message", "cursor", "gemini", "planner",
         "whole", "claude", "absent"}

ASSUME IngestAssumption ==
    /\ KindChoices \subseteq [File -> Kind]
    /\ Noise \in LineText /\ None \notin LineText /\ TextOf \in [File -> SUBSET LineText]
    /\ Oversize \subseteq LineText \ {Noise} /\ Recap \in [LineText -> LineText \cup {None}]
    /\ IsFiniteSet(File) /\ MaxLines \in Nat \ {0, 1}
    /\ FilesPerPoll \in Nat \ {0} /\ UnitsPerFile \in Nat

VARIABLES kind,       \* which poller reads a file
          lines,      \* the complete lines of a file
          tail,       \* a line is half written at its end
          fresh,      \* the lines a file must have to be within the backfill
                      \* window; of rows, the first one within it
          recency,    \* the files, most recently modified first
          off,        \* mem_ingest_offsets
          ctx,        \* lastAssistantContent of the stored context
          recorded,   \* dedupe hashes in mem_events: file, position, content
          refused,    \* hashes whose recordEvent answered not ok
          poll,       \* the visit of a file under way
          from,       \* ghost: positions below it are out of the offset's reach
          mishaps     \* replacements, deaths and replays so far

ingestVars == <<kind, lines, tail, fresh, recency, off, ctx, recorded, refused,
                poll, from, mishaps>>
fileVars == <<kind, lines, tail, fresh, recency>>

Size(f) == 2 * Len(lines[f]) + (IF tail[f] THEN 1 ELSE 0)

\* The lines of f, a half-written one counted.
Begun(f) == Len(lines[f]) + (IF tail[f] THEN 1 ELSE 0)

\* There is room to begin one more line.
Room == Cardinality({b \in File \X (1..MaxLines) : 2 * b[2] - 1 <= Size(b[1])}) < MaxLines

\* The hash of an event: source key, position of the line, text of the line.
Hash(f, entry) == <<f, entry.pos, entry.text>>

IngestTypeOK ==
    /\ kind \in KindChoices
    /\ \A f \in File : lines[f] \in Seq(LineText) /\ Len(lines[f]) <= MaxLines
    /\ tail \in [File -> BOOLEAN]
    /\ off \in [File -> Nat \cup {None}]
    /\ ctx \in [File -> LineText \cup {None}]
    /\ from \in [File -> Nat]
    /\ poll = None \/ /\ poll.file \in File
                      /\ poll.step \in {"read", "record", "context", "offset"}
                      /\ poll.base \in Nat /\ poll.next \in Nat

IngestInit ==
    /\ kind \in KindChoices
    /\ lines \in [File -> {<<>>} \cup {<<t>> : t \in LineText}]
    /\ \A f \in File : lines[f] # <<>> => lines[f][1] \in TextOf[f] \ {Noise}
    /\ tail \in [File -> BOOLEAN]
    /\ \A f \in File : /\ kind[f] \in {"rows", "whole", "absent"} => ~tail[f]
                       /\ kind[f] = "absent" => lines[f] = <<>>
    /\ fresh \in [File -> {1, 2}]
    /\ \A f \in File : fresh[f] <= Begun(f) + 1
    /\ recency \in {s \in [1..Cardinality(File) -> File] :
                        \A i, j \in DOMAIN s : s[i] = s[j] => i = j}
    /\ off = [f \in File |-> None]
    /\ ctx = [f \in File |-> None]
    /\ recorded = {} /\ refused = {} /\ poll = None
    /\ from = [f \in File |-> 0]
    /\ mishaps = 0

------------------------------------------------------------------------------
(* The writers of the files. *)

\* A write makes its file the most recent one.
Touched(f) == <<f>> \o Sublist(recency, File \ {f})

\* Half a line is written.  For a file that is read as a whole that is one
\* more version of it.
WriteHalf(f) ==
    /\ kind[f] \notin {"rows", "whole", "absent"} /\ ~tail[f] /\ Room
    /\ tail' = [tail EXCEPT ![f] = TRUE]
    /\ recency' = Touched(f)
    /\ UNCHANGED <<kind, lines, fresh, off, ctx, recorded, refused, poll, from,
                   mishaps>>

\* What is written now is recent: count lines are enough.
Recent(f, count) == IF fresh[f] > count THEN count ELSE fresh[f]

\* A line, or the rest of one, is written.
WriteLine(f, text) ==
    /\ kind[f] # "absent" /\ (tail[f] \/ Room)
    /\ lines' = [lines EXCEPT ![f] = Append(@, text)]
    /\ tail' = [tail EXCEPT ![f] = FALSE]
    /\ fresh' = [fresh EXCEPT ![f] = Recent(f, Len(lines[f]) + 1)]
    /\ recency' = Touched(f)
    /\ UNCHANGED <<kind, off, ctx, recorded, refused, poll, from, mishaps>>

\* The content of f is replaced.  What the new one has below the stored offset
\* is invisible to the pollers until they notice that the file shrank.
Replace(f, new) ==
    /\ mishaps < MaxMishaps /\ lines[f] # <<>>
    /\ mishaps' = mishaps + 1
    /\ lines' = [lines EXCEPT ![f] = new]
    /\ tail' = [tail EXCEPT ![f] = FALSE]
    /\ from' = [from EXCEPT ![f] = IF off[f] = None THEN 0 ELSE off[f]]
    /\ recency' = Touched(f)
    /\ poll' = IF poll # None /\ poll.file = f
               THEN [poll EXCEPT !.rotated = TRUE] ELSE poll
    /\ UNCHANGED <<kind, off, ctx, recorded, refused>>

AllButLast(f) == SubSeq(lines[f], 1, Len(lines[f]) - 1)

\* The file starts over, or the last row of the table is deleted (its rowid
\* will be given again).
Rotate(f) ==
    /\ Replace(f, IF kind[f] = "rows" THEN AllButLast(f) ELSE <<>>)
    /\ fresh' = [fresh EXCEPT ![f] = IF kind[f] = "rows"
                                     THEN Recent(f, Len(lines[f])) ELSE 0]

\* The text parts of the last message are written after its row.
AddParts(f, text) ==
    /\ kind[f] = "rows" /\ lines[f] # <<>> /\ lines[f][Len(lines[f])] = Noise
    /\ Replace(f, Append(AllButLast(f), text))
    /\ UNCHANGED fresh

------------------------------------------------------------------------------
(* A visit of a file: look at it, read it, record its events, store the    *)
(* parser's context, store the offset.                                     *)

Offset(f) == IF off[f] = None THEN 0 ELSE off[f]

\* A file that shrank is read from its start.
Base(f) == IF Offset(f) > Size(f) THEN 0 ELSE Offset(f)

\* A file the daemon meets for the first time was last written too long ago;
\* of rows, all were.
Stale(f) == off[f] = None /\ fresh[f] > Begun(f)

\* The offset of a file that is too old is moved to its end.
SkipBackfill(f) ==
    /\ Stale(f)
    /\ off' = [off EXCEPT ![f] = Size(f)]
    /\ from' = [from EXCEPT ![f] = Size(f)]
    /\ UNCHANGED <<ctx, recorded, refused, poll, mishaps>>

\* stat and the offset row; the file is read in a later step.
Look(f, base, size, replay) ==
    /\ poll' = [file |-> f, step |-> "read", base |-> base, size |-> size,
                offset |-> Base(f), todo |-> <<>>, next |-> base, last |-> None,
                restart |-> replay \/ Offset(f) > Size(f), replay |-> replay,
                rotated |-> FALSE]
    /\ UNCHANGED <<off, ctx, recorded, refused, from>>

\* A tailed file: skip it, leave it alone, or read what it has beyond the offset.
Follow(f) ==
    \/ SkipBackfill(f)
    \/ /\ ~Stale(f) /\ Base(f) # Size(f)
       /\ Look(f, Base(f), Size(f), FALSE) /\ UNCHANGED mishaps

\* ingestCodexSessionsRollouts.
PollRollout(f) == kind[f] = "rollout" /\ poll = None /\ Follow(f) /\ UNCHANGED fileVars

\* ingestLegacyCodexHistoryFile has no backfill window.
PollHistory(f) ==
    /\ kind[f] = "history" /\ poll = None
    /\ Base(f) # Size(f)
    /\ Look(f, Base(f), Size(f), FALSE)
    /\ UNCHANGED <<fileVars, mishaps>>

\* ingestOpencodeDbMessages: a first visit takes the recent rows only, and a
\* cursor beyond the last rowid stays where it is.
PollRows(f) ==
    /\ kind[f] = "rows" /\ poll = None
    /\ \/ Size(f) > 0 /\ SkipBackfill(f)
       \/ /\ ~Stale(f) /\ Offset(f) < Size(f)
          /\ Look(f, IF off[f] = None THEN 2 * (fresh[f] - 1) ELSE off[f],
                  Size(f), FALSE)
          /\ UNCHANGED mishaps
    /\ UNCHANGED fileVars

\* ingestOpencodeStorageMessages: one file per message.
PollMessage(f) == kind[f] = "message" /\ poll = None /\ Follow(f) /\ UNCHANGED fileVars

\* ingestCursorHooksEvents.
PollCursor(f) == kind[f] = "cursor" /\ poll = None /\ Follow(f) /\ UNCHANGED fileVars

\* ingestGeminiEvents reads no further than the size it saw.
PollGemini(f) == kind[f] = "gemini" /\ poll = None /\ Follow(f) /\ UNCHANGED fileVars

\* ingestAntigravityLogEvents.
PollPlanner(f) == kind[f] = "planner" /\ poll = None /\ Follow(f) /\ UNCHANGED fileVars

\* ingestAntigravityWorkspace: the whole file whenever its size is new.
PollWhole(f) == kind[f] = "whole" /\ poll = None /\ Follow(f) /\ UNCHANGED fileVars

\* The files of a poll that are opened before f, the most recent first.
OpenedBefore(f) ==
    LET Place(g) == CHOOSE i \in DOMAIN recency : recency[i] = g
    IN  {g \in File : /\ kind[g] = "claude" /\ Place(g) < Place(f)
                      /\ ~Stale(g) /\ Base(g) # Size(g)}

\* Mutant: the file that uses up the budget is not read any more.
BudgetOffByOne(f) == Cardinality(OpenedBefore(f)) + 1 < FilesPerPoll

\* The file that exceeds the budget ends the poll.
WithinBudget(f) == Cardinality(OpenedBefore(f)) < FilesPerPoll

\* ingestClaudeCodeSessions as the timer calls it: a budget of files, and of
\* bytes within a file.
PollClaude(f) ==
    LET end == IF Size(f) - Base(f) > UnitsPerFile
               THEN Base(f) + UnitsPerFile ELSE Size(f)
    IN  /\ kind[f] = "claude" /\ poll = None
        /\ \/ SkipBackfill(f) /\ Cardinality(OpenedBefore(f)) <= FilesPerPoll
           \/ /\ ~Stale(f) /\ Base(f) # Size(f) /\ WithinBudget(f)
              /\ Look(f, Base(f), end, FALSE) /\ UNCHANGED mishaps
        /\ UNCHANGED fileVars

\* ingestClaudeCodeHistory, the admin endpoint: everything once more.
ReplayClaude(f) ==
    /\ kind[f] = "claude" /\ poll = None /\ mishaps < MaxMishaps /\ Size(f) > 0
    /\ mishaps' = mishaps + 1
    /\ Look(f, 0, Size(f), TRUE)
    /\ UNCHANGED fileVars

------------------------------------------------------------------------------
(* The parsers. *)

\* The lines that begin at or after base and are complete within end.
Complete(f, base, end) ==
    {i \in DOMAIN lines[f] : base <= 2 * (i - 1) /\ 2 * i <= end}

\* What a line parser consumes: up to the last newline.
Consumed(f, base, end) ==
    LET ends == {2 * i : i \in {j \in DOMAIN lines[f] : 2 * j <= end /\ 2 * j > base}}
    IN  IF ends = {} THEN base ELSE CHOOSE e \in ends : \A d \in ends : d <= e

Event(f, i) == [pos |-> 2 * (i - 1), text |-> lines[f][i]]

\* The chosen lines in the order of the file.
InOrder(f, chosen) ==
    LET s == Ascending(chosen) IN [n \in DOMAIN s |-> Event(f, s[n])]

Speaking(f, some) == {i \in some : lines[f][i] # Noise}

\* The answer before line i: of the chunk, else of the context.
Before(f, some, context, i) ==
    LET prior == {j \in Speaking(f, some) : j < i}
    IN  IF prior = {} THEN context
        ELSE lines[f][CHOOSE j \in prior : \A k \in prior : k <= j]

\* parseCodexHistoryChunk: every line that makes an event.
ParseHistory(f, base, end) == InOrder(f, Speaking(f, Complete(f, base, end)))

\* parseCursorHooksChunk.
ParseCursor(f, base, end) == InOrder(f, Speaking(f, Complete(f, base, end)))

\* parseGeminiEventsChunk.
ParseGemini(f, base, end) == InOrder(f, Speaking(f, Complete(f, base, end)))

\* parseAntigravityLogChunk.
ParsePlanner(f, base, end) == InOrder(f, Speaking(f, Complete(f, base, end)))

\* parseOpencodeDbMessageRow, for every row of the query.
ParseRows(f, base, end) == InOrder(f, Speaking(f, Complete(f, base, end)))

\* parseCodexSessionsChunk drops an answer that repeats the one before it.  A
\* compaction is a line that says the last answer of its history; the one it
\* repeats before that is recorded first, see RecordRecap.
ParseRollout(f, base, end) ==
    LET some == Complete(f, base, end)
    IN  InOrder(f, {i \in Speaking(f, some) :
                        lines[f][i] # Before(f, some, ctx[f], i)})

\* So does parseClaudeCodeChunk; a replay starts without a context.
ParseClaude(f, base, end, replay) ==
    LET some == Complete(f, base, end)
        context == IF replay THEN None ELSE ctx[f]
    IN  InOrder(f, {i \in Speaking(f, some) :
                        lines[f][i] # Before(f, some, context, i)})

\* parseAntigravityFile: the file is the event.
ParseWhole(f) ==
    IF Size(f) = 0 THEN <<>> ELSE <<[pos |-> 0, text |-> <<lines[f], tail[f]>>]>>

\* parseOpencodeMessageChunk: the rest of the file is one JSON value, or it is
\* left for a later poll.
ParseMessage(f, base) == IF base = 0 /\ ~tail[f] THEN ParseWhole(f) ELSE <<>>

------------------------------------------------------------------------------
(* Reading, recording, storing. *)

\* Claude's poller, but not its replay, reads less than a line that is longer
\* than its budget of bytes, and takes nothing of it.
Fits(f, end) ==
    LET cuts == {2 * (i - 1) : i \in {j \in DOMAIN lines[f] :
                                          lines[f][j] \in Oversize /\ 2 * j > poll.base}}
    IN  CHOOSE e \in cuts \cup {end} : \A c \in cuts \cup {end} : e <= c

\* The pollers that bound their read by the size they saw; the others take
\* what the file has by now.
ReadEnd(f) ==
    CASE kind[f] = "gemini" -> poll.size
      [] kind[f] = "claude" -> IF poll.replay THEN poll.size ELSE Fits(f, poll.size)
      [] OTHER              -> Size(f)

Parsed(f) ==
    CASE kind[f] = "rollout" -> ParseRollout(f, poll.base, ReadEnd(f))
      [] kind[f] = "history" -> ParseHistory(f, poll.base, ReadEnd(f))
      [] kind[f] = "rows"    -> ParseRows(f, poll.base, ReadEnd(f))
      [] kind[f] = "message" -> ParseMessage(f, poll.base)
      [] kind[f] = "cursor"  -> ParseCursor(f, poll.base, ReadEnd(f))
      [] kind[f] = "gemini"  -> ParseGemini(f, poll.base, ReadEnd(f))
      [] kind[f] = "planner" -> ParsePlanner(f, poll.base, ReadEnd(f))
      [] kind[f] = "whole"   -> ParseWhole(f)
      [] kind[f] = "claude"  -> ParseClaude(f, poll.base, ReadEnd(f), poll.replay)

\* The context after a chunk, for the poller that stores the parser's own.
ContextAfter(f) ==
    Before(f, Complete(f, poll.base, ReadEnd(f)),
           IF poll.replay THEN None ELSE ctx[f], MaxLines + 1)

\* Where the offset will move when everything is recorded.
NextOffset(f) ==
    CASE kind[f] = "whole"   -> poll.size
      [] kind[f] = "message" -> IF Parsed(f) = <<>> THEN poll.base ELSE Size(f)
      [] OTHER               -> Consumed(f, poll.base, ReadEnd(f))

\* The file is read and parsed.
Read ==
    /\ poll # None /\ poll.step = "read"
    /\ LET f == poll.file
       IN  poll' = [poll EXCEPT
               !.step = "record", !.todo = Parsed(f), !.next = NextOffset(f),
               !.last = IF kind[f] = "claude" THEN ContextAfter(f) ELSE ctx[f]]
    /\ UNCHANGED <<fileVars, off, ctx, recorded, refused, from, mishaps>>

\* normalizeCompactedEvents recovers what its history has after the last known
\* answer.  Line and offset are those of the compaction, the event is its own.
RecapDue == /\ kind[poll.file] = "rollout"
            /\ Recap[Head(poll.todo).text] \notin {None, poll.last}

RecordRecap ==
    /\ poll # None /\ poll.step = "record" /\ poll.todo # <<>> /\ RecapDue
    /\ LET answer == Recap[Head(poll.todo).text]
       IN  /\ recorded' = recorded \cup {<<poll.file, Head(poll.todo).pos, answer>>}
           /\ poll' = [poll EXCEPT !.last = answer]
    /\ UNCHANGED <<fileVars, off, ctx, refused, from, mishaps>>

\* recordEvent stores the event or finds its hash.
RecordOk ==
    /\ poll # None /\ poll.step = "record" /\ poll.todo # <<>> /\ ~RecapDue
    /\ recorded' = recorded \cup {Hash(poll.file, Head(poll.todo))}
    /\ poll' = [poll EXCEPT
           !.todo = Tail(@),
           !.last = IF kind[poll.file] = "rollout" THEN Head(poll.todo).text ELSE @]
    /\ UNCHANGED <<fileVars, off, ctx, refused, from, mishaps>>

\* Mutant: a failed record ends the loop without taking the offset back.
RecordFailForward ==
    /\ poll # None /\ poll.step = "record" /\ poll.todo # <<>>
    /\ poll' = [poll EXCEPT !.todo = <<>>]
    /\ refused' = refused
    /\ UNCHANGED <<fileVars, off, ctx, recorded, from, mishaps>>

\* recordEvent answers not ok.  A rollout stops there and takes the offset
\* back to the line; the other pollers do not look at the answer.
RecordFail ==
    /\ poll # None /\ poll.step = "record" /\ poll.todo # <<>>
    /\ \/ /\ kind[poll.file] = "rollout"
          /\ LET pos == Head(poll.todo).pos
             IN  poll' = [poll EXCEPT !.todo = <<>>,
                              !.next = IF pos > poll.base THEN pos ELSE poll.base]
          /\ UNCHANGED refused
       \/ /\ kind[poll.file] # "rollout"
          /\ poll' = [poll EXCEPT !.todo = Tail(@)]
          /\ refused' = refused \cup {Hash(poll.file, Head(poll.todo))}
    /\ UNCHANGED <<fileVars, off, ctx, recorded, from, mishaps>>

\* storeCodexRolloutContext and storeClaudeCodeContext; the others have none.
StoreContext ==
    /\ poll # None /\ poll.step = "record" /\ poll.todo = <<>>
    /\ ctx' = IF kind[poll.file] \in {"rollout", "claude"} /\ poll.last # None
              THEN [ctx EXCEPT ![poll.file] = poll.last] ELSE ctx
    /\ poll' = [poll EXCEPT !.step = "offset"]
    /\ UNCHANGED <<fileVars, off, recorded, refused, from, mishaps>>

\* updateIngestOffset.  Half of the pollers write no row when nothing was
\* consumed; Claude's replay never moves an offset back.
StoreOffset ==
    /\ poll # None /\ poll.step = "offset"
    /\ LET f == poll.file
           lazy == kind[f] \in {"rows", "message", "cursor", "gemini", "planner"}
           new == IF kind[f] = "claude" /\ poll.offset > poll.next
                  THEN poll.offset ELSE poll.next
       IN  IF lazy /\ poll.next = poll.base THEN UNCHANGED <<off, from>>
           ELSE /\ off' = [off EXCEPT ![f] = new]
                /\ from' = [from EXCEPT ![f] =
                       CASE poll.rotated -> new
                         [] ~poll.rotated /\ new = poll.next
                                /\ (poll.restart \/ kind[f] = "whole") -> 0
                         [] ~poll.rotated /\ off[f] = None -> poll.base
                         [] OTHER -> @]
    /\ poll' = None
    /\ UNCHANGED <<fileVars, ctx, recorded, refused, mishaps>>

\* The process dies, or the poll throws: what was committed stays.
Abort == /\ poll # None /\ mishaps < MaxMishaps
         /\ poll' = None /\ mishaps' = mishaps + 1
         /\ UNCHANGED <<fileVars, off, ctx, recorded, refused, from>>

\* What each timer looks at: ingestCodexHistory and its siblings.
IngestCodexHistory(f) == PollRollout(f) \/ PollHistory(f)
IngestOpencodeHistory(f) == PollRows(f) \/ PollMessage(f)
IngestCursorHistory(f) == PollCursor(f)
IngestAntigravityHistory(f) == PollPlanner(f) \/ PollWhole(f)
IngestGeminiHistory(f) == PollGemini(f)
IngestClaudeCodeSessions(f) == PollClaude(f)

\* startTimers: every program's files have a timer of their own.
Visit(f) ==
    \/ IngestCodexHistory(f) \/ IngestOpencodeHistory(f) \/ IngestCursorHistory(f)
    \/ IngestAntigravityHistory(f) \/ IngestGeminiHistory(f)
    \/ IngestClaudeCodeSessions(f)

Step == Read \/ RecordRecap \/ RecordOk \/ RecordFail \/ StoreContext \/ StoreOffset

IngestNext ==
    \/ \E f \in File : \/ WriteHalf(f) \/ Rotate(f)
                       \/ \E text \in TextOf[f] : WriteLine(f, text) \/ AddParts(f, text)
                       \/ Visit(f) \/ ReplayClaude(f)
    \/ Step
    \/ Abort

\* A half-written line is finished.
FinishLine(f) == tail[f] /\ \E text \in TextOf[f] : WriteLine(f, text)

\* Every poller has its timer, and each of its polls comes to every file that
\* the budget allows, also while another file is visited again and again; a visit
\* runs to its end, and recordEvent does not refuse for ever; a program that
\* began a line finishes it.
IngestFairness ==
    /\ \A f \in File : SF_ingestVars(Visit(f)) /\ WF_ingestVars(FinishLine(f))
    /\ WF_ingestVars(Step)
    /\ SF_ingestVars(RecordRecap \/ RecordOk)

IngestSpec == IngestInit /\ [][IngestNext]_ingestVars /\ IngestFairness

------------------------------------------------------------------------------
\* The text of line i of f was stored; pollers that drop a repeated answer
\* stored it from another line.  All but the rollouts may have been refused.
Accounted(f, i) ==
    LET known == recorded \cup (IF kind[f] = "rollout" THEN {} ELSE refused)
    IN  IF kind[f] \in {"rollout", "claude"}
        THEN \E h \in known : h[1] = f /\ h[3] = lines[f][i]
        ELSE Hash(f, Event(f, i)) \in known

\* Line i of f makes an event and is within the reach of the offset.
InReach(f, i) ==
    i \in DOMAIN lines[f] /\ 2 * (i - 1) >= from[f] /\ lines[f][i] # Noise

\* What lies below the stored offset of f and in its reach was recorded.
RecordedBelow(f) ==
    /\ kind[f] = "whole" /\ off[f] = Size(f) /\ Size(f) > 0 /\ from[f] = 0 =>
           Hash(f, Head(ParseWhole(f))) \in recorded \cup refused
    /\ kind[f] = "message" /\ off[f] > from[f] =>
           \E h \in recorded \cup refused : h[1] = f
    /\ kind[f] \notin {"whole", "message"} =>
           \A i \in DOMAIN lines[f] : InReach(f, i) /\ 2 * i <= off[f] => Accounted(f, i)

\* No line is passed over: whatever lies below a stored offset was recorded,
\* though polls die between any two commits, records fail, lines are half
\* written when a file is read, and a file is replaced under the poller.  A
\* rollout loses nothing; the other pollers lose what the recorder refused.
\* Out of reach are a skipped backfill and a replacement the size hides.
NothingPassedOver == \A f \in File : off[f] # None => RecordedBelow(f)

\* A complete line that is in reach and not accounted for.
Pending(f, i) ==
    kind[f] \notin {"whole", "message"} /\ InReach(f, i) /\ ~Accounted(f, i)

\* A Claude line longer than the budget of bytes is never read whole: the
\* offset stays before it, and what follows it waits.
Withheld(f, i) ==
    /\ kind[f] = "claude"
    /\ \E j \in DOMAIN lines[f] : /\ j <= i /\ 2 * j > Offset(f)
                                  /\ lines[f][j] \in Oversize

\* The budget of files goes to others: to busy ones, or to one that is held.
PushedOut(f) == kind[f] = "claude" /\ Cardinality(OpenedBefore(f)) >= FilesPerPoll

\* Every poller catches up: a complete line that stays unread for ever is a
\* Claude line at or behind one that exceeds the budget of bytes, or in a file
\* that others keep out of the budget of files.  All others are read, through
\* failing records, crashes, skipped and rotated files.
PollersCatchUp ==
    \A f \in File, i \in 1..MaxLines : []<>(~Pending(f, i) \/ Withheld(f, i) \/ PushedOut(f))

\* Offsets, contexts and the log agree in every state, also in the middle of a
\* poll and after one that broke off.
OffsetsSound == IngestTypeOK /\ NothingPassedOver
==============================================================================
