---------------------------- MODULE Consolidation ----------------------------
(***************************************************************************)
(* Fact consolidation: the queue of jobs, the runs that work it off (the   *)
(* timer's, one at a time, and those an administrator asks for, any time), *)
(* the facts they extract observation by observation with an await each,   *)
(* their merging and superseding, and compressMemory.  A crash forgets the *)
(* runs and keeps every row.                                               *)
(***************************************************************************)
EXTENDS Naturals, Sequences, FiniteSets, SequencesExt

CONSTANTS Src,          \* observations, numbered in order of creation
          SessionOf,    \* observation -> session
          FactKey,      \* fact keys; facts of one key are similar
          WeakKey,      \* keys of low confidence
          Worker,       \* the runs that may overlap
          JobLimit,     \* run -> jobs it takes at most (timer 10, asked for up to 200)
          MaxJobs,      \* bound on jobs
          MaxCrashes,   \* bound on crashes
          MaxAdmin,     \* bound on an administrator's calls: runs and compressMemory
          NoFact, Gone  \* no fact id; the id of no fact, invalidated_by_...

Fact == Src \X FactKey
FactSession == {SessionOf[o] : o \in Src}

ASSUME ConsolidationAssumption ==
    /\ Src \subseteq Nat \ {0} /\ JobLimit \in [Worker -> Nat \ {0}] /\ WeakKey \subseteq FactKey
    /\ NoFact \notin Fact /\ Gone \notin Fact /\ NoFact # Gone /\ "timer" \in Worker

VARIABLES arrived,    \* observations in the store
          jobs,       \* mem_consolidation_queue
          facts,      \* mem_facts in order of insertion
          merged,     \* merged_into_fact_id
          by,         \* superseded_by
          ended,      \* facts with valid_to
          run,        \* the runs under way
          extracted,  \* ghost: observations whose extraction was applied
          crashes, asked

factVars == <<facts, merged, by, ended, extracted>>
consVars == <<arrived, jobs, run, crashes, asked, facts, merged, by, ended, extracted>>

Idle == [queue |-> <<>>, todo |-> {}, snap |-> {}, job |-> [id |-> 0, session |-> NoFact],
         busy |-> FALSE]

ConsTypeOK ==
    /\ arrived \subseteq Src /\ extracted \subseteq arrived
    /\ \A i \in DOMAIN jobs : /\ jobs[i].session \in FactSession
                              /\ jobs[i].status \in {"pending", "running", "completed"}
    /\ ToSet(facts) \subseteq arrived \X FactKey
    /\ merged \in [Fact -> Fact \cup {NoFact}] /\ by \in [Fact -> Fact \cup {NoFact, Gone}]
    /\ ended \subseteq ToSet(facts)
    /\ \A w \in Worker : /\ run[w].busy \in BOOLEAN
                         /\ run[w].snap \subseteq ToSet(facts)
                         /\ run[w].todo \subseteq arrived

ConsInit ==
    /\ arrived = {} /\ jobs = <<>> /\ facts = <<>>
    /\ merged = [f \in Fact |-> NoFact] /\ by = [f \in Fact |-> NoFact]
    /\ ended = {} /\ extracted = {} /\ crashes = 0 /\ asked = 0
    /\ run = [w \in Worker |-> Idle]

------------------------------------------------------------------------------
\* Mutant: facts that were merged count as active.
ActiveOrMerged(into) == {f \in ToSet(facts) : by[f] = NoFact /\ f \notin ended}

\* loadExistingFacts, and the active facts of every other query but one.
Active(into) == {f \in ToSet(facts) : into[f] = NoFact /\ by[f] = NoFact /\ f \notin ended}

\* An observation is recorded; observations arrive in order.
Observe(o) ==
    /\ \A p \in arrived : p < o
    /\ arrived' = arrived \cup {o}
    /\ UNCHANGED <<jobs, run, crashes, asked, factVars>>

\* enqueueConsolidationJob, called by finalizeSession.
EnqueueConsolidationJob(s) ==
    /\ Len(jobs) < MaxJobs /\ \E o \in arrived : SessionOf[o] = s
    /\ jobs' = Append(jobs, [session |-> s, status |-> "pending",
                             seen |-> {o \in arrived : SessionOf[o] = s}])
    /\ UNCHANGED <<arrived, run, crashes, asked, factVars>>

\* Mutant: with nothing pending there is nothing to do.
PendingJobsOnly(limit) ==
    LET rows == {[id |-> i, session |-> jobs[i].session] :
                    i \in {i \in DOMAIN jobs : jobs[i].status = "pending"}}
    IN  {list \in SeqOf(rows, limit) :
            /\ \A n \in DOMAIN list : Cardinality({a \in rows : a.id < list[n].id}) = n - 1
            /\ Len(list) = limit \/ rows \subseteq ToSet(list)}

\* loadPendingJobs without a session: the oldest pending jobs up to a limit, and
\* only if there is none the sessions last used, of which the limit cuts off the
\* others; there is exactly one such list.
LoadPendingJobs(limit) ==
    LET pending == {i \in DOMAIN jobs : jobs[i].status = "pending"}
        rows == IF pending # {}
                THEN {[id |-> i, session |-> jobs[i].session] : i \in pending}
                ELSE {[id |-> 0, session |-> SessionOf[o]] : o \in arrived}
        Used(s) == {o \in arrived : SessionOf[o] = s}
        Before(a, b) == \/ a.id < b.id
                        \/ a.id = 0 /\ \E o \in Used(a.session) :
                                           \A p \in Used(b.session) : p < o
    IN  {list \in SeqOf(rows, limit) :
            /\ \A n \in DOMAIN list : Cardinality({a \in rows : Before(a, list[n])}) = n - 1
            /\ Len(list) = limit \/ rows \subseteq ToSet(list)}

SetStatus(rows, job, status) ==
    IF job.id = 0 THEN rows ELSE [rows EXCEPT ![job.id].status = status]

\* The next job of a run, up to its first await: marked as running, its
\* observations and the active facts are read.
TakeJob(w, rows, queue, into) ==
    IF queue = <<>> THEN jobs' = rows /\ run' = [run EXCEPT ![w] = Idle]
    ELSE /\ jobs' = SetStatus(rows, Head(queue), "running")
         /\ run' = [run EXCEPT ![w] =
                [queue |-> Tail(queue), job |-> Head(queue), busy |-> TRUE,
                 snap |-> Active(into),
                 todo |-> {o \in arrived : SessionOf[o] = Head(queue).session}]]

\* runConsolidationOnce.  The timer starts none while its last one is under way.
StartRun(w) ==
    /\ ~run[w].busy
    /\ \E list \in LoadPendingJobs(JobLimit[w]) : list # <<>> /\ TakeJob(w, jobs, list, merged)
    /\ IF w = "timer" THEN UNCHANGED asked ELSE asked < MaxAdmin /\ asked' = asked + 1
    /\ UNCHANGED <<arrived, crashes, factVars>>

\* runConsolidationOnce for the session an administrator names, whatever its queue.
StartRunFor(w, s) ==
    /\ w # "timer" /\ ~run[w].busy
    /\ TakeJob(w, jobs, <<[id |-> 0, session |-> s]>>, merged)
    /\ asked < MaxAdmin /\ asked' = asked + 1
    /\ UNCHANGED <<arrived, crashes, factVars>>

\* What the extractor may answer for an observation, given the facts it was
\* shown: new facts, and facts that they replace or that are not true any more
\* (parseDiffFromContent drops ids it does not know).  A failing provider
\* answers with nothing.
Answers(snap) == [new : {{}} \cup {{k} : k \in FactKey}, old : {{}} \cup {{f} : f \in snap}]

\* upsertFactsForSession for the next observation, whose answer arrives; a fact
\* that was replaced before keeps its heir (buildSupersededDecisions).
Extract(w, answer) ==
    /\ run[w].busy
    /\ \E o \in run[w].todo :
       LET ids == {<<o, k>> : k \in answer.new}
           heir == IF ids = {} THEN Gone ELSE CHOOSE f \in ids : TRUE
           hit == {f \in answer.old \ {heir} : by[f] = NoFact}
       IN  /\ \A p \in run[w].todo : o <= p
           /\ facts' = IF ids \subseteq ToSet(facts) THEN facts ELSE Append(facts, heir)
           /\ by' = [f \in Fact |-> IF f \in hit THEN heir ELSE by[f]]
           /\ ended' = ended \cup hit
           /\ extracted' = extracted \cup {o}
           /\ run' = [run EXCEPT ![w].todo = @ \ {o}, ![w].snap = (@ \ answer.old) \cup ids]
    /\ UNCHANGED <<arrived, jobs, crashes, asked, merged>>

\* dedupeFacts: in order of creation each fact of those read goes into the first
\* earlier similar one that was not itself merged.
DedupeFacts(read) ==
    [f \in Fact |->
        LET before == {i \in DOMAIN facts : /\ facts[i] \in read /\ facts[i][2] = f[2]
                                            /\ \A j \in 1..i : facts[j] # f}
        IN  IF f \notin read \/ before = {} THEN merged[f]
            ELSE facts[CHOOSE i \in before : \A j \in before : i <= j]]

\* dedupeSessionFacts reads superseded facts, too.
DedupeSessionFacts(s) ==
    DedupeFacts({f \in ToSet(facts) : SessionOf[f[1]] = s /\ merged[f] = NoFact})

\* Mutant: the job is completed although an answer is outstanding.
FinishEarly(w) ==
    /\ run[w].busy
    /\ merged' = DedupeSessionFacts(run[w].job.session)
    /\ TakeJob(w, SetStatus(jobs, run[w].job, "completed"), run[w].queue, merged')
    /\ UNCHANGED <<arrived, crashes, asked, facts, by, ended, extracted>>

\* The job is done: dedupe, derives links, audit, completed; on to the next.
FinishJob(w) ==
    /\ run[w].busy /\ run[w].todo = {}
    /\ merged' = DedupeSessionFacts(run[w].job.session)
    /\ TakeJob(w, SetStatus(jobs, run[w].job, "completed"), run[w].queue, merged')
    /\ UNCHANGED <<arrived, crashes, asked, facts, by, ended, extracted>>

\* compressMemory, merge: per key, the active facts go into the last of them.
CompressMerge ==
    LET live == Active(merged)
        Newer(k) == facts[CHOOSE i \in DOMAIN facts :
                       /\ facts[i] \in live /\ facts[i][2] = k
                       /\ \A j \in DOMAIN facts :
                              facts[j] \in live /\ facts[j][2] = k => j <= i]
    IN  /\ asked < MaxAdmin /\ asked' = asked + 1
        /\ merged' = [f \in Fact |-> IF f \in live /\ f # Newer(f[2]) THEN Newer(f[2])
                                      ELSE merged[f]]
        /\ merged' # merged
        /\ UNCHANGED <<arrived, jobs, run, crashes, facts, by, ended, extracted>>

\* compressMemory, prune: active facts of low confidence end.
CompressPrune ==
    /\ asked < MaxAdmin /\ asked' = asked + 1
    /\ ended' = ended \cup {f \in Active(merged) : f[2] \in WeakKey}
    /\ ended' # ended
    /\ UNCHANGED <<arrived, jobs, run, crashes, facts, merged, by, extracted>>

\* The process dies and starts again.
ConsCrash ==
    /\ crashes < MaxCrashes /\ crashes' = crashes + 1
    /\ \E w \in Worker : run[w].busy
    /\ run' = [w \in Worker |-> Idle]
    /\ UNCHANGED <<arrived, jobs, asked, factVars>>

Answer(w) == \E a \in Answers(run[w].snap) : Extract(w, a)

ConsNext ==
    \/ \E o \in Src : Observe(o)
    \/ \E s \in FactSession : EnqueueConsolidationJob(s)
    \/ \E w \in Worker : StartRun(w) \/ Answer(w) \/ FinishJob(w)
    \/ \E w \in Worker, s \in FactSession : StartRunFor(w, s)
    \/ CompressMerge \/ CompressPrune \/ ConsCrash

\* The timer goes on; every provider call ends within its timeout.
ConsFairness ==
    /\ WF_consVars(StartRun("timer"))
    /\ \A w \in Worker : WF_consVars(Answer(w)) /\ WF_consVars(FinishJob(w))

ConsSpec == ConsInit /\ [][ConsNext]_consVars /\ ConsFairness

------------------------------------------------------------------------------
\* getFactHistory: the facts of a key that were not merged.
FactHistory(k) == {f \in ToSet(facts) : f[2] = k /\ merged[f] = NoFact}

\* Where the merges of a fact lead: the facts met on the way.
MergePath(f) ==
    LET walk[n \in 0..Len(facts)] ==
            IF n = 0 THEN {f}
            ELSE LET seen == walk[n - 1] IN seen \cup ({merged[g] : g \in seen} \ {NoFact})
    IN  walk[Len(facts)]

\* However dedupe runs of overlapping jobs and compressMemory calls mix, no facts
\* are merged among themselves: following the merges from any fact comes to one
\* that was not merged.  A circle would hide all of its facts from every query.
MergesEnd == \A some \in (SUBSET ToSet(facts)) \ {{}} : \E f \in some : merged[f] \notin some

\* A job is reported as completed only once every observation its session had
\* when the job was queued went through extraction, with runs that overlap and
\* take each other's jobs, and crashes in between.
CompletedCovers ==
    \A i \in DOMAIN jobs : jobs[i].status = "completed" => jobs[i].seen \subseteq extracted

\* Every job that was queued for an observation was left as running by a crash,
\* and no run holds it; a limit of other sessions was used after its own.
Abandoned(o) ==
    /\ \A i \in DOMAIN jobs : o \in jobs[i].seen =>
           /\ jobs[i].status = "running"
           /\ \A w \in Worker : run[w].busy => run[w].job.id # i
    /\ Cardinality({SessionOf[p] : p \in {q \in arrived :
           \A n \in arrived : SessionOf[n] = SessionOf[o] => n < q}}) >= JobLimit["timer"]

\* Every observation of a queued session is extracted in the end, with one
\* exception. A job that a crash left as running is never taken again, and the
\* run over the sessions last used, which follows when nothing is pending, makes
\* up for it only for as many of them as a run may take: an older session whose
\* job was under way when the process died stays without its facts.
QueuedExtracted ==
    \A o \in Src : \/ (\E i \in DOMAIN jobs : o \in jobs[i].seen) ~> (o \in extracted)
                  \/ <>[]Abandoned(o)

\* The history of a key is complete: a value that was replaced is followed by
\* the fact that replaced it, or by another one that this was merged into.
HistoryComplete ==
    \A f \in ToSet(facts) :
        by[f] \in Fact /\ by[f][2] = f[2] /\ merged[f] = NoFact =>
            \E g \in MergePath(by[f]) \ {f} : g \in FactHistory(f[2])

\* The fact table is sound after any mix of runs: what a merge points at exists
\* and the merges end.
FactsSound == ConsTypeOK /\ MergesEnd
==============================================================================
