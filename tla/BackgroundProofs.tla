--------------------------- MODULE BackgroundProofs ---------------------------
(***************************************************************************)
(* Proofs about the work the daemon does in the background, for every      *)
(* number of calls, jobs, facts, sessions and crashes: the circuit breaker *)
(* of the embedding provider, the consolidation of facts, the scheduler of *)
(* partial summaries, the pollers of files and the routes of an embedding. *)
(***************************************************************************)
EXTENDS CircuitBreaker, Consolidation, Sessions, Ingest, EmbeddingRoutes,
        OrderLemmas, SequenceTheorems

------------------------------------------------------------------------------
(* The circuit breaker *)

\* The breaker's counter is the streak the endpoint saw, and once the streak
\* reaches the threshold the breaker is not closed; while it is open its age
\* is the age of the last failure, and half-open only once that is old enough.
BreakerInv ==
    /\ BreakerTypeOK
    /\ failures = streak
    /\ breaker = "closed" => streak < FailureThreshold
    /\ breaker = "open" => openedAge = failedAge
    /\ breaker = "half-open" => failedAge >= Cooldown

USE BreakerAssumption

(***************************************************************************)
(* A step keeps the invariant and hammers nothing: EmbedRemote finds the   *)
(* breaker closed (the streak is short) or its cooldown over.              *)
(***************************************************************************)
LEMMA BreakerStep ==
    ASSUME BreakerInv, [BreakerNext]_breakerVars
    PROVE  /\ BreakerInv'
           /\ hasFallback /\ parity' # parity
                => (streak < FailureThreshold \/ failedAge >= Cooldown)
<1> USE DEF BreakerInv, BreakerTypeOK, EffectiveState, OneMoreFailure, Older
<1>1. CASE EmbedRemote
  <2>1. hasFallback => streak < FailureThreshold \/ failedAge >= Cooldown
    BY <1>1 DEF EmbedRemote
  <2>2. CASE endpoint
    BY <1>1, <2>2 DEF EmbedRemote, CallWrapped, HealthAfterEmbed, RecordSuccess
  <2>3. CASE ~endpoint
    <3>1. /\ failures' = OneMoreFailure(failures) /\ streak' = OneMoreFailure(streak)
          /\ failedAge' = 0 /\ parity' = 1 - parity /\ endpoint' = endpoint
          /\ hasFallback' = hasFallback
      BY <1>1, <2>3 DEF EmbedRemote, CallWrapped, HealthAfterEmbed, RecordFailure
    <3>2. /\ breaker' = IF \/ EffectiveState = "half-open"
                           \/ OneMoreFailure(failures) >= FailureThreshold
                        THEN "open" ELSE EffectiveState
          /\ openedAge' = IF breaker' = "open" THEN 0 ELSE openedAge
      BY <1>1, <2>3 DEF EmbedRemote, CallWrapped, HealthAfterEmbed, RecordFailure
    <3>3. EffectiveState \in {"closed", "half-open", "open"}
      OBVIOUS
    <3>4. CASE EffectiveState = "half-open"
      BY <3>1, <3>2, <3>4, <2>1
    <3>5. CASE EffectiveState = "closed"
      BY <3>1, <3>2, <3>5, <2>1
    <3>6. CASE EffectiveState = "open"
      BY <3>1, <3>2, <3>6, <2>1
    <3> QED BY <3>3, <3>4, <3>5, <3>6
  <2> QED BY <2>2, <2>3
<1>2. CASE HealthCheck
  BY <1>2 DEF HealthCheck
<1>3. CASE EndpointFlaps
  BY <1>3 DEF EndpointFlaps
<1>4. CASE Cool
  BY <1>4 DEF Cool
<1>5. CASE UNCHANGED breakerVars
  BY <1>5 DEF breakerVars
<1> QED BY <1>1, <1>2, <1>3, <1>4, <1>5 DEF BreakerNext

(***************************************************************************)
(* The inductive invariant holds throughout.                               *)
(***************************************************************************)
LEMMA BreakerInvHolds == BreakerSpec => []BreakerInv
<1>1. BreakerInit => BreakerInv
  BY DEF BreakerInit, BreakerInv, BreakerTypeOK
<1>2. BreakerInv /\ [BreakerNext]_breakerVars => BreakerInv'
  BY BreakerStep
<1> QED BY <1>1, <1>2, PTL DEF BreakerSpec

(***************************************************************************)
(* Type correctness of the breaker's state.                                *)
(***************************************************************************)
THEOREM BreakerTypeCorrect == BreakerSpec => []BreakerTypeOK
<1>1. BreakerInv => BreakerTypeOK
  BY DEF BreakerInv
<1> QED BY <1>1, BreakerInvHolds, PTL

(***************************************************************************)
(* After FailureThreshold failed requests in a row a wrapper that has a    *)
(* fallback sends no request to the endpoint (callWrapped in fallback.ts)  *)
(* before the cooldown is over.                                            *)
(***************************************************************************)
THEOREM EndpointNotHammered == BreakerSpec => NoHammering
<1>1. BreakerInv /\ [BreakerNext]_breakerVars
        => [hasFallback /\ parity' # parity
              => (streak < FailureThreshold \/ failedAge >= Cooldown)]_breakerVars
  BY BreakerStep
<1> QED BY <1>1, BreakerInvHolds, PTL DEF BreakerSpec, NoHammering

------------------------------------------------------------------------------
(* Consolidation *)

\* The rows of mem_consolidation_queue, what a run takes from them and its state.
Job == [session : FactSession, status : {"pending", "running", "completed"}, seen : SUBSET Src]
Task == [id : Nat, session : FactSession]
RunState == [queue : Seq(Task), todo : SUBSET Src, snap : SUBSET Fact,
             job : Task \cup {Idle.job}, busy : BOOLEAN]

\* A task is a row of the queue, or a session without one; what its row has seen
\* lies within a set.
Names(task, work) ==
    task.id = 0 \/ (task.id \in DOMAIN work /\ work[task.id].session = task.session)
Covered(task, work, set) == task.id # 0 => work[task.id].seen \subseteq set

\* What a run under way still has to extract makes up for what its job has seen
\* and nobody extracted.
JobsInv ==
    /\ arrived \subseteq Src /\ extracted \subseteq arrived
    /\ jobs \in Seq(Job) /\ run \in [Worker -> RunState]
    /\ \A i \in DOMAIN jobs : /\ jobs[i].seen \subseteq arrived
                              /\ \A o \in jobs[i].seen : SessionOf[o] = jobs[i].session
    /\ \A w \in Worker :
          /\ run[w].todo \subseteq arrived
          /\ \A n \in 1..Len(run[w].queue) : Names(run[w].queue[n], jobs)
          /\ run[w].busy => /\ Names(run[w].job, jobs)
                            /\ Covered(run[w].job, jobs, extracted \cup run[w].todo)
    /\ CompletedCovers

\* No set of facts is merged within itself.
NoCircle(into) == \A some \in SUBSET Fact : some # {} => \E f \in some : into[f] \notin some

\* The fact table is sound, and what runs hold are facts of it.
FactsInv ==
    /\ facts \in Seq(Fact) /\ ToSet(facts) \subseteq arrived \X FactKey
    /\ merged \in [Fact -> Fact \cup {NoFact}] /\ by \in [Fact -> Fact \cup {NoFact, Gone}]
    /\ ended \subseteq ToSet(facts)
    /\ \A w \in Worker : run[w].snap \subseteq ToSet(facts)
    /\ NoCircle(merged)

\* The new rows differ from the old in the status of a task's row at most.
Marked(work, task, status, new) ==
    /\ new \in Seq(Job) /\ DOMAIN new = DOMAIN work
    /\ \A i \in DOMAIN work : /\ new[i].session = work[i].session
                              /\ new[i].seen = work[i].seen
                              /\ \/ new[i].status = work[i].status
                                 \/ i = task.id /\ new[i].status = status

\* Setting a status changes neither the session nor what a row has seen.
LEMMA SettingStatus ==
    ASSUME NEW work \in Seq(Job), NEW task, task.id = 0 \/ task.id \in DOMAIN work,
           NEW status \in {"pending", "running", "completed"}
    PROVE  Marked(work, task, status, SetStatus(work, task, status))
<1> DEFINE new == SetStatus(work, task, status)
<1>1. CASE task.id = 0
    BY <1>1 DEF SetStatus, Marked
<1>2. CASE task.id # 0
    <2> DEFINE row == [work[task.id] EXCEPT !.status = status]
    <2>1. task.id \in 1..Len(work) /\ DOMAIN work = 1..Len(work) /\ Len(work) \in Nat
        BY <1>2, LenProperties
    <2>2. work[task.id] \in Job
        BY <2>1, ElementOfSeq
    <2>3. new = [work EXCEPT ![task.id] = row]
        BY <1>2 DEF SetStatus
    <2>4. /\ row \in Job /\ row.session = work[task.id].session
          /\ row.seen = work[task.id].seen /\ row.status = status
        BY <2>2 DEF Job
    <2> HIDE DEF row
    <2>5. new \in Seq(Job) /\ DOMAIN new = DOMAIN work
        BY <2>1, <2>3, <2>4, ExceptSeq
    <2>6. \A i \in DOMAIN work : new[i] = IF i = task.id THEN row ELSE work[i]
        BY <2>1, <2>3
    <2> HIDE DEF new
    <2>7. ASSUME NEW i \in DOMAIN work
          PROVE  /\ new[i].session = work[i].session /\ new[i].seen = work[i].seen
                 /\ \/ new[i].status = work[i].status
                    \/ i = task.id /\ new[i].status = status
        <3>1. CASE i = task.id
            BY <2>4, <2>6, <3>1
        <3>2. CASE i # task.id
            BY <2>6, <3>2
        <3> QED
            BY <3>1, <3>2
    <2> QED
        BY <2>5, <2>7 DEF new, Marked
<1> QED
    BY <1>1, <1>2

\* The next job of a run: it is marked, and all that its session has is to do.
LEMMA TakingJob ==
    ASSUME JobsInv, NEW w \in Worker, NEW work \in Seq(Job), NEW list \in Seq(Task),
           NEW into, facts \in Seq(Fact),
           DOMAIN work = DOMAIN jobs,
           \A i \in DOMAIN jobs : /\ work[i].session = jobs[i].session
                                  /\ work[i].seen = jobs[i].seen
                                  /\ work[i].status = "completed" =>
                                        work[i].seen \subseteq extracted,
           \A n \in 1..Len(list) : Names(list[n], jobs),
           TakeJob(w, work, list, into), UNCHANGED <<arrived, extracted>>
    PROVE  JobsInv'
<1> DEFINE task == Head(list)
           mine == {o \in arrived : SessionOf[o] = task.session}
<1>1. CASE list = <<>>
    <2>1. jobs' = work /\ run' = [run EXCEPT ![w] = Idle]
        BY <1>1 DEF TakeJob
    <2>2. Idle \in RunState /\ Idle.todo = {} /\ Idle.queue = <<>> /\ Len(Idle.queue) = 0
          /\ Idle.busy = FALSE
        BY DEF Idle, RunState
    <2>3. run' \in [Worker -> RunState] /\ run'[w] = Idle
          /\ \A v \in Worker \ {w} : run'[v] = run[v]
        BY <2>1, <2>2 DEF JobsInv
    <2>4. \A v \in Worker :
             /\ run'[v].todo \subseteq arrived
             /\ \A n \in 1..Len(run'[v].queue) : Names(run'[v].queue[n], work)
             /\ run'[v].busy => /\ Names(run'[v].job, work)
                                /\ Covered(run'[v].job, work, extracted \cup run'[v].todo)
        <3> SUFFICES ASSUME NEW v \in Worker
                     PROVE  /\ run'[v].todo \subseteq arrived
                            /\ \A n \in 1..Len(run'[v].queue) : Names(run'[v].queue[n], work)
                            /\ run'[v].busy =>
                                 /\ Names(run'[v].job, work)
                                 /\ Covered(run'[v].job, work, extracted \cup run'[v].todo)
            OBVIOUS
        <3>1. CASE v = w
            BY <2>2, <2>3, <3>1
        <3>2. CASE v # w
            <4>1. run'[v] = run[v]
                BY <2>3, <3>2
            <4>2. ASSUME NEW t, Names(t, jobs) PROVE Names(t, work)
                BY <4>2 DEF Names
            <4>3. ASSUME NEW t, NEW set, Names(t, jobs), Covered(t, jobs, set)
                  PROVE  Covered(t, work, set)
                BY <4>3 DEF Names, Covered
            <4> QED
                BY <4>1, <4>2, <4>3 DEF JobsInv
        <3> QED
            BY <3>1, <3>2
    <2> QED
        BY <2>1, <2>3, <2>4 DEF JobsInv, CompletedCovers
<1>2. CASE list # <<>>
    <2>1. /\ jobs' = SetStatus(work, task, "running")
          /\ run' = [run EXCEPT ![w] = [queue |-> Tail(list), job |-> task, busy |-> TRUE,
                                        snap |-> Active(into), todo |-> mine]]
        BY <1>2 DEF TakeJob
    <2>2. /\ task \in Task /\ task = list[1] /\ 1 \in 1..Len(list)
          /\ Tail(list) \in Seq(Task) /\ Len(Tail(list)) = Len(list) - 1
          /\ \A n \in 1..Len(Tail(list)) : Tail(list)[n] = list[n + 1]
        BY <1>2, HeadTailProperties, LenProperties, ElementOfSeq, EmptySeq
    <2>3. task.id = 0 \/ task.id \in DOMAIN work
        <3>1. Names(list[1], jobs)
            BY <2>2
        <3>2. Names(task, jobs)
            BY <2>2, <3>1
        <3> HIDE DEF task
        <3> QED
            BY <3>2 DEF Names
    <2>4. /\ jobs' \in Seq(Job) /\ DOMAIN jobs' = DOMAIN jobs
          /\ \A i \in DOMAIN jobs :
                /\ jobs'[i].session = jobs[i].session /\ jobs'[i].seen = jobs[i].seen
                /\ jobs'[i].status = work[i].status \/ jobs'[i].status = "running"
        <3>1. Marked(work, task, "running", SetStatus(work, task, "running"))
            BY <2>3, SettingStatus
        <3> HIDE DEF task
        <3> QED
            BY <2>1, <3>1 DEF Marked
    <2>5. Active(into) \in SUBSET Fact
        <3>1. ToSet(facts) \subseteq Fact
            BY LenProperties, ElementOfSeq DEF ToSet
        <3> QED
            BY <3>1 DEF Active
    <2> DEFINE state == [queue |-> Tail(list), job |-> task, busy |-> TRUE,
                         snap |-> Active(into), todo |-> mine]
    <2>6. /\ state \in RunState /\ state.todo = mine /\ state.queue = Tail(list)
          /\ state.job = task
        BY <2>2, <2>5 DEF RunState, JobsInv
    <2>7. run' \in [Worker -> RunState] /\ run'[w] = state
          /\ \A v \in Worker \ {w} : run'[v] = run[v]
        BY <2>1, <2>6 DEF JobsInv
    <2>8. ASSUME NEW t, Names(t, jobs) PROVE Names(t, jobs')
        BY <2>4, <2>8 DEF Names
    <2>9. ASSUME NEW t, NEW set, Names(t, jobs), Covered(t, jobs, set) PROVE Covered(t, jobs', set)
        BY <2>4, <2>9 DEF Names, Covered
    <2>10. Names(task, jobs) /\ Covered(task, jobs, mine)
        <3>1. Names(task, jobs)
            BY <2>2
        <3> QED
            BY <3>1 DEF Names, Covered, JobsInv
    <2>11. \A n \in 1..Len(Tail(list)) : Names(Tail(list)[n], jobs)
        <3>1. \A n \in 1..Len(Tail(list)) : n + 1 \in 1..Len(list)
            BY <2>2, LenProperties
        <3> QED
            BY <2>2, <3>1
    <2> HIDE DEF state, mine, task
    <2>12. ASSUME NEW v \in Worker
           PROVE  /\ run'[v].todo \subseteq arrived
                  /\ \A n \in 1..Len(run'[v].queue) : Names(run'[v].queue[n], jobs')
                  /\ run'[v].busy =>
                       /\ Names(run'[v].job, jobs')
                       /\ Covered(run'[v].job, jobs', extracted \cup run'[v].todo)
        <3>1. CASE v = w
            <4>1. run'[v].todo = mine /\ run'[v].queue = Tail(list) /\ run'[v].job = task
                BY <2>6, <2>7, <3>1
            <4>2. mine \subseteq arrived
                BY DEF mine
            <4>3. Covered(task, jobs, extracted \cup mine)
                BY <2>10 DEF Covered
            <4> QED
                BY <2>8, <2>9, <2>10, <2>11, <4>1, <4>2, <4>3, Zenon
        <3>2. CASE v # w
            <4>1. run'[v] = run[v]
                BY <2>7, <3>2
            <4> QED
                BY <2>8, <2>9, <4>1 DEF JobsInv
        <3> QED
            BY <3>1, <3>2
    <2>13. CompletedCovers'
        BY <2>4 DEF CompletedCovers
    <2>14. \A i \in DOMAIN jobs' : /\ jobs'[i].seen \subseteq arrived
                                   /\ \A o \in jobs'[i].seen : SessionOf[o] = jobs'[i].session
        BY <2>4 DEF JobsInv
    <2>15. arrived' = arrived /\ extracted' = extracted
        OBVIOUS
    <2> QED
        BY <2>4, <2>7, <2>12, <2>13, <2>14, <2>15 DEF JobsInv
<1> QED
    BY <1>1, <1>2

\* Every step of the queue, of a run and of an administrator keeps the promise.
LEMMA JobsStep == JobsInv /\ FactsInv /\ [ConsNext]_consVars => JobsInv'
<1> SUFFICES ASSUME JobsInv, FactsInv, [ConsNext]_consVars PROVE JobsInv'
    OBVIOUS
<1>1. ASSUME UNCHANGED <<arrived, jobs, run, extracted>> PROVE JobsInv'
    BY <1>1 DEF JobsInv, Names, Covered, CompletedCovers
<1>2. ASSUME NEW o \in Src, Observe(o) PROVE JobsInv'
    BY <1>2 DEF Observe, factVars, JobsInv, Names, Covered, CompletedCovers
<1>3. ASSUME NEW s \in FactSession, EnqueueConsolidationJob(s) PROVE JobsInv'
    <2> DEFINE job == [session |-> s, status |-> "pending",
                       seen |-> {o \in arrived : SessionOf[o] = s}]
    <2>1. jobs' = Append(jobs, job) /\ UNCHANGED <<arrived, run, extracted>>
        BY <1>3 DEF EnqueueConsolidationJob, factVars
    <2>2. /\ job \in Job /\ job.session = s /\ job.status = "pending"
          /\ job.seen = {o \in arrived : SessionOf[o] = s}
        BY DEF Job, JobsInv
    <2> HIDE DEF job
    <2>3. /\ jobs \in Seq(Job) /\ Len(jobs) \in Nat /\ DOMAIN jobs = 1..Len(jobs)
        BY LenProperties DEF JobsInv
    <2>4. /\ jobs' \in Seq(Job) /\ Len(jobs') = Len(jobs) + 1
          /\ jobs'[Len(jobs) + 1] = job
          /\ \A i \in 1..Len(jobs) : jobs'[i] = jobs[i]
        BY <2>1, <2>2, <2>3, AppendProperties
    <2>5. DOMAIN jobs' = 1..(Len(jobs) + 1)
        BY <2>4, LenProperties
    <2>6. \A i \in DOMAIN jobs' : i \in DOMAIN jobs \/ jobs'[i] = job
        BY <2>3, <2>4, <2>5
    <2>7. \A i \in DOMAIN jobs : i \in DOMAIN jobs' /\ jobs'[i] = jobs[i]
        BY <2>3, <2>4, <2>5
    <2>8. ASSUME NEW t, Names(t, jobs) PROVE Names(t, jobs')
        BY <2>7, <2>8 DEF Names
    <2>9. ASSUME NEW t, NEW set, Names(t, jobs), Covered(t, jobs, set) PROVE Covered(t, jobs', set)
        BY <2>7, <2>9 DEF Names, Covered
    <2>10. \A i \in DOMAIN jobs' : /\ jobs'[i].seen \subseteq arrived
                                   /\ \A o \in jobs'[i].seen : SessionOf[o] = jobs'[i].session
        BY <2>2, <2>6, <2>7 DEF JobsInv
    <2>11. CompletedCovers'
        BY <2>1, <2>2, <2>6, <2>7 DEF JobsInv, CompletedCovers
    <2>12. \A w \in Worker :
              /\ run[w].todo \subseteq arrived
              /\ \A n \in 1..Len(run[w].queue) : Names(run[w].queue[n], jobs')
              /\ run[w].busy => /\ Names(run[w].job, jobs')
                                /\ Covered(run[w].job, jobs', extracted \cup run[w].todo)
        BY <2>8, <2>9 DEF JobsInv
    <2> QED
        BY <2>1, <2>4, <2>10, <2>11, <2>12 DEF JobsInv
<1>4. ASSUME NEW w \in Worker, StartRun(w) PROVE JobsInv'
    <2>1. PICK list \in LoadPendingJobs(JobLimit[w]) : TakeJob(w, jobs, list, merged)
        BY <1>4 DEF StartRun
    <2>2. list \in Seq(Task) /\ \A n \in 1..Len(list) : Names(list[n], jobs)
        <3> DEFINE pending == {i \in DOMAIN jobs : jobs[i].status = "pending"}
                   work == IF pending # {}
                           THEN {[id |-> i, session |-> jobs[i].session] : i \in pending}
                           ELSE {[id |-> 0, session |-> SessionOf[o]] : o \in arrived}
        <3>1. list \in UNION {[1..m -> work] : m \in 0..JobLimit[w]}
            BY <2>1 DEF LoadPendingJobs, SeqOf
        <3>2. \A t \in work : t \in Task /\ Names(t, jobs)
            <4>1. CASE pending # {}
                <5>1. \A i \in pending : i \in Nat /\ jobs[i].session \in FactSession
                    <6>1. jobs \in Seq(Job) /\ Len(jobs) \in Nat /\ DOMAIN jobs = 1..Len(jobs)
                        BY LenProperties DEF JobsInv
                    <6>2. \A i \in DOMAIN jobs : jobs[i] \in Job
                        BY <6>1, ElementOfSeq
                    <6> QED
                        BY <6>1, <6>2 DEF Job
                <5>2. work = {[id |-> i, session |-> jobs[i].session] : i \in pending}
                    BY <4>1
                <5>3. ASSUME NEW i \in pending, NEW t, t = [id |-> i, session |-> jobs[i].session]
                      PROVE  t \in Task /\ Names(t, jobs)
                    <6>1. t.id = i /\ t.session = jobs[i].session /\ i \in DOMAIN jobs
                        BY <5>3
                    <6>2. t \in Task
                        BY <5>1, <5>3 DEF Task
                    <6> QED
                        BY <6>1, <6>2 DEF Names
                <5> HIDE DEF work
                <5> QED
                    BY <5>2, <5>3
            <4>2. CASE pending = {}
                BY <4>2 DEF Task, Names, FactSession, JobsInv
            <4> QED
                BY <4>1, <4>2
        <3> HIDE DEF work
        <3>3. PICK m \in 0..JobLimit[w] : list \in [1..m -> work]
            BY <3>1
        <3>4. m \in Nat
            BY ConsolidationAssumption
        <3>5. list \in [1..m -> Task] /\ \A n \in 1..m : Names(list[n], jobs)
            BY <3>2, <3>3
        <3>6. list \in Seq(Task)
            BY <3>4, <3>5
        <3>7. Len(list) = m
            BY <3>4, <3>5, <3>6, LenProperties
        <3> QED
            BY <3>5, <3>6, <3>7
    <2>3. /\ jobs \in Seq(Job) /\ facts \in Seq(Fact)
          /\ \A i \in DOMAIN jobs : jobs[i].status = "completed" => jobs[i].seen \subseteq extracted
        BY DEF JobsInv, FactsInv, CompletedCovers
    <2>4. UNCHANGED <<arrived, extracted>>
        BY <1>4 DEF StartRun, factVars
    <2> QED
        BY <2>1, <2>2, <2>3, <2>4, TakingJob
<1>5. ASSUME NEW w \in Worker, Answer(w) PROVE JobsInv'
    <2>1. PICK a \in Answers(run[w].snap) : Extract(w, a)
        BY <1>5 DEF Answer
    <2>2. PICK o \in run[w].todo :
             /\ extracted' = extracted \cup {o}
             /\ run' = [run EXCEPT ![w].todo = @ \ {o},
                                   ![w].snap = (@ \ a.old) \cup {<<o, k>> : k \in a.new}]
        BY <2>1 DEF Extract
    <2>3. UNCHANGED <<arrived, jobs>>
        BY <2>1 DEF Extract
    <2>4. o \in arrived /\ o \in Src
        BY DEF JobsInv
    <2> DEFINE shown == (run[w].snap \ a.old) \cup {<<o, k>> : k \in a.new}
               state == [run[w] EXCEPT !.todo = run[w].todo \ {o}, !.snap = shown]
    <2>5. run[w] \in RunState
        BY DEF JobsInv
    <2>6. shown \in SUBSET Fact
        <3>1. run[w].snap \subseteq Fact
            BY <2>5 DEF RunState
        <3>2. \A k \in a.new : <<o, k>> \in Fact
            BY <2>1, <2>4 DEF Answers, Fact
        <3> QED
            BY <3>1, <3>2
    <2> HIDE DEF shown
    <2>7. /\ state \in RunState /\ state.todo = run[w].todo \ {o}
          /\ state.queue = run[w].queue /\ state.job = run[w].job /\ state.busy = run[w].busy
        BY <2>5, <2>6 DEF RunState
    <2>8. run' = [run EXCEPT ![w] = state]
        BY <2>2 DEF shown
    <2> HIDE DEF state
    <2>9. run' \in [Worker -> RunState] /\ run'[w] = state
          /\ \A v \in Worker \ {w} : run'[v] = run[v]
        BY <2>7, <2>8 DEF JobsInv
    <2>10. ASSUME NEW v \in Worker
           PROVE  /\ run'[v].todo \subseteq arrived
                  /\ \A n \in 1..Len(run'[v].queue) : Names(run'[v].queue[n], jobs)
                  /\ run'[v].busy =>
                       /\ Names(run'[v].job, jobs)
                       /\ Covered(run'[v].job, jobs, extracted' \cup run'[v].todo)
        <3>1. CASE v = w
            <4>1. extracted \cup run[w].todo \subseteq extracted' \cup state.todo
                BY <2>2, <2>7
            <4>2. run'[v] = state
                BY <2>9, <3>1
            <4>3. ASSUME run[w].busy
                  PROVE  Covered(run[w].job, jobs, extracted' \cup state.todo)
                BY <4>1, <4>3 DEF JobsInv, Covered
            <4>4. /\ run[w].todo \subseteq arrived
                  /\ \A n \in 1..Len(run[w].queue) : Names(run[w].queue[n], jobs)
                  /\ run[w].busy => Names(run[w].job, jobs)
                BY DEF JobsInv
            <4> QED
                BY <2>7, <4>2, <4>3, <4>4
        <3>2. CASE v # w
            <4>1. run'[v] = run[v]
                BY <2>9, <3>2
            <4> QED
                BY <2>2, <4>1 DEF JobsInv, Covered
        <3> QED
            BY <3>1, <3>2
    <2>11. CompletedCovers'
        BY <2>2, <2>3 DEF JobsInv, CompletedCovers
    <2>12. /\ arrived' \subseteq Src /\ extracted' \subseteq arrived'
           /\ jobs' \in Seq(Job) /\ run' \in [Worker -> RunState]
           /\ \A i \in DOMAIN jobs' : /\ jobs'[i].seen \subseteq arrived'
                                      /\ \A p \in jobs'[i].seen : SessionOf[p] = jobs'[i].session
        BY <2>2, <2>3, <2>4, <2>9 DEF JobsInv
    <2>13. \A v \in Worker :
              /\ run'[v].todo \subseteq arrived'
              /\ \A n \in 1..Len(run'[v].queue) : Names(run'[v].queue[n], jobs')
              /\ run'[v].busy => /\ Names(run'[v].job, jobs')
                                 /\ Covered(run'[v].job, jobs', extracted' \cup run'[v].todo)
        BY <2>3, <2>10 DEF Names, Covered
    <2> QED
        BY <2>11, <2>12, <2>13 DEF JobsInv, Names, Covered
<1>6. ASSUME NEW w \in Worker, FinishJob(w) PROVE JobsInv'
    <2> DEFINE work == SetStatus(jobs, run[w].job, "completed")
    <2>1. /\ TakeJob(w, work, run[w].queue, merged') /\ UNCHANGED <<arrived, extracted>>
          /\ run[w].busy /\ run[w].todo = {}
        BY <1>6 DEF FinishJob
    <2>2. /\ Names(run[w].job, jobs) /\ Covered(run[w].job, jobs, extracted)
          /\ run[w].queue \in Seq(Task) /\ jobs \in Seq(Job)
          /\ \A n \in 1..Len(run[w].queue) : Names(run[w].queue[n], jobs)
        BY <2>1 DEF JobsInv, RunState
    <2>3. run[w].job.id = 0 \/ run[w].job.id \in DOMAIN jobs
        BY <2>2 DEF Names
    <2>4. Marked(jobs, run[w].job, "completed", work)
        BY <2>2, <2>3, SettingStatus
    <2> HIDE DEF work
    <2>5. \A i \in DOMAIN jobs : work[i].status = "completed" => work[i].seen \subseteq extracted
        BY <2>2, <2>4, LenProperties DEF JobsInv, CompletedCovers, Covered, Marked
    <2>6. facts \in Seq(Fact)
        BY DEF FactsInv
    <2>7. /\ work \in Seq(Job) /\ DOMAIN work = DOMAIN jobs
          /\ \A i \in DOMAIN jobs : /\ work[i].session = jobs[i].session
                                    /\ work[i].seen = jobs[i].seen
        BY <2>4 DEF Marked
    <2> QED
        BY <2>1, <2>2, <2>5, <2>6, <2>7, TakingJob
<1>7. CASE CompressMerge \/ CompressPrune
    BY <1>1, <1>7 DEF CompressMerge, CompressPrune
<1>8. CASE ConsCrash
    <2>1. run' = [w \in Worker |-> Idle] /\ UNCHANGED <<arrived, jobs, extracted>>
        BY <1>8 DEF ConsCrash, factVars
    <2>2. Idle \in RunState /\ Idle.todo = {} /\ Idle.queue = <<>> /\ Len(Idle.queue) = 0
          /\ Idle.busy = FALSE
        BY DEF Idle, RunState
    <2> QED
        BY <2>1, <2>2 DEF JobsInv, CompletedCovers
<1>9. ASSUME NEW w \in Worker, NEW s \in FactSession, StartRunFor(w, s) PROVE JobsInv'
    <2> DEFINE list == <<[id |-> 0, session |-> s]>>
    <2>1. TakeJob(w, jobs, list, merged) /\ UNCHANGED <<arrived, extracted>>
        BY <1>9 DEF StartRunFor, factVars
    <2>2. list \in Seq(Task) /\ \A n \in 1..Len(list) : Names(list[n], jobs)
        BY DEF Task, Names
    <2>3. /\ jobs \in Seq(Job) /\ facts \in Seq(Fact)
          /\ \A i \in DOMAIN jobs : jobs[i].status = "completed" => jobs[i].seen \subseteq extracted
        BY DEF JobsInv, FactsInv, CompletedCovers
    <2> HIDE DEF list
    <2> QED
        BY <2>1, <2>2, <2>3, TakingJob
<1> QED
    BY <1>1, <1>2, <1>3, <1>4, <1>5, <1>6, <1>7, <1>8, <1>9 DEF ConsNext, consVars, factVars

\* Merging facts into facts that are merged into none closes no circle.
LEMMA MergingIntoActive ==
    ASSUME NEW old, NEW new, NoCircle(old),
           \A f \in Fact : new[f] = old[f] \/ (new[f] \in Fact => new[new[f]] \notin Fact)
    PROVE  NoCircle(new)
<1> SUFFICES ASSUME NEW some \in SUBSET Fact, some # {}, \A f \in some : new[f] \in some
             PROVE  FALSE
    BY DEF NoCircle
<1>1. \A f \in some : new[f] = old[f]
    <2> SUFFICES ASSUME NEW f \in some, new[f] # old[f] PROVE FALSE
        OBVIOUS
    <2>1. f \in Fact /\ new[f] \in some /\ new[f] \in Fact /\ new[new[f]] \in some
        OBVIOUS
    <2>2. new[new[f]] \in Fact
        BY <2>1
    <2> QED
        BY <2>1, <2>2
<1> QED
    BY <1>1 DEF NoCircle

\* A fact goes into the first similar one, which dedupe leaves alone.
LEMMA Deduping ==
    ASSUME facts \in Seq(Fact), merged \in [Fact -> Fact \cup {NoFact}], NoCircle(merged),
           NEW read, read \subseteq Fact, \A f \in read : merged[f] = NoFact
    PROVE  /\ DedupeFacts(read) \in [Fact -> Fact \cup {NoFact}]
           /\ NoCircle(DedupeFacts(read))
<1> DEFINE before(f) == {i \in DOMAIN facts : /\ facts[i] \in read /\ facts[i][2] = f[2]
                                             /\ \A j \in 1..i : facts[j] # f}
           first(f) == CHOOSE i \in before(f) : \A j \in before(f) : i <= j
           new == DedupeFacts(read)
<1>1. /\ Len(facts) \in Nat /\ DOMAIN facts = 1..Len(facts)
      /\ \A i \in DOMAIN facts : facts[i] \in Fact
    BY LenProperties, ElementOfSeq
<1>2. ASSUME NEW f \in Fact, before(f) # {}
      PROVE  first(f) \in before(f) /\ \A j \in before(f) : first(f) <= j
    <2> DEFINE set == before(f)
    <2>1. set \in SUBSET Nat
        BY <1>1
    <2> HIDE DEF set
    <2>2. \E m \in set : \A n \in set : m <= n
        BY <1>2, <2>1, LeastExists DEF set
    <2> QED
        BY <2>2 DEF set
<1>3. new = [f \in Fact |-> IF f \notin read \/ before(f) = {} THEN merged[f]
                             ELSE facts[first(f)]]
    BY DEF DedupeFacts
<1> HIDE DEF first, new
<1>4. ASSUME NEW f \in Fact
      PROVE  \/ new[f] = merged[f]
             \/ f \in read /\ before(f) # {} /\ new[f] = facts[first(f)]
    BY <1>3
<1>5. ASSUME NEW f \in Fact, f \in read, before(f) # {}, new[f] = facts[first(f)]
      PROVE  new[f] \in Fact /\ new[new[f]] = NoFact
    <2> DEFINE i == first(f)
               g == facts[i]
    <2>1. i \in DOMAIN facts /\ g \in read /\ g[2] = f[2] /\ \A j \in 1..i : facts[j] # f
        BY <1>2, <1>5
    <2>2. g \in Fact /\ i \in Nat
        BY <1>1, <2>1
    <2>3. ASSUME NEW n \in before(g) PROVE FALSE
        <3>1. /\ n \in 1..Len(facts) /\ facts[n] \in read /\ facts[n][2] = g[2]
              /\ \A j \in 1..n : facts[j] # g
            BY <1>1, <2>3
        <3>2. i \in 1..Len(facts)
            BY <1>1, <2>1
        <3>3. ~(i <= n)
            BY <3>1, <3>2
        <3>4. n < i
            BY <1>1, <3>1, <3>2, <3>3
        <3>5. \A j \in 1..n : j \in 1..i
            BY <1>1, <3>1, <3>2, <3>4
        <3>6. n \in before(f)
            BY <1>1, <2>1, <3>1, <3>5
        <3>7. i <= n
            BY <1>2, <1>5, <3>6
        <3> QED
            BY <3>3, <3>7
    <2>4. new[g] = merged[g]
        BY <1>3, <2>2, <2>3
    <2> QED
        BY <1>5, <2>1, <2>2, <2>4
<1>6. \A f \in Fact : new[f] = merged[f] \/ (new[f] \in Fact => new[new[f]] \notin Fact)
    BY <1>4, <1>5, ConsolidationAssumption
<1>7. new \in [Fact -> Fact \cup {NoFact}]
    <2>1. \A f \in Fact : new[f] \in Fact \cup {NoFact}
        BY <1>4, <1>5
    <2> QED
        BY <1>3, <2>1
<1>8. NoCircle(new)
    BY <1>6, MergingIntoActive
<1> QED
    BY <1>7, <1>8 DEF new

\* compressMemory merges into the last active fact of a key, which stays active.
LEMMA Compressing ==
    ASSUME facts \in Seq(Fact), merged \in [Fact -> Fact \cup {NoFact}], NoCircle(merged),
           CompressMerge
    PROVE  merged' \in [Fact -> Fact \cup {NoFact}] /\ NoCircle(merged')
<1> DEFINE live == Active(merged)
           work(k) == {i \in DOMAIN facts : facts[i] \in live /\ facts[i][2] = k}
           last(k) == CHOOSE i \in DOMAIN facts :
                         /\ facts[i] \in live /\ facts[i][2] = k
                         /\ \A j \in DOMAIN facts :
                                facts[j] \in live /\ facts[j][2] = k => j <= i
           newer(k) == facts[last(k)]
<1>1. /\ Len(facts) \in Nat /\ DOMAIN facts = 1..Len(facts)
      /\ \A i \in DOMAIN facts : facts[i] \in Fact
    BY LenProperties, ElementOfSeq
<1>2. /\ live \subseteq Fact /\ \A f \in live : merged[f] = NoFact
      /\ \A f \in live : \E i \in DOMAIN facts : facts[i] = f
    BY <1>1 DEF Active, ToSet
<1>3. merged' = [f \in Fact |-> IF f \in live /\ f # newer(f[2]) THEN newer(f[2])
                                ELSE merged[f]]
    BY DEF CompressMerge
<1> HIDE DEF live
<1>4. ASSUME NEW f \in live
      PROVE  newer(f[2]) \in live /\ newer(f[2])[2] = f[2]
    <2> DEFINE k == f[2]
               set == work(k)
    <2>1. set \in SUBSET Nat /\ (\A n \in set : n <= Len(facts)) /\ set # {}
        BY <1>1, <1>2
    <2> HIDE DEF k
    <2>2. \A i \in set : i \in DOMAIN facts /\ facts[i] \in live /\ facts[i][2] = k
        OBVIOUS
    <2>3. \A j \in DOMAIN facts : facts[j] \in live /\ facts[j][2] = k => j \in set
        OBVIOUS
    <2> HIDE DEF set
    <2>4. \E m \in set : \A n \in set : n <= m
        BY <1>1, <2>1, GreatestExists
    <2>5. \E i \in DOMAIN facts :
             /\ facts[i] \in live /\ facts[i][2] = k
             /\ \A j \in DOMAIN facts : facts[j] \in live /\ facts[j][2] = k => j <= i
        BY <2>2, <2>3, <2>4
    <2>6. facts[last(k)] \in live /\ facts[last(k)][2] = k
        BY <2>5
    <2> QED
        BY <2>6 DEF k
<1> HIDE DEF newer
<1>5. ASSUME NEW f \in Fact, merged'[f] # merged[f]
      PROVE  merged'[f] \in Fact /\ merged'[merged'[f]] = NoFact
    <2> DEFINE g == newer(f[2])
    <2>1. f \in live /\ merged'[f] = g
        BY <1>3, <1>5
    <2>2. g \in live /\ g[2] = f[2] /\ g \in Fact /\ merged[g] = NoFact
        BY <1>2, <1>4, <2>1
    <2>3. g = newer(g[2])
        BY <2>2
    <2> HIDE DEF g
    <2>4. merged'[g] = merged[g]
        BY <1>3, <2>2, <2>3
    <2> QED
        BY <2>1, <2>2, <2>4
<1>6. \A f \in Fact : \/ merged'[f] = merged[f]
                      \/ merged'[f] \in Fact => merged'[merged'[f]] \notin Fact
    BY <1>5, ConsolidationAssumption
<1>7. merged' \in [Fact -> Fact \cup {NoFact}]
    <2>1. \A f \in Fact : merged'[f] \in Fact \cup {NoFact}
        BY <1>5
    <2> QED
        BY <1>3, <2>1
<1> QED
    BY <1>6, <1>7, MergingIntoActive

\* A run that takes a job is shown facts of the table.
LEMMA ShownFacts ==
    ASSUME JobsInv, \A v \in Worker : run[v].snap \subseteq ToSet(facts), NEW w \in Worker,
           NEW work, NEW queue, NEW into, TakeJob(w, work, queue, into), facts' = facts
    PROVE  \A v \in Worker : run'[v].snap \subseteq ToSet(facts')
<1>1. PICK state : run' = [run EXCEPT ![w] = state] /\ state.snap \subseteq ToSet(facts)
    <2>1. CASE queue = <<>>
        BY <2>1 DEF TakeJob, Idle
    <2>2. CASE queue # <<>>
        BY <2>2 DEF TakeJob, Active
    <2> QED
        BY <2>1, <2>2
<1> QED
    BY <1>1 DEF JobsInv

\* No step makes the merges run in a circle or leaves anything without its fact.
LEMMA FactsStep == JobsInv /\ FactsInv /\ [ConsNext]_consVars => FactsInv'
<1> SUFFICES ASSUME JobsInv, FactsInv, [ConsNext]_consVars PROVE FactsInv'
    OBVIOUS
<1>1. ASSUME UNCHANGED <<arrived, run, factVars>> PROVE FactsInv'
    BY <1>1 DEF FactsInv, factVars, NoCircle
<1>2. ASSUME NEW o \in Src, Observe(o) PROVE FactsInv'
    BY <1>2 DEF Observe, FactsInv, factVars, NoCircle
<1>3. ASSUME UNCHANGED <<arrived, factVars>>,
             \A v \in Worker : run'[v].snap \subseteq ToSet(facts')
      PROVE  FactsInv'
    BY <1>3 DEF FactsInv, factVars, NoCircle
<1>4. ASSUME NEW w \in Worker, StartRun(w) PROVE FactsInv'
    <2>1. PICK list \in LoadPendingJobs(JobLimit[w]) : TakeJob(w, jobs, list, merged)
        BY <1>4 DEF StartRun
    <2>2. UNCHANGED <<arrived, factVars>> /\ facts' = facts
        BY <1>4 DEF StartRun, factVars
    <2>3. \A v \in Worker : run[v].snap \subseteq ToSet(facts)
        BY DEF FactsInv
    <2> QED
        BY <1>3, <2>1, <2>2, <2>3, ShownFacts
<1>5. ASSUME NEW w \in Worker, Answer(w) PROVE FactsInv'
    <2>1. PICK a \in Answers(run[w].snap) : Extract(w, a)
        BY <1>5 DEF Answer
    <2> DEFINE ids(o) == {<<o, k>> : k \in a.new}
               heir(o) == IF ids(o) = {} THEN Gone ELSE CHOOSE f \in ids(o) : TRUE
               hit(o) == {f \in a.old \ {heir(o)} : by[f] = NoFact}
    <2>2. PICK o \in run[w].todo :
             /\ facts' = IF ids(o) \subseteq ToSet(facts) THEN facts ELSE Append(facts, heir(o))
             /\ by' = [f \in Fact |-> IF f \in hit(o) THEN heir(o) ELSE by[f]]
             /\ ended' = ended \cup hit(o)
             /\ run' = [run EXCEPT ![w].todo = @ \ {o},
                                   ![w].snap = (@ \ a.old) \cup ids(o)]
        BY <2>1 DEF Extract
    <2>3. arrived' = arrived /\ merged' = merged
        BY <2>1 DEF Extract
    <2>4. o \in arrived /\ o \in Src
        BY DEF JobsInv
    <2>5. /\ ids(o) \subseteq arrived \X FactKey /\ ids(o) \subseteq Fact
          /\ ids(o) = {} \/ ids(o) = {heir(o)}
        BY <2>1, <2>4 DEF Answers, Fact
    <2>6. heir(o) \in Fact \cup {Gone} /\ (ids(o) # {} => heir(o) \in Fact)
        BY <2>5
    <2>7. a.old \subseteq run[w].snap
        BY <2>1 DEF Answers
    <2> DEFINE new == ids(o)
               last == heir(o)
               found == hit(o)
    <2>8. found \subseteq ToSet(facts)
        BY <2>7 DEF FactsInv
    <2>9. /\ facts' = IF new \subseteq ToSet(facts) THEN facts ELSE Append(facts, last)
          /\ by' = [f \in Fact |-> IF f \in found THEN last ELSE by[f]]
          /\ ended' = ended \cup found
          /\ run' = [run EXCEPT ![w] = [run[w] EXCEPT !.todo = run[w].todo \ {o},
                                                      !.snap = (run[w].snap \ a.old) \cup new]]
        BY <2>2
    <2> HIDE DEF new, last, found
    <2>10. /\ new \subseteq arrived \X FactKey /\ new \subseteq Fact /\ (new = {} \/ new = {last})
           /\ last \in Fact \cup {Gone}
        BY <2>5, <2>6 DEF new, last
    <2>11. /\ facts' \in Seq(Fact)
           /\ ToSet(facts') = ToSet(facts) \cup new
        <3>1. CASE new \subseteq ToSet(facts)
            BY <2>9, <3>1 DEF FactsInv
        <3>2. CASE ~(new \subseteq ToSet(facts))
            <4>1. facts' = Append(facts, last) /\ new = {last} /\ last \in Fact
                BY <2>9, <2>10, <3>2
            <4>2. /\ facts \in Seq(Fact) /\ Len(facts) \in Nat /\ DOMAIN facts = 1..Len(facts)
                BY LenProperties DEF FactsInv
            <4>3. /\ facts' \in Seq(Fact) /\ Len(facts') = Len(facts) + 1
                  /\ facts'[Len(facts) + 1] = last
                  /\ \A i \in 1..Len(facts) : facts'[i] = facts[i]
                BY <4>1, <4>2, AppendProperties
            <4>4. DOMAIN facts' = 1..(Len(facts) + 1)
                BY <4>3, LenProperties
            <4>5. \A x : x \in ToSet(facts') <=> x \in ToSet(facts) \cup new
                BY <4>1, <4>2, <4>3, <4>4 DEF ToSet
            <4> QED
                BY <4>3, <4>5
        <3> QED
            BY <3>1, <3>2
    <2>12. by' \in [Fact -> Fact \cup {NoFact, Gone}]
        BY <2>9, <2>10 DEF FactsInv
    <2>13. ASSUME NEW v \in Worker PROVE run'[v].snap \subseteq ToSet(facts')
        <3>1. run \in [Worker -> RunState]
            BY DEF JobsInv
        <3>2. CASE v = w
            <4>1. run[w] \in RunState
                BY <3>1
            <4>2. run'[v] = [run[w] EXCEPT !.todo = run[w].todo \ {o},
                                           !.snap = (run[w].snap \ a.old) \cup new]
                BY <2>9, <3>1, <3>2
            <4>3. run'[v].snap = (run[w].snap \ a.old) \cup new
                BY <4>1, <4>2 DEF RunState
            <4> QED
                BY <2>11, <4>3 DEF FactsInv
        <3>3. CASE v # w
            <4>1. run'[v] = run[v]
                BY <2>9, <3>1, <3>3
            <4> QED
                BY <2>11, <4>1 DEF FactsInv
        <3> QED
            BY <3>2, <3>3
    <2>14. ended' \subseteq ToSet(facts') /\ ToSet(facts') \subseteq arrived' \X FactKey
        BY <2>3, <2>8, <2>9, <2>10, <2>11 DEF FactsInv
    <2>15. merged' \in [Fact -> Fact \cup {NoFact}] /\ NoCircle(merged')
        BY <2>3 DEF FactsInv
    <2> QED
        BY <2>11, <2>12, <2>13, <2>14, <2>15 DEF FactsInv
<1>6. ASSUME NEW w \in Worker, FinishJob(w) PROVE FactsInv'
    <2> DEFINE read == {f \in ToSet(facts) : /\ SessionOf[f[1]] = run[w].job.session
                                             /\ merged[f] = NoFact}
    <2>1. /\ merged' = DedupeFacts(read)
          /\ UNCHANGED <<arrived, facts, by, ended>>
        BY <1>6 DEF FinishJob, DedupeSessionFacts
    <2>2. read \subseteq Fact /\ \A f \in read : merged[f] = NoFact
        BY DEF FactsInv, Fact, JobsInv
    <2> HIDE DEF read
    <2>3. facts \in Seq(Fact) /\ merged \in [Fact -> Fact \cup {NoFact}] /\ NoCircle(merged)
        BY DEF FactsInv
    <2>4. merged' \in [Fact -> Fact \cup {NoFact}] /\ NoCircle(merged')
        BY <2>1, <2>2, <2>3, Deduping
    <2>5. \A v \in Worker : run[v].snap \subseteq ToSet(facts)
        BY DEF FactsInv
    <2>6. TakeJob(w, SetStatus(jobs, run[w].job, "completed"), run[w].queue, merged')
        BY <1>6 DEF FinishJob
    <2>7. \A v \in Worker : run'[v].snap \subseteq ToSet(facts')
        BY <2>1, <2>5, <2>6, ShownFacts
    <2> QED
        BY <2>1, <2>4, <2>7 DEF FactsInv
<1>7. CASE CompressMerge
    <2>1. UNCHANGED <<arrived, facts, by, ended, run>>
        BY <1>7 DEF CompressMerge
    <2>2. facts \in Seq(Fact) /\ merged \in [Fact -> Fact \cup {NoFact}] /\ NoCircle(merged)
        BY DEF FactsInv
    <2>3. merged' \in [Fact -> Fact \cup {NoFact}] /\ NoCircle(merged')
        BY <1>7, <2>2, Compressing
    <2> QED
        BY <2>1, <2>3 DEF FactsInv
<1>8. CASE CompressPrune
    BY <1>8 DEF CompressPrune, Active, FactsInv, NoCircle
<1>9. CASE ConsCrash
    <2>1. run' = [w \in Worker |-> Idle] /\ UNCHANGED <<arrived, factVars>>
        BY <1>9 DEF ConsCrash
    <2> QED
        BY <1>3, <2>1 DEF Idle
<1>10. ASSUME NEW s \in FactSession, EnqueueConsolidationJob(s) PROVE FactsInv'
    BY <1>1, <1>10 DEF EnqueueConsolidationJob
<1>11. ASSUME NEW w \in Worker, NEW s \in FactSession, StartRunFor(w, s) PROVE FactsInv'
    <2>1. PICK list : TakeJob(w, jobs, list, merged)
        BY <1>11 DEF StartRunFor
    <2>2. UNCHANGED <<arrived, factVars>> /\ facts' = facts
        BY <1>11 DEF StartRunFor, factVars
    <2>3. \A v \in Worker : run[v].snap \subseteq ToSet(facts)
        BY DEF FactsInv
    <2> QED
        BY <1>3, <2>1, <2>2, <2>3, ShownFacts
<1> QED
    BY <1>1, <1>2, <1>4, <1>5, <1>6, <1>7, <1>8, <1>9, <1>10, <1>11 DEF ConsNext, consVars, factVars

\* At the start nothing has happened.
LEMMA ConsStart == ConsInit => JobsInv /\ FactsInv
<1> SUFFICES ASSUME ConsInit PROVE JobsInv /\ FactsInv
    OBVIOUS
<1>1. Idle \in RunState /\ Idle.todo = {} /\ Idle.snap = {} /\ Idle.busy = FALSE
      /\ Len(Idle.queue) = 0
    BY DEF Idle, RunState
<1>2. <<>> \in Seq(Job) /\ <<>> \in Seq(Fact) /\ DOMAIN <<>> = {}
    OBVIOUS
<1>3. JobsInv
    <2>1. jobs = <<>> /\ run = [w \in Worker |-> Idle] /\ arrived = {} /\ extracted = {}
        BY DEF ConsInit
    <2>2. \A w \in Worker : run[w] = Idle
        BY <2>1
    <2>3. run \in [Worker -> RunState]
        BY <1>1, <2>1
    <2>4. jobs \in Seq(Job) /\ DOMAIN jobs = {}
        BY <1>2, <2>1
    <2> QED
        BY <1>1, <2>1, <2>2, <2>3, <2>4 DEF JobsInv, CompletedCovers
<1>4. NoCircle(merged)
    BY ConsolidationAssumption DEF ConsInit, NoCircle
<1>5. ToSet(facts) = {}
    BY <1>2 DEF ConsInit, ToSet
<1>6. FactsInv
    <2>1. facts = <<>> /\ ended = {} /\ run = [w \in Worker |-> Idle]
        BY DEF ConsInit
    <2>2. \A w \in Worker : run[w].snap = {}
        BY <1>1, <2>1
    <2>3. facts \in Seq(Fact) /\ merged \in [Fact -> Fact \cup {NoFact}]
          /\ by \in [Fact -> Fact \cup {NoFact, Gone}]
        BY <1>2, <2>1 DEF ConsInit
    <2> QED
        BY <1>4, <1>5, <2>1, <2>2, <2>3 DEF FactsInv
<1> QED
    BY <1>3, <1>6

\* Both invariants hold in every state.
LEMMA ConsolidationKept == ConsSpec => [](JobsInv /\ FactsInv)
BY ConsStart, JobsStep, FactsStep, PTL DEF ConsSpec

\* A completed job has seen nothing that was not extracted (runConsolidationOnce
\* with overlapping runs, each taking the same pending jobs, and crashes).
THEOREM CompletedMeansExtracted == ConsSpec => []CompletedCovers
<1>1. JobsInv => CompletedCovers
    BY DEF JobsInv
<1> QED
    BY <1>1, ConsolidationKept, PTL

\* The fact table stays sound and its merges end, through every mix of dedupe
\* runs and compressMemory calls (dedupeFacts, compressMemory).
THEOREM MergesAlwaysEnd == ConsSpec => []FactsSound
<1>1. JobsInv /\ FactsInv => ConsTypeOK
    <2> SUFFICES ASSUME JobsInv, FactsInv PROVE ConsTypeOK
        OBVIOUS
    <2>1. \A i \in DOMAIN jobs : jobs[i] \in Job
        BY LenProperties, ElementOfSeq DEF JobsInv
    <2>2. \A w \in Worker : run[w].busy \in BOOLEAN /\ run[w].todo \subseteq arrived
        BY DEF JobsInv, RunState
    <2> QED
        BY <2>1, <2>2 DEF ConsTypeOK, JobsInv, FactsInv, Job
<1>2. JobsInv /\ FactsInv => MergesEnd
    <2>1. JobsInv /\ FactsInv => ToSet(facts) \subseteq Fact
        BY DEF JobsInv, FactsInv, Fact
    <2> QED
        BY <2>1 DEF FactsInv, NoCircle, MergesEnd
<1> QED
    BY <1>1, <1>2, ConsolidationKept, PTL DEF FactsSound

------------------------------------------------------------------------------
(* Sessions *)

\* A sequence, of whatever elements.
IsSeq(s) == s \in Seq({s[i] : i \in 1..Len(s)})

\* What is appended to the store comes after all that was there.
LEMMA Appending ==
    ASSUME NEW old, NEW new, IsSeq(old), IsSeq(new)
    PROVE  /\ IsSeq(old \o new)
           /\ \A i \in DOMAIN (old \o new) \ DOMAIN old :
                 \E j \in 1..Len(new) : (old \o new)[i] = new[j]
           /\ \A i \in 1..Len(old) : (old \o new)[i] = old[i]
<1> DEFINE both == old \o new
           set == {old[i] : i \in 1..Len(old)} \cup {new[i] : i \in 1..Len(new)}
<1>1. old \in Seq(set) /\ new \in Seq(set)
    <2>1. \A i \in 1..Len(old) : old[i] \in set
        OBVIOUS
    <2>2. \A i \in 1..Len(new) : new[i] \in set
        OBVIOUS
    <2> HIDE DEF set
    <2>3. Len(old) \in Nat /\ Len(new) \in Nat
        BY LenProperties DEF IsSeq
    <2>4. old = [i \in 1..Len(old) |-> old[i]] /\ new = [i \in 1..Len(new) |-> new[i]]
        BY LenProperties DEF IsSeq
    <2> QED
        BY <2>1, <2>2, <2>3, <2>4
<1> HIDE DEF set
<1>2. /\ both \in Seq(set) /\ Len(both) = Len(old) + Len(new)
      /\ \A i \in 1..Len(both) :
            both[i] = IF i <= Len(old) THEN old[i] ELSE new[i - Len(old)]
    BY <1>1, ConcatProperties
<1>3. /\ Len(old) \in Nat /\ Len(new) \in Nat
      /\ DOMAIN old = 1..Len(old) /\ DOMAIN both = 1..Len(both)
    BY <1>1, <1>2, LenProperties
<1> HIDE DEF both
<1>4. IsSeq(both)
    <2>1. both = [i \in 1..Len(both) |-> both[i]] /\ Len(both) \in Nat
        BY <1>2, LenProperties
    <2> QED
        BY <2>1 DEF IsSeq
<1>5. ASSUME NEW i \in DOMAIN both \ DOMAIN old
      PROVE  \E j \in 1..Len(new) : both[i] = new[j]
    <2>1. i - Len(old) \in 1..Len(new) /\ both[i] = new[i - Len(old)]
        BY <1>2, <1>3
    <2> QED
        BY <2>1
<1>6. \A i \in 1..Len(old) : both[i] = old[i]
    BY <1>2, <1>3
<1> QED
    BY <1>4, <1>5, <1>6 DEF both

\* What one call of recordEvent appends.
LEMMA StoredRows ==
    ASSUME NEW e
    PROVE  IsSeq(Unrepeated(e)) /\ \A j \in 1..Len(Unrepeated(e)) : Unrepeated(e)[j] = e
<1>1. IsSeq(<<>>) /\ Len(<<>>) = 0
    BY DEF IsSeq
<1>2. IsSeq(<<e>>) /\ Len(<<e>>) = 1 /\ <<e>>[1] = e
    BY DEF IsSeq
<1> QED
    BY <1>1, <1>2 DEF Unrepeated

\* What a step adds to the store: no partial summary of a session that has ended.
Fresh == \A i \in DOMAIN entries' \ DOMAIN entries :
            entries'[i].kind = "partial" => entries'[i].session \notin closed

\* A partial summary is stored only for a session that is open at that moment.
LEMMA PartialOfOpen ==
    ASSUME IsSeq(entries), NEW s, PartialFinalize(s)
    PROVE  IsSeq(entries') /\ Fresh
<1>1. CASE s \in closed
    BY <1>1 DEF PartialFinalize, Fresh, IsSeq
<1>2. CASE s \notin closed
    <2> DEFINE e == Entry(s, "partial", clock)
    <2>1. entries' = entries \o Unrepeated(e)
        BY <1>2 DEF PartialFinalize, Store
    <2>2. e.session = s
        BY DEF Entry
    <2> HIDE DEF e
    <2>3. IsSeq(Unrepeated(e)) /\ \A j \in 1..Len(Unrepeated(e)) : Unrepeated(e)[j] = e
        BY StoredRows
    <2>4. IsSeq(entries \o Unrepeated(e))
          /\ \A i \in DOMAIN (entries \o Unrepeated(e)) \ DOMAIN entries :
                \E j \in 1..Len(Unrepeated(e)) : (entries \o Unrepeated(e))[i] = Unrepeated(e)[j]
        BY <2>3, Appending
    <2>5. \A i \in DOMAIN entries' \ DOMAIN entries : entries'[i] = e
        BY <2>1, <2>3, <2>4
    <2> QED
        BY <1>2, <2>1, <2>2, <2>4, <2>5 DEF Fresh
<1> QED
    BY <1>1, <1>2

\* Every step keeps the store a sequence and adds no such summary.
LEMMA SessionStep ==
    ASSUME IsSeq(entries), [SessionNext]_sessionVars
    PROVE  IsSeq(entries') /\ Fresh
<1>1. ASSUME UNCHANGED entries PROVE IsSeq(entries') /\ Fresh
    BY <1>1 DEF IsSeq, Fresh
<1>2. ASSUME NEW s \in Session, NEW at \in 1..MaxClock, NEW k \in EventKind[s],
             RecordEntry(s, k, at)
      PROVE  IsSeq(entries') /\ Fresh
    <2> DEFINE e == Entry(s, k, at)
    <2>1. entries' = entries \o Unrepeated(e)
        BY <1>2 DEF RecordEntry, Store
    <2>2. e.kind = k /\ k # "partial"
        BY SessionAssumption DEF Entry
    <2> HIDE DEF e
    <2>3. IsSeq(Unrepeated(e)) /\ \A j \in 1..Len(Unrepeated(e)) : Unrepeated(e)[j] = e
        BY StoredRows
    <2>4. IsSeq(entries \o Unrepeated(e))
          /\ \A i \in DOMAIN (entries \o Unrepeated(e)) \ DOMAIN entries :
                \E j \in 1..Len(Unrepeated(e)) : (entries \o Unrepeated(e))[i] = Unrepeated(e)[j]
        BY <2>3, Appending
    <2>5. \A i \in DOMAIN entries' \ DOMAIN entries : entries'[i] = e
        BY <2>1, <2>3, <2>4
    <2> QED
        BY <1>2, <2>1, <2>2, <2>4, <2>5 DEF Fresh
<1>3. ASSUME NEW s \in Session, NEW ok \in BOOLEAN, NEW persist \in BOOLEAN,
             FinalizeSession(s, ok, persist)
      PROVE  IsSeq(entries') /\ Fresh
    <2>1. CASE ~ok
        BY <1>1, <1>3, <2>1 DEF FinalizeSession
    <2>2. CASE ok
        <3> DEFINE e == Entry(s, "final", clock)
                   d == Entry(s, "skill", clock)
                   more == IF persist /\ IsSkill(s) THEN <<d>> ELSE <<>>
                   new == Unrepeated(e) \o more
        <3>1. entries' = entries \o new
            BY <1>3, <2>2 DEF FinalizeSession, Store
        <3>2. e.kind = "final" /\ d.kind = "skill"
            BY DEF Entry
        <3> HIDE DEF e, d
        <3>3. IsSeq(Unrepeated(e)) /\ \A j \in 1..Len(Unrepeated(e)) : Unrepeated(e)[j] = e
            BY StoredRows
        <3>4. IsSeq(more) /\ \A j \in 1..Len(more) : more[j] = d
            <4>1. CASE persist /\ IsSkill(s)
                <5>1. more = <<d>>
                    BY <4>1
                <5> HIDE DEF more
                <5> QED
                    BY <5>1 DEF IsSeq
            <4>2. CASE ~(persist /\ IsSkill(s))
                <5>1. more = <<>>
                    BY <4>2
                <5> HIDE DEF more
                <5> QED
                    BY <5>1 DEF IsSeq
            <4> QED
                BY <4>1, <4>2
        <3> HIDE DEF more
        <3>5. /\ IsSeq(new)
              /\ \A i \in DOMAIN new \ DOMAIN Unrepeated(e) :
                    \E j \in 1..Len(more) : new[i] = more[j]
              /\ \A i \in 1..Len(Unrepeated(e)) : new[i] = Unrepeated(e)[i]
            BY <3>3, <3>4, Appending
        <3> HIDE DEF new
        <3>6. \A j \in 1..Len(new) : new[j] \in {d, e}
            <4>1. DOMAIN new = 1..Len(new) /\ DOMAIN Unrepeated(e) = 1..Len(Unrepeated(e))
                BY <3>3, <3>5, LenProperties DEF IsSeq
            <4> QED
                BY <3>3, <3>4, <3>5, <4>1
        <3>7. IsSeq(entries \o new)
              /\ \A i \in DOMAIN (entries \o new) \ DOMAIN entries :
                    \E j \in 1..Len(new) : (entries \o new)[i] = new[j]
            BY <3>5, Appending
        <3>8. \A i \in DOMAIN entries' \ DOMAIN entries : entries'[i] \in {d, e}
            BY <3>1, <3>6, <3>7
        <3> QED
            BY <3>1, <3>2, <3>7, <3>8 DEF Fresh
    <2> QED
        BY <2>1, <2>2
<1>4. ASSUME NEW s \in Session, CallPartial(s) PROVE IsSeq(entries') /\ Fresh
    BY <1>4, PartialOfOpen DEF CallPartial
<1>5. ASSUME NEW ok \in BOOLEAN, ProcessSession(ok) PROVE IsSeq(entries') /\ Fresh
    BY <1>1, <1>5, PartialOfOpen DEF ProcessSession
<1>6. ASSUME NEW i \in DOMAIN entries, ArchiveEntry(i) PROVE IsSeq(entries') /\ Fresh
    <2>1. /\ DOMAIN entries' = DOMAIN entries
          /\ entries' = [n \in DOMAIN entries |-> entries'[n]]
        BY <1>6 DEF ArchiveEntry
    <2>2. Len(entries) \in Nat /\ DOMAIN entries = 1..Len(entries)
        BY LenProperties DEF IsSeq
    <2>3. Len(entries') = Len(entries)
        BY <2>1, <2>2
    <2>4. IsSeq(entries')
        BY <2>1, <2>2, <2>3 DEF IsSeq
    <2> QED
        BY <2>1, <2>4 DEF Fresh
<1>7. CASE StartTick \/ SessionRestart \/ Advance \/ UNCHANGED sessionVars
    BY <1>1, <1>7 DEF StartTick, SessionRestart, Advance, sessionVars
<1> QED
    BY <1>2, <1>3, <1>4, <1>5, <1>6, <1>7, Zenon DEF SessionNext

\* A session that was closed gets no partial summary any more, although a tick of
\* the scheduler chose it before (partialFinalizeSession asks again).
THEOREM NoSummaryAfterEnd == SessionSpec => NoPartialAfterEnd
<1> DEFINE Inv == IsSeq(entries)
<1>1. SessionInit => Inv
    BY DEF SessionInit, IsSeq
<1>2. Inv /\ [SessionNext]_sessionVars => Inv'
    BY SessionStep
<1>3. Inv /\ [SessionNext]_sessionVars =>
        [\A i \in DOMAIN entries' \ DOMAIN entries :
            entries'[i].kind = "partial" => entries'[i].session \notin closed]_sessionVars
    BY SessionStep DEF Fresh
<1> HIDE DEF Inv
<1> QED
    BY <1>1, <1>2, <1>3, PTL DEF SessionSpec, NoPartialAfterEnd

------------------------------------------------------------------------------
(* Handoffs: the rows of the store and the loop over them *)

\* A list whose elements are in a set is a list of that set.
LEMMA ListWithin ==
    ASSUME NEW X, NEW list \in Seq(X), NEW Y, \A i \in 1..Len(list) : list[i] \in Y
    PROVE  list \in Seq(Y)
<1>1. Len(list) \in Nat /\ list \in [1..Len(list) -> X]
    BY LenProperties
<1>2. list \in [1..Len(list) -> Y]
    BY <1>1
<1> QED BY <1>1, <1>2

\* A row of the store.
Rows(sessions, time, n) ==
    [session : sessions, kind : Kinds, at : 1..time, archived : BOOLEAN, text : Seq(1..n)]

\* Rows of the store in order of creation.
LEMMA RowsByTime ==
    ASSUME SessionTypeOK, NEW ids \in SUBSET DOMAIN entries
    PROVE  ByTime(ids) \in Seq(ids) /\ \A o \in ids : \E i \in DOMAIN ByTime(ids) : ByTime(ids)[i] = o
<1> DEFINE Sooner == {p \in ids \X ids : \/ entries[p[1]].at < entries[p[2]].at
                                         \/ entries[p[1]].at = entries[p[2]].at /\ p[1] < p[2]}
<1>1. Len(entries) \in Nat /\ DOMAIN entries = 1..Len(entries) /\ clock \in Nat
      /\ entries \in Seq(Rows(known, clock, Len(entries)))
    BY LenProperties, SessionAssumption DEF SessionTypeOK, Rows
<1>2. \A i \in ids : i \in Nat /\ entries[i].at \in Nat
    <2>1. \A i \in DOMAIN entries : entries[i] \in Rows(known, clock, Len(entries))
        BY <1>1, ElementOfSeq
    <2> QED BY <1>1, <2>1 DEF Rows
<1>3. IsFiniteSet(ids)
    <2>1. IsFiniteSet(1..Len(entries))
        BY <1>1, FS_Interval
    <2> QED BY <1>1, <2>1, FS_Subset
<1>4. Orders(Sooner, ids)
    <2>1. \A a \in ids : <<a, a>> \notin Sooner
        BY <1>2
    <2>2. \A a, b \in ids : a # b => <<a, b>> \in Sooner \/ <<b, a>> \in Sooner
        BY <1>2
    <2>3. \A a, b, c \in ids : <<a, b>> \in Sooner /\ <<b, c>> \in Sooner => <<a, c>> \in Sooner
        BY <1>2
    <2> QED BY <2>1, <2>2, <2>3 DEF Orders
<1>5. ByTime(ids) = Sorted(ids, Sooner)
    BY DEF ByTime
<1> HIDE DEF Sooner
<1>6. Sorted(ids, Sooner) \in Seq(ids)
    BY <1>3, <1>4, SortedList
<1>7. \A o \in ids : \E i \in DOMAIN Sorted(ids, Sooner) : Sorted(ids, Sooner)[i] = o
    BY <1>3, <1>4, SortedAll
<1> QED BY <1>5, <1>6, <1>7

LEMMA LiveByTime ==
    ASSUME SessionTypeOK, NEW s
    PROVE  /\ ByTime(LiveRows(s)) \in Seq(1..Len(entries)) /\ Len(ByTime(LiveRows(s))) \in Nat
           /\ SummaryRowsOf(s) \in Seq(1..Len(entries))
           /\ Len(ByTime(LiveRows(s))) <= SummaryRows => SummaryRowsOf(s) = ByTime(LiveRows(s))
<1> DEFINE ids == ByTime(LiveRows(s))
           n == IF Len(ids) < SummaryRows THEN Len(ids) ELSE SummaryRows
<1>1. DOMAIN entries = 1..Len(entries)
    BY LenProperties DEF SessionTypeOK
<1>2. ids \in Seq(1..Len(entries))
    <2>1. LiveRows(s) \in SUBSET DOMAIN entries
        BY DEF LiveRows
    <2>2. ids \in Seq(LiveRows(s))
        BY <2>1, RowsByTime
    <2> HIDE DEF ids
    <2> QED BY <1>1, <2>1, <2>2, SeqMonotonic
<1>3. SummaryRowsOf(s) = SubSeq(ids, 1, n)
    BY DEF SummaryRowsOf
<1> HIDE DEF ids
<1>4. /\ Len(ids) \in Nat /\ n \in Int /\ 1..n \subseteq 1..Len(ids)
      /\ Len(ids) <= SummaryRows => n = Len(ids)
    BY <1>2, LenProperties, SessionAssumption
<1> HIDE DEF n
<1>5. \A i \in 1..n : ids[i] \in 1..Len(entries)
    BY <1>2, <1>4, ElementOfSeq
<1>6. SubSeq(ids, 1, n) \in Seq(1..Len(entries))
    BY <1>4, <1>5, SubSeqProperties
<1>7. Len(ids) <= SummaryRows => SubSeq(ids, 1, n) = ids
    BY <1>2, <1>4, SubSeqFull
<1> QED BY <1>2, <1>3, <1>4, <1>6, <1>7 DEF ids

\* The row that a call of recordEvent makes.
LEMMA EntrySound ==
    ASSUME SessionTypeOK, NEW s, NEW k \in Kinds, NEW at \in 1..clock
    PROVE  /\ Entry(s, k, at) \in Rows(known \cup {s}, clock, Len(entries))
           /\ Unrepeated(Entry(s, k, at)) \in Seq(Rows(known \cup {s}, clock, Len(entries)))
<1> DEFINE e == Entry(s, k, at)
           Set == Rows(known \cup {s}, clock, Len(entries))
           text == IF k \in {"final", "partial"} THEN SummaryRowsOf(s) ELSE <<>>
<1>1. text \in Seq(1..Len(entries))
    <2>1. SummaryRowsOf(s) \in Seq(1..Len(entries)) /\ <<>> \in Seq(1..Len(entries))
        BY LiveByTime
    <2> QED BY <2>1
<1>2. e = [session |-> s, kind |-> k, at |-> at, archived |-> FALSE, text |-> text]
    BY DEF Entry
<1> HIDE DEF text
<1>3. e \in Set
    BY <1>1, <1>2 DEF Rows
<1> HIDE DEF e, Set
<1>4. Unrepeated(e) \in Seq(Set)
    BY <1>3 DEF Unrepeated
<1> QED BY <1>3, <1>4 DEF e, Set

\* What is stored behind the rows of the store leaves it typed.
LEMMA Storing ==
    ASSUME SessionTypeOK, NEW s \in Session,
           NEW new \in Seq(Rows(known \cup {s}, clock, Len(entries))), Store(s, new),
           UNCHANGED clock, closed' \subseteq known', tick' \in Seq(known')
    PROVE  SessionTypeOK'
<1> DEFINE n == Len(entries)
           m == Len(new)
           Held == Rows(known, clock, n)
           Holds == Rows(known', clock', Len(entries'))
           Either == Held \cup Rows(known', clock', n)
<1>1. /\ known' = known \cup {s} /\ entries' = entries \o new /\ clock' = clock
      /\ entries \in Seq(Held) /\ new \in Seq(Rows(known', clock', n))
      /\ known \subseteq Session /\ clock \in 1..MaxClock /\ IsFiniteSet(known)
      /\ \A i \in DOMAIN entries : Range(entries[i].text) \subseteq 1..(i - 1)
    BY DEF SessionTypeOK, Store, Rows
<1>2. n \in Nat /\ m \in Nat /\ DOMAIN entries = 1..n /\ DOMAIN new = 1..m
    BY <1>1, LenProperties
<1>3. /\ Len(entries') = n + m /\ DOMAIN entries' = 1..(n + m) /\ n <= Len(entries')
      /\ \A i \in 1..(n + m) : \/ i \in 1..n /\ entries'[i] = entries[i]
                               \/ i > n /\ i - n \in 1..m /\ entries'[i] = new[i - n]
      /\ entries' \in Seq(Either)
    <2> DEFINE All == Held \cup Rows(known', clock', n)
    <2>1. entries \in Seq(All) /\ new \in Seq(All)
        <3>1. Held \subseteq All /\ Rows(known', clock', n) \subseteq All
            OBVIOUS
        <3> HIDE DEF Held, All
        <3>2. entries \in Seq(All)
            BY <1>1, <3>1, SeqMonotonic
        <3> DEFINE Added == Rows(known', clock', n)
        <3>3. new \in Seq(Added) /\ Added \subseteq All
            BY <1>1, <3>1
        <3> HIDE DEF Added
        <3>4. new \in Seq(All)
            BY <3>3, SeqMonotonic
        <3> QED BY <3>2, <3>4
    <2> HIDE DEF All
    <2>2. /\ entries \o new \in Seq(All) /\ Len(entries \o new) = n + m
          /\ \A i \in 1..(n + m) : (entries \o new)[i] = IF i <= n THEN entries[i] ELSE new[i - n]
        BY <2>1, ConcatProperties
    <2>3. DOMAIN (entries \o new) = 1..(n + m)
        BY <2>2, LenProperties
    <2>4. entries \o new \in Seq(Either)
        BY <2>2 DEF All
    <2> HIDE DEF n, m, Held, Either
    <2> QED BY <1>1, <1>2, <2>2, <2>3, <2>4
<1> HIDE DEF n, m
<1>4. /\ \A e \in Held : e \in Holds /\ e.text \in Seq(1..n)
      /\ \A e \in Rows(known', clock', n) : e \in Holds /\ e.text \in Seq(1..n)
    <2>1. known \subseteq known' /\ 1..n \subseteq 1..Len(entries')
        BY <1>1, <1>2, <1>3
    <2>2. \A text \in Seq(1..n) : text \in Seq(1..Len(entries'))
        BY <2>1, SeqMonotonic
    <2> QED BY <1>1, <2>1, <2>2 DEF Rows
<1>5. \A i \in 1..n : entries[i] \in Held
    BY <1>1, <1>2, ElementOfSeq
<1>6. \A i \in 1..m : new[i] \in Rows(known', clock', n)
    BY <1>1, <1>2, ElementOfSeq
<1> HIDE DEF Held, Holds, Either
<1>7. entries' \in Seq(Holds)
    <2>1. \A i \in 1..(n + m) : entries'[i] \in Holds
        BY <1>3, <1>4, <1>5, <1>6
    <2>2. \A i \in 1..Len(entries') : entries'[i] \in Holds
        BY <1>3, <2>1
    <2> DEFINE stored == entries'
    <2>3. stored \in Seq(Either)
        BY <1>3
    <2> HIDE DEF stored
    <2>4. stored \in Seq(Holds)
        <3>1. \A i \in 1..Len(stored) : stored[i] \in Holds
            BY <2>2 DEF stored
        <3> QED BY <2>3, <3>1, ListWithin
    <2> QED BY <2>4 DEF stored
<1>8. \A i \in DOMAIN entries' : Range(entries'[i].text) \subseteq 1..(i - 1)
    <2> SUFFICES ASSUME NEW i \in 1..(n + m) PROVE Range(entries'[i].text) \subseteq 1..(i - 1)
        BY <1>3
    <2>1. CASE i \in 1..n /\ entries'[i] = entries[i]
        BY <1>1, <1>2, <2>1
    <2>2. CASE i > n /\ i - n \in 1..m /\ entries'[i] = new[i - n]
        <3>1. entries'[i].text \in Seq(1..n)
            BY <1>4, <1>6, <2>2
        <3>2. \A j \in DOMAIN entries'[i].text : entries'[i].text[j] \in 1..n
            BY <3>1, ElementOfSeq, LenProperties
        <3>3. 1..n \subseteq 1..(i - 1)
            BY <1>2, <2>2
        <3> QED BY <3>2, <3>3 DEF Range
    <2> QED BY <1>3, <2>1, <2>2
<1>9. IsFiniteSet(known')
    BY <1>1, FS_AddElement
<1> QED BY <1>1, <1>7, <1>8, <1>9 DEF SessionTypeOK, Holds, Rows

\* What adds no row leaves the rows typed; time only goes on.
LEMMA NothingStored ==
    ASSUME SessionTypeOK, UNCHANGED <<entries, known>>, clock' \in clock..MaxClock,
           closed' \subseteq known, tick' \in Seq(known)
    PROVE  SessionTypeOK'
<1> DEFINE Held == Rows(known, clock, Len(entries))
           Holds == Rows(known, clock', Len(entries))
<1>1. /\ entries' = entries /\ known' = known /\ known \subseteq Session /\ IsFiniteSet(known)
      /\ clock \in 1..MaxClock /\ entries \in Seq(Held)
      /\ \A i \in DOMAIN entries : Range(entries[i].text) \subseteq 1..(i - 1)
    BY DEF SessionTypeOK, Rows
<1>2. clock' \in 1..MaxClock /\ 1..clock \subseteq 1..clock'
    BY <1>1, SessionAssumption
<1>3. Held \subseteq Holds
    BY <1>2 DEF Rows
<1>4. entries \in Seq(Holds)
    <2> HIDE DEF Held, Holds
    <2> QED BY <1>1, <1>3, SeqMonotonic
<1> QED BY <1>1, <1>2, <1>4 DEF SessionTypeOK, Rows

\* A partial summary, or none for a session that has ended.
LEMMA Summarising ==
    ASSUME SessionTypeOK, NEW s \in Session, PartialFinalize(s), UNCHANGED <<clock, closed>>,
           tick' \in Seq(known)
    PROVE  SessionTypeOK'
<1>1. clock \in 1..MaxClock /\ clock \in 1..clock /\ clock \in clock..MaxClock /\ closed \subseteq known
    BY SessionAssumption DEF SessionTypeOK
<1>2. CASE s \in closed
    BY <1>1, <1>2, NothingStored DEF PartialFinalize
<1>3. CASE s \notin closed
    <2> DEFINE new == Unrepeated(Entry(s, "partial", clock))
    <2>1. new \in Seq(Rows(known \cup {s}, clock, Len(entries)))
        <3>1. "partial" \in Kinds
            BY DEF Kinds
        <3> QED BY <1>1, <3>1, EntrySound
    <2>2. Store(s, new)
        BY <1>3 DEF PartialFinalize
    <2> HIDE DEF new
    <2>3. known' = known \cup {s}
        BY <2>2 DEF Store
    <2>4. closed' \subseteq known' /\ known \subseteq known'
        BY <1>1, <2>3
    <2>5. tick' \in Seq(known')
        BY <2>4, SeqMonotonic
    <2> QED BY <2>1, <2>2, <2>4, <2>5, Storing
<1> QED BY <1>2, <1>3

LEMMA RecordingEntry ==
    ASSUME SessionTypeOK, NEW s \in Session, NEW k \in EventKind[s], NEW at \in 1..MaxClock,
           RecordEntry(s, k, at)
    PROVE  SessionTypeOK'
<1> DEFINE new == Unrepeated(Entry(s, k, at))
<1>1. Store(s, new) /\ UNCHANGED <<clock, closed, tick>> /\ at <= clock
    BY DEF RecordEntry
<1>2. /\ at \in 1..clock /\ closed \subseteq known /\ tick \in Seq(known)
    BY <1>1, SessionAssumption DEF SessionTypeOK
<1>3. k \in Kinds
    <2>1. EventKind[s] \in SUBSET {"prompt", "response", "work", "done"}
        BY SessionAssumption
    <2> QED BY <2>1 DEF Kinds
<1>4. new \in Seq(Rows(known \cup {s}, clock, Len(entries)))
    BY <1>2, <1>3, EntrySound
<1> HIDE DEF new
<1>5. known \subseteq known' /\ closed' \subseteq known'
    BY <1>1, <1>2 DEF Store
<1>6. tick' \in Seq(known')
    BY <1>1, <1>2, <1>5, SeqMonotonic
<1> QED BY <1>1, <1>4, <1>5, <1>6, Storing

LEMMA Ending ==
    ASSUME SessionTypeOK, NEW s \in Session, NEW ok \in BOOLEAN, NEW persist \in BOOLEAN,
           FinalizeSession(s, ok, persist)
    PROVE  SessionTypeOK'
<1> DEFINE Set == Rows(known \cup {s}, clock, Len(entries))
           first == Unrepeated(Entry(s, "final", clock))
           second == IF persist /\ IsSkill(s) THEN <<Entry(s, "skill", clock)>> ELSE <<>>
<1>1. /\ clock \in 1..clock /\ clock \in clock..MaxClock /\ closed \subseteq known /\ tick \in Seq(known)
      /\ closed' = closed \cup ({s} \cap known) /\ clock' = clock /\ tick' = tick
    BY SessionAssumption DEF SessionTypeOK, FinalizeSession
<1>2. CASE ok
    <2>1. "final" \in Kinds /\ "skill" \in Kinds
        BY DEF Kinds
    <2>2. first \in Seq(Set) /\ Entry(s, "skill", clock) \in Set
        BY <1>1, <2>1, EntrySound
    <2>3. second \in Seq(Set)
        <3> DEFINE e == Entry(s, "skill", clock)
        <3> HIDE DEF Set, e
        <3>1. <<e>> \in Seq(Set) /\ <<>> \in Seq(Set)
            BY <2>2 DEF e
        <3> QED BY <3>1 DEF e
    <2>4. Store(s, first \o second)
        BY <1>2 DEF FinalizeSession
    <2> HIDE DEF first, second, Set
    <2>5. first \o second \in Seq(Set)
        BY <2>2, <2>3, ConcatProperties
    <2>6. known \subseteq known' /\ closed' \subseteq known'
        BY <1>1, <2>4 DEF Store
    <2>7. tick' \in Seq(known')
        BY <1>1, <2>6, SeqMonotonic
    <2> DEFINE new == first \o second
    <2>8. new \in Seq(Rows(known \cup {s}, clock, Len(entries))) /\ Store(s, new)
        BY <2>4, <2>5 DEF Set
    <2> HIDE DEF new
    <2> QED BY <1>1, <2>6, <2>7, <2>8, Storing
<1>3. CASE ~ok
    <2>1. UNCHANGED <<entries, known>> /\ closed' \subseteq known
        BY <1>1, <1>3 DEF FinalizeSession
    <2> QED BY <1>1, <2>1, NothingStored
<1> QED BY <1>2, <1>3

\* A tick takes sessions that have rows in mem_sessions.
LEMMA Choosing ==
    ASSUME SessionTypeOK, NEW list \in QueryActiveSessions
    PROVE  list \in Seq(known)
<1> DEFINE all == {s \in Session : Candidate(s)}
           n == IF Cardinality(all) < TickLimit THEN Cardinality(all) ELSE TickLimit
<1>1. all \subseteq known /\ IsFiniteSet(known)
    BY DEF Candidate, SessionTypeOK
<1>2. list \in [1..n -> all]
    BY DEF QueryActiveSessions
<1> HIDE DEF all
<1>3. n \in Nat
    <2>1. Cardinality(all) \in Nat
        BY <1>1, FS_Subset, FS_CardinalityType
    <2> QED BY <2>1, SessionAssumption
<1> QED BY <1>1, <1>2, <1>3

\* One row is archived.
LEMMA ArchivingEntry ==
    ASSUME SessionTypeOK, NEW i \in DOMAIN entries, ArchiveEntry(i)
    PROVE  SessionTypeOK'
<1> DEFINE Held == Rows(known, clock, Len(entries))
           e == [entries[i] EXCEPT !.archived = TRUE]
<1>1. /\ entries' = [entries EXCEPT ![i].archived = TRUE] /\ clock' = clock /\ known' = known
      /\ closed' = closed /\ tick' = tick
      /\ clock \in 1..MaxClock /\ known \subseteq Session /\ IsFiniteSet(known) /\ closed \subseteq known
      /\ tick \in Seq(known) /\ entries \in Seq(Held)
      /\ \A j \in DOMAIN entries : Range(entries[j].text) \subseteq 1..(j - 1)
    BY DEF ArchiveEntry, SessionTypeOK, Rows
<1>2. DOMAIN entries = 1..Len(entries) /\ i \in 1..Len(entries)
    <2> HIDE DEF Held
    <2> QED BY <1>1, LenProperties
<1>3. entries[i] \in Held
    <2> HIDE DEF Held
    <2> QED BY <1>1, <1>2, ElementOfSeq
<1>4. e \in Held /\ e.text = entries[i].text
    BY <1>3 DEF Rows
<1>5. entries' = [entries EXCEPT ![i] = e]
    BY <1>1
<1> HIDE DEF Held, e
<1>6. /\ entries' \in Seq(Held) /\ Len(entries') = Len(entries)
      /\ \A j \in 1..Len(entries) : entries'[j] = IF j = i THEN e ELSE entries[j]
    <2>1. e \in Held /\ entries \in Seq(Held)
        BY <1>1, <1>4
    <2>2. /\ [entries EXCEPT ![i] = e] \in Seq(Held) /\ Len([entries EXCEPT ![i] = e]) = Len(entries)
          /\ \A j \in 1..Len(entries) :
                [entries EXCEPT ![i] = e][j] = IF j = i THEN e ELSE entries[j]
        BY <1>2, <2>1, ExceptSeq
    <2> QED BY <1>5, <2>2
<1>7. DOMAIN entries' = 1..Len(entries)
    BY <1>6, LenProperties
<1>8. \A j \in DOMAIN entries' : Range(entries'[j].text) \subseteq 1..(j - 1)
    <2> SUFFICES ASSUME NEW j \in 1..Len(entries) PROVE Range(entries'[j].text) \subseteq 1..(j - 1)
        BY <1>7
    <2>1. entries'[j].text = entries[j].text
        BY <1>4, <1>6
    <2> QED BY <1>1, <1>2, <2>1
<1>9. entries' \in Seq(Rows(known', clock', Len(entries')))
    BY <1>1, <1>6 DEF Held
<1> QED BY <1>1, <1>8, <1>9 DEF SessionTypeOK, Rows

\* SessionTypeOK in the first state.
LEMMA EntriesStart ==
    ASSUME SessionInit PROVE SessionTypeOK
<1>1. /\ clock = 1 /\ entries = <<>> /\ known = {} /\ closed = {} /\ tick = <<>>
    BY DEF SessionInit
<1>2. clock \in 1..MaxClock
    BY <1>1, SessionAssumption
<1>3. entries \in Seq(Rows(known, clock, Len(entries))) /\ tick \in Seq(known) /\ DOMAIN entries = {}
      /\ IsFiniteSet(known)
    BY <1>1, FS_EmptySet
<1> QED BY <1>1, <1>2, <1>3 DEF SessionTypeOK, Rows

\* SessionTypeOK after every step.
LEMMA EntriesStep ==
    ASSUME SessionTypeOK, [SessionNext]_sessionVars
    PROVE  SessionTypeOK'
<1>1. /\ clock \in Nat /\ clock \in 1..MaxClock /\ clock \in clock..MaxClock
      /\ closed \subseteq known /\ known \subseteq Session /\ tick \in Seq(known)
    BY SessionAssumption DEF SessionTypeOK
<1>2. CASE UNCHANGED sessionVars
    BY <1>1, <1>2, NothingStored DEF sessionVars
<1>3. ASSUME NEW s \in Session, NEW at \in 1..MaxClock, NEW k \in EventKind[s], RecordEntry(s, k, at)
      PROVE  SessionTypeOK'
    BY <1>3, RecordingEntry
<1>4. ASSUME NEW s \in Session, NEW ok \in BOOLEAN, NEW persist \in BOOLEAN,
             FinalizeSession(s, ok, persist)
      PROVE  SessionTypeOK'
    BY <1>4, Ending
<1>5. ASSUME NEW s \in Session, CallPartial(s) PROVE SessionTypeOK'
    <2>1. PartialFinalize(s) /\ UNCHANGED <<clock, closed>> /\ tick' = tick
        BY <1>5 DEF CallPartial
    <2> QED BY <1>1, <2>1, Summarising
<1>6. CASE StartTick
    <2>1. tick' \in QueryActiveSessions /\ UNCHANGED <<clock, entries, known, closed>>
        BY <1>6 DEF StartTick
    <2>2. tick' \in Seq(known)
        BY <2>1, Choosing
    <2> QED BY <1>1, <2>1, <2>2, NothingStored
<1>7. ASSUME NEW ok \in BOOLEAN, ProcessSession(ok) PROVE SessionTypeOK'
    <2>1. tick # <<>> /\ tick' = Tail(tick) /\ UNCHANGED <<clock, closed>>
        BY <1>7 DEF ProcessSession
    <2>2. tick' \in Seq(known) /\ Head(tick) \in Session
        BY <1>1, <2>1
    <2>3. CASE ok
        BY <1>7, <2>1, <2>2, <2>3, Summarising DEF ProcessSession
    <2>4. CASE ~ok
        BY <1>1, <1>7, <2>1, <2>2, <2>4, NothingStored DEF ProcessSession
    <2> QED BY <2>3, <2>4
<1>8. CASE SessionRestart
    <2>1. tick' \in Seq(known) /\ UNCHANGED <<clock, entries, known, closed>>
        BY <1>8 DEF SessionRestart
    <2> QED BY <1>1, <2>1, NothingStored
<1>9. ASSUME NEW i \in DOMAIN entries, ArchiveEntry(i) PROVE SessionTypeOK'
    BY <1>9, ArchivingEntry
<1>10. CASE Advance
    <2>1. clock' \in clock..MaxClock /\ UNCHANGED <<entries, known, closed, tick>>
        BY <1>1, <1>10, SessionAssumption DEF Advance
    <2> QED BY <1>1, <2>1, NothingStored
<1> QED BY <1>2, <1>3, <1>4, <1>5, <1>6, <1>7, <1>8, <1>9, <1>10 DEF SessionNext

\* A function that follows the loop of buildStructuredHandoff for k rows.
Follows(loop, ids, k) ==
    loop = [n \in 0..k |-> IF n = 0 THEN NoExchange ELSE ExchangeWith(loop[n - 1], ids[n])]

\* There is one for any number of rows, for there is no least number without.
LEMMA LoopExists ==
    ASSUME NEW ids, NEW k \in Nat
    PROVE  \E loop : Follows(loop, ids, k)
<1> DEFINE Bad == {j \in Nat : ~\E loop : Follows(loop, ids, j)}
<1>1. ASSUME Bad # {} PROVE FALSE
    <2>1. PICK j \in Bad : \A i \in Bad : j <= i
        BY <1>1, LeastExists
    <2>2. j \in Nat /\ ~\E loop : Follows(loop, ids, j)
        BY <2>1
    <2>3. CASE j = 0
        <3> DEFINE loop == [n \in 0..0 |-> NoExchange]
        <3>1. loop = [n \in 0..0 |-> IF n = 0 THEN NoExchange ELSE ExchangeWith(loop[n - 1], ids[n])]
            <4>1. \A n \in 0..0 : n = 0
                OBVIOUS
            <4> QED BY <4>1
        <3> HIDE DEF loop
        <3>2. Follows(loop, ids, 0)
            BY <3>1 DEF Follows
        <3> QED BY <2>2, <2>3, <3>2
    <2>4. CASE j # 0
        <3>1. j - 1 \in Nat /\ j - 1 \notin Bad
            <4>1. j - 1 \in Nat /\ ~(j <= j - 1)
                BY <2>2, <2>4
            <4> QED BY <2>1, <4>1
        <3>2. PICK before : Follows(before, ids, j - 1)
            BY <3>1
        <3> DEFINE last == ExchangeWith(before[j - 1], ids[j])
                   loop == [n \in 0..j |-> IF n = j THEN last ELSE before[n]]
                   Round(n) == IF n = 0 THEN NoExchange ELSE ExchangeWith(loop[n - 1], ids[n])
        <3>3. \A n \in 0..(j - 1) :
                 before[n] = IF n = 0 THEN NoExchange ELSE ExchangeWith(before[n - 1], ids[n])
            BY <3>2 DEF Follows
        <3>4. ASSUME NEW n \in 0..j PROVE loop[n] = Round(n)
            <4>1. CASE n = 0
                BY <2>2, <2>4, <3>1, <3>3, <4>1
            <4>2. CASE n # 0
                <5>1. n - 1 \in 0..j /\ n - 1 # j
                    BY <2>2, <4>2
                <5>2. loop[n - 1] = before[n - 1]
                    BY <5>1
                <5>3. loop[n] = ExchangeWith(before[n - 1], ids[n])
                    <6>1. CASE n = j
                        BY <6>1
                    <6>2. CASE n # j
                        <7>1. n \in 0..(j - 1)
                            BY <2>2, <6>2
                        <7>2. loop[n] = before[n]
                            BY <6>2
                        <7> HIDE DEF loop
                        <7> QED BY <3>3, <4>2, <7>1, <7>2
                    <6> QED BY <6>1, <6>2
                <5> HIDE DEF loop
                <5> QED BY <4>2, <5>2, <5>3
            <4> QED BY <4>1, <4>2
        <3>5. loop = [n \in 0..j |-> loop[n]]
            OBVIOUS
        <3>6. loop = [n \in 0..j |-> Round(n)]
            <4> HIDE DEF Round, loop
            <4> QED BY <3>4, <3>5
        <3> HIDE DEF loop
        <3>7. Follows(loop, ids, j)
            BY <3>6 DEF Follows
        <3> QED BY <2>2, <3>7
    <2> QED BY <2>3, <2>4
<1> QED BY <1>1

\* What the handoff shows is what such a function ends with.
LEMMA HandoffLoop ==
    ASSUME NEW ids, Len(ids) \in Nat
    PROVE  \E loop : Follows(loop, ids, Len(ids)) /\ LatestExchange(ids) = loop[Len(ids)]
<1> DEFINE loop == CHOOSE g : g = [n \in 0..Len(ids) |->
                       IF n = 0 THEN NoExchange ELSE ExchangeWith(g[n - 1], ids[n])]
<1>1. LatestExchange(ids) = loop[Len(ids)]
    BY DEF LatestExchange
<1>2. \E g : g = [n \in 0..Len(ids) |->
                  IF n = 0 THEN NoExchange ELSE ExchangeWith(g[n - 1], ids[n])]
    BY LoopExists DEF Follows
<1>3. loop = [n \in 0..Len(ids) |-> IF n = 0 THEN NoExchange ELSE ExchangeWith(loop[n - 1], ids[n])]
    BY <1>2
<1> HIDE DEF loop
<1>4. Follows(loop, ids, Len(ids))
    BY <1>3 DEF Follows
<1> QED BY <1>1, <1>4

\* What the loop knows after n rows: the last prompt, the last answer and the
\* last prompt before that.
IsKind(ids, m, sort) == entries[ids[m]].kind = sort

PromptIsLast(ids, exchange, n) ==
    IF exchange.prompt = 0 THEN \A m \in 1..n : ~IsKind(ids, m, "prompt")
    ELSE \E l \in 1..n : /\ ids[l] = exchange.prompt
                         /\ \A m \in (l + 1)..n : ~IsKind(ids, m, "prompt")

AnswerIsLast(ids, exchange, n) ==
    IF exchange.assistant = 0 THEN \A m \in 1..n : ~IsKind(ids, m, "response")
    ELSE \E k \in 1..n :
            /\ ids[k] = exchange.assistant /\ IsKind(ids, k, "response")
            /\ \A m \in (k + 1)..n : ~IsKind(ids, m, "response")
            /\ \A m \in 1..(k - 1) : IsKind(ids, m, "prompt") =>
                  \E l \in m..(k - 1) : ids[l] = exchange.user

LoopSound(ids, exchange, n) ==
    /\ exchange \in [prompt : Nat, user : Nat, assistant : Nat]
    /\ PromptIsLast(ids, exchange, n) /\ AnswerIsLast(ids, exchange, n)

\* One more row.
LEMMA LoopRound ==
    ASSUME NEW ids \in Seq(Nat \ {0}), NEW n \in Nat, n + 1 <= Len(ids), NEW before,
           LoopSound(ids, before, n)
    PROVE  LoopSound(ids, ExchangeWith(before, ids[n + 1]), n + 1)
<1> DEFINE i == ids[n + 1]
           sort == entries[i].kind
           after == ExchangeWith(before, i)
<1>1. /\ before \in [prompt : Nat, user : Nat, assistant : Nat]
      /\ PromptIsLast(ids, before, n) /\ AnswerIsLast(ids, before, n)
    BY DEF LoopSound
<1>2. /\ i \in Nat \ {0} /\ n + 1 \in 1..(n + 1) /\ 1..(n + 1) = 1..n \cup {n + 1} /\ n + 1 \notin 1..n
      /\ \A k : IsKind(ids, n + 1, k) <=> sort = k
    <2>1. Len(ids) \in Nat /\ n + 1 \in 1..Len(ids)
        BY LenProperties
    <2>2. i \in Nat \ {0}
        BY <2>1, ElementOfSeq
    <2> QED BY <2>2 DEF IsKind
<1>3. ASSUME NEW l \in 1..(n + 1) PROVE (l + 1)..(n + 1) = ((l + 1)..n) \cup (IF l = n + 1 THEN {} ELSE {n + 1})
    OBVIOUS
<1>4. /\ sort = "prompt" => after = [before EXCEPT !.prompt = i]
      /\ sort = "response" => after = [prompt |-> before.prompt, user |-> before.prompt, assistant |-> i]
      /\ sort # "prompt" /\ sort # "response" => after = before
    BY DEF ExchangeWith
<1> HIDE DEF i, sort, after
<1>5. after \in [prompt : Nat, user : Nat, assistant : Nat]
    <2>1. /\ before.prompt \in Nat /\ i \in Nat
          /\ [before EXCEPT !.prompt = i] \in [prompt : Nat, user : Nat, assistant : Nat]
        BY <1>1, <1>2
    <2>2. CASE sort = "prompt"
        BY <1>4, <2>1, <2>2
    <2>3. CASE sort = "response"
        BY <1>4, <2>1, <2>3
    <2>4. CASE sort # "prompt" /\ sort # "response"
        BY <1>1, <1>4, <2>4
    <2> QED BY <2>2, <2>3, <2>4
<1>6. /\ after.prompt = IF sort = "prompt" THEN i ELSE before.prompt
      /\ after.assistant = IF sort = "response" THEN i ELSE before.assistant
      /\ after.user = IF sort = "response" THEN before.prompt ELSE before.user
    <2>1. CASE sort = "prompt"
        BY <1>1, <1>4, <2>1
    <2>2. CASE sort = "response"
        BY <1>4, <2>2
    <2>3. CASE sort # "prompt" /\ sort # "response"
        BY <1>4, <2>3
    <2> QED BY <2>1, <2>2, <2>3
<1>7. PromptIsLast(ids, after, n + 1)
    <2>1. CASE sort = "prompt"
        <3>1. ids[n + 1] = after.prompt /\ after.prompt # 0
            BY <1>2, <1>6, <2>1 DEF i
        <3>2. \A m \in (n + 1 + 1)..(n + 1) : ~IsKind(ids, m, "prompt")
            OBVIOUS
        <3> QED BY <1>2, <3>1, <3>2 DEF PromptIsLast
    <2>2. CASE sort # "prompt"
        <3>1. ~IsKind(ids, n + 1, "prompt") /\ after.prompt = before.prompt
            BY <1>2, <1>6, <2>2
        <3>2. CASE before.prompt = 0
            BY <1>1, <1>2, <3>1, <3>2 DEF PromptIsLast
        <3>3. CASE before.prompt # 0
            <4>1. PICK l \in 1..n : /\ ids[l] = before.prompt
                                    /\ \A m \in (l + 1)..n : ~IsKind(ids, m, "prompt")
                BY <1>1, <3>3 DEF PromptIsLast
            <4>2. l \in 1..(n + 1) /\ l # n + 1
                BY <1>2
            <4>3. \A m \in (l + 1)..(n + 1) : ~IsKind(ids, m, "prompt")
                BY <1>3, <3>1, <4>1, <4>2
            <4> QED BY <3>1, <3>3, <4>1, <4>2, <4>3 DEF PromptIsLast
        <3> QED BY <3>2, <3>3
    <2> QED BY <2>1, <2>2
<1>8. AnswerIsLast(ids, after, n + 1)
    <2>1. CASE sort = "response"
        <3>1. /\ ids[n + 1] = after.assistant /\ after.assistant # 0 /\ IsKind(ids, n + 1, "response")
              /\ after.user = before.prompt
            BY <1>2, <1>6, <2>1 DEF i
        <3>2. \A m \in (n + 1 + 1)..(n + 1) : ~IsKind(ids, m, "response")
            OBVIOUS
        <3>3. ASSUME NEW m \in 1..n, IsKind(ids, m, "prompt")
              PROVE  \E l \in m..n : ids[l] = after.user
            <4>1. before.prompt # 0
                BY <1>1, <3>3 DEF PromptIsLast
            <4>2. PICK l \in 1..n : /\ ids[l] = before.prompt
                                    /\ \A o \in (l + 1)..n : ~IsKind(ids, o, "prompt")
                BY <1>1, <4>1 DEF PromptIsLast
            <4>3. m \notin (l + 1)..n
                BY <3>3, <4>2
            <4>4. l \in m..n
                BY <4>3
            <4> QED BY <3>1, <4>2, <4>4
        <3>4. n + 1 - 1 = n
            OBVIOUS
        <3>5. \A m \in 1..(n + 1 - 1) : IsKind(ids, m, "prompt") =>
                 \E l \in m..(n + 1 - 1) : ids[l] = after.user
            BY <3>3, <3>4
        <3> QED BY <1>2, <3>1, <3>2, <3>5 DEF AnswerIsLast
    <2>2. CASE sort # "response"
        <3>1. /\ ~IsKind(ids, n + 1, "response") /\ after.assistant = before.assistant
              /\ after.user = before.user
            BY <1>2, <1>6, <2>2
        <3>2. CASE before.assistant = 0
            BY <1>1, <1>2, <3>1, <3>2 DEF AnswerIsLast
        <3>3. CASE before.assistant # 0
            <4>1. PICK k \in 1..n :
                     /\ ids[k] = before.assistant /\ IsKind(ids, k, "response")
                     /\ \A m \in (k + 1)..n : ~IsKind(ids, m, "response")
                     /\ \A m \in 1..(k - 1) : IsKind(ids, m, "prompt") =>
                           \E l \in m..(k - 1) : ids[l] = before.user
                BY <1>1, <3>3 DEF AnswerIsLast
            <4>2. k \in 1..(n + 1) /\ k # n + 1
                BY <1>2
            <4>3. \A m \in (k + 1)..(n + 1) : ~IsKind(ids, m, "response")
                BY <1>3, <3>1, <4>1, <4>2
            <4> QED BY <3>1, <3>3, <4>1, <4>2, <4>3 DEF AnswerIsLast
        <3> QED BY <3>2, <3>3
    <2> QED BY <2>1, <2>2
<1>9. LoopSound(ids, after, n + 1)
    BY <1>5, <1>7, <1>8 DEF LoopSound
<1> QED BY <1>9 DEF after, i

\* All rows.
LEMMA LoopEnds ==
    ASSUME NEW ids \in Seq(Nat \ {0})
    PROVE  LoopSound(ids, LatestExchange(ids), Len(ids))
<1>1. Len(ids) \in Nat
    BY LenProperties
<1>2. PICK loop : Follows(loop, ids, Len(ids)) /\ LatestExchange(ids) = loop[Len(ids)]
    BY <1>1, HandoffLoop
<1>3. \A n \in 0..Len(ids) :
         loop[n] = IF n = 0 THEN NoExchange ELSE ExchangeWith(loop[n - 1], ids[n])
    BY <1>2 DEF Follows
<1> DEFINE Bad == {n \in 0..Len(ids) : ~LoopSound(ids, loop[n], n)}
<1>4. ASSUME Bad # {} PROVE FALSE
    <2>1. Bad \in SUBSET Nat
        BY <1>1
    <2>2. PICK n \in Bad : \A m \in Bad : n <= m
        BY <1>4, <2>1, LeastExists
    <2>3. n \in 0..Len(ids) /\ ~LoopSound(ids, loop[n], n)
        BY <2>2
    <2>4. CASE n = 0
        <3>1. loop[0] = NoExchange
            BY <1>1, <1>3
        <3>2. LoopSound(ids, NoExchange, 0)
            BY DEF LoopSound, PromptIsLast, AnswerIsLast, NoExchange
        <3> QED BY <2>3, <2>4, <3>1, <3>2
    <2>5. CASE n # 0
        <3>1. n - 1 \in 0..Len(ids) /\ n - 1 \in Nat /\ ~(n <= n - 1) /\ n - 1 + 1 = n /\ n <= Len(ids)
            BY <1>1, <2>3, <2>5
        <3>2. LoopSound(ids, loop[n - 1], n - 1)
            BY <2>2, <3>1
        <3>3. loop[n] = ExchangeWith(loop[n - 1], ids[n])
            BY <1>3, <2>3, <2>5
        <3> DEFINE m == n - 1
                   last == loop[m]
        <3> HIDE DEF m, last
        <3>4. LoopSound(ids, ExchangeWith(last, ids[m + 1]), m + 1)
            <4>1. m \in Nat /\ m + 1 <= Len(ids) /\ LoopSound(ids, last, m)
                BY <3>1, <3>2 DEF m, last
            <4> QED BY <4>1, LoopRound
        <3>5. LoopSound(ids, ExchangeWith(loop[n - 1], ids[n]), n)
            <4>1. m + 1 = n /\ last = loop[n - 1]
                BY <3>1 DEF m, last
            <4> QED BY <3>4, <4>1
        <3> QED BY <2>3, <3>3, <3>5
    <2> QED BY <2>4, <2>5
<1>5. LoopSound(ids, loop[Len(ids)], Len(ids))
    <2>1. Len(ids) \in 0..Len(ids)
        BY <1>1
    <2> QED BY <1>4, <2>1
<1> QED BY <1>2, <1>5

\* A handoff shows the latest exchange of the rows it reviews.
LEMMA HandoffOfRows ==
    ASSUME SessionTypeOK PROVE ExchangeIsLatest
<1> SUFFICES ASSUME NEW s \in known
             PROVE  LET ids == SummaryRowsOf(s)
                        exchange == LatestExchange(ids)
                        Is(n, sort) == entries[ids[n]].kind = sort
                    IN  IF exchange.assistant = 0 THEN \A n \in DOMAIN ids : ~Is(n, "response")
                        ELSE \E n \in DOMAIN ids :
                                /\ ids[n] = exchange.assistant /\ Is(n, "response")
                                /\ \A m \in DOMAIN ids : m > n => ~Is(m, "response")
                                /\ \A m \in 1..(n - 1) : Is(m, "prompt") =>
                                      \E l \in m..(n - 1) : ids[l] = exchange.user
    BY DEF ExchangeIsLatest
<1> DEFINE ids == SummaryRowsOf(s)
           exchange == LatestExchange(ids)
<1>1. ids \in Seq(1..Len(entries))
    BY LiveByTime
<1> HIDE DEF ids
<1>2. ids \in Seq(Nat \ {0}) /\ Len(ids) \in Nat /\ DOMAIN ids = 1..Len(ids)
    <2>1. 1..Len(entries) \subseteq Nat \ {0}
        OBVIOUS
    <2> QED BY <1>1, <2>1, SeqMonotonic, LenProperties
<1>3. exchange = LatestExchange(ids)
    OBVIOUS
<1> HIDE DEF exchange
<1>4. AnswerIsLast(ids, exchange, Len(ids))
    BY <1>2, <1>3, LoopEnds DEF LoopSound
<1>5. CASE exchange.assistant = 0
    BY <1>2, <1>4, <1>5 DEF AnswerIsLast, IsKind, ids, exchange
<1>6. CASE exchange.assistant # 0
    <2>1. PICK k \in 1..Len(ids) :
             /\ ids[k] = exchange.assistant /\ IsKind(ids, k, "response")
             /\ \A m \in (k + 1)..Len(ids) : ~IsKind(ids, m, "response")
             /\ \A m \in 1..(k - 1) : IsKind(ids, m, "prompt") =>
                   \E l \in m..(k - 1) : ids[l] = exchange.user
        BY <1>4, <1>6 DEF AnswerIsLast
    <2>2. \A m \in DOMAIN ids : m > k => m \in (k + 1)..Len(ids)
        BY <1>2
    <2>3. \A m \in DOMAIN ids : m > k => ~IsKind(ids, m, "response")
        BY <2>1, <2>2
    <2> QED BY <1>2, <1>6, <2>1, <2>3 DEF IsKind, ids, exchange
<1> QED BY <1>5, <1>6 DEF exchange, ids

\* For any sessions, events, limits and clock: the rows of the store are those
\* of known sessions, a summary reviews only rows that were stored before it,
\* and the exchange that buildStructuredHandoff shows is the last answer, among
\* the rows it reviews, with the last prompt before it, in the order of creation.
\* Which rows it reviews is part of it: the oldest SummaryRows of the session.
THEOREM HandoffsStaySound == SessionSpec => []HandoffSound
<1>1. SessionInit => SessionTypeOK
    BY EntriesStart
<1>2. SessionTypeOK /\ [SessionNext]_sessionVars => SessionTypeOK'
    BY EntriesStep
<1>3. SessionTypeOK => HandoffSound
    BY HandoffOfRows DEF HandoffSound
<1> QED BY <1>1, <1>2, <1>3, PTL DEF SessionSpec

------------------------------------------------------------------------------
(* The pollers: offsets pass over no line. *)

\* Pollers that read lines, and those of them that drop a repeated answer.
LineKinds == Kind \ {"whole", "message"}
Repeats == {"rollout", "claude"}

Even(n) == \E k \in Nat : n = 2 * k

\* An answer with this text was recorded, or refused by a poller that does not
\* look at the answer.
Heard(f, text) ==
    \E h \in recorded \cup (IF kind[f] = "rollout" THEN {} ELSE refused) :
        h[1] = f /\ h[3] = text

FilesTyped ==
    /\ IngestTypeOK
    /\ kind \in [File -> Kind] /\ lines \in [File -> Seq(LineText)]
    /\ fresh \in [File -> Nat] /\ \A f \in File : kind[f] = "rows" => fresh[f] # 0
    /\ \A f \in File : Size(f) <= 2 * MaxLines

\* A stored offset lies within its file or out of reach, a line never across it;
\* a stored context was recorded; and nothing is passed over.
FileSound(f) ==
    /\ off[f] # None => /\ off[f] <= Size(f) \/ from[f] >= off[f]
                        /\ kind[f] \in LineKinds => from[f] >= off[f] \/ Even(off[f])
                        /\ RecordedBelow(f)
    /\ kind[f] \in Repeats /\ ctx[f] # None => Heard(f, ctx[f])

Told == LineText \cup (Seq(LineText) \X BOOLEAN)

Visits ==
    [file : File, step : {"read", "record", "offset"}, base : Nat, size : Nat,
     offset : Nat, todo : Seq([pos : Nat, text : Told]), next : Nat,
     last : LineText \cup {None}, restart : BOOLEAN, replay : BOOLEAN,
     rotated : BOOLEAN]

\* Where a visit began, as long as its file was not replaced.
VisitBegan(p) ==
    /\ kind[p.file] # "absent"
    /\ ~p.rotated => /\ p.base <= Size(p.file) /\ p.size <= Size(p.file)
                     /\ p.offset <= Size(p.file)
    /\ p.restart => p.base = 0
    /\ off[p.file] = None => p.offset = 0 /\ Even(p.base)
    /\ off[p.file] # None => /\ p.offset \in {0, off[p.file]}
                             /\ ~p.restart => p.base = off[p.file]

\* Event n of a visit speaks for line i: it is the line's, or an earlier one with
\* the same text for the pollers that drop repeated answers.
SpeaksFor(p, n, i) ==
    /\ p.todo[n].text = lines[p.file][i]
    /\ p.todo[n].pos <= 2 * (i - 1)
    /\ kind[p.file] \in Repeats \/ p.todo[n].pos = 2 * (i - 1)

\* The events of lines lie in order below the next offset.
EventsInOrder(p) ==
    /\ p.next = p.base \/ Even(p.next)
    /\ \A n \in DOMAIN p.todo : /\ p.todo[n].text \in LineText
                                /\ Even(p.todo[n].pos) /\ p.todo[n].pos + 2 <= p.next
    /\ \A m, n \in DOMAIN p.todo : m < n => p.todo[m].pos < p.todo[n].pos

\* What the next offset will pass was recorded or waits in the visit.
VisitCovers(p) ==
    \A i \in DOMAIN lines[p.file] :
        lines[p.file][i] # Noise /\ p.base <= 2 * (i - 1) /\ 2 * i <= p.next =>
            Accounted(p.file, i) \/ \E n \in DOMAIN p.todo : SpeaksFor(p, n, i)

WholeCovered(p) ==
    \/ Hash(p.file, Head(ParseWhole(p.file))) \in recorded \cup refused
    \/ \E n \in DOMAIN p.todo : p.todo[n] = Head(ParseWhole(p.file))

\* What a visit holds once it has read.
VisitHolds(p) ==
    /\ ~p.rotated => p.next <= Size(p.file)
    /\ kind[p.file] \in LineKinds => EventsInOrder(p) /\ (~p.rotated => VisitCovers(p))
    /\ kind[p.file] \in Repeats /\ p.last # None =>
           \/ Heard(p.file, p.last)
           \/ /\ kind[p.file] = "claude"
              /\ \E n \in DOMAIN p.todo : p.todo[n].text = p.last
    /\ kind[p.file] = "whole" =>
           /\ p.next = p.size
           /\ ~p.rotated /\ p.size = Size(p.file) /\ p.size > 0 => WholeCovered(p)
    /\ kind[p.file] = "message" /\ p.next # p.base =>
           p.todo # <<>> \/ \E h \in recorded \cup refused : h[1] = p.file
    /\ p.step = "offset" => p.todo = <<>>

VisitSound ==
    poll # None =>
        /\ poll \in Visits /\ VisitBegan(poll)
        /\ poll.step # "read" => VisitHolds(poll)

IngestInv == FilesTyped /\ (\A f \in File : FileSound(f)) /\ VisitSound

\* The file f stays or grows, and what was recorded or refused stays so.
Continues(f) ==
    /\ kind' = kind /\ recorded \subseteq recorded' /\ refused \subseteq refused'
    /\ Len(lines[f]) <= Len(lines'[f])
    /\ \A i \in DOMAIN lines[f] : lines'[f][i] = lines[f][i]
    /\ \/ lines'[f] = lines[f] /\ tail'[f] = tail[f]
       \/ Size(f)' > Size(f)

\* There is only room for a line where the file leaves some.
LEMMA RoomLeft ==
    ASSUME FilesTyped, Room, NEW f \in File
    PROVE  Size(f) < 2 * MaxLines - 1
<1> DEFINE begun == {b \in File \X (1..MaxLines) : 2 * b[2] - 1 <= Size(b[1])}
           own == {f} \X (1..MaxLines)
<1>1. MaxLines \in Nat /\ Size(f) \in Nat /\ IsFiniteSet(File)
    BY IngestAssumption, LenProperties DEF FilesTyped, IngestTypeOK, Size
<1>2. IsFiniteSet(1..MaxLines) /\ Cardinality(1..MaxLines) = MaxLines
    BY <1>1, FS_Interval
<1>3. IsFiniteSet(begun)
  <2>1. IsFiniteSet(File \X (1..MaxLines))
      BY <1>1, <1>2, FS_Product
  <2> QED BY <2>1, FS_Subset
<1>4. IsFiniteSet(own) /\ Cardinality(own) = MaxLines
  <2>1. IsFiniteSet({f}) /\ Cardinality({f}) = 1
      BY FS_Singleton
  <2>2. /\ IsFiniteSet(own)
        /\ Cardinality(own) = Cardinality({f}) * Cardinality(1..MaxLines)
      BY <2>1, <1>2, FS_Product
  <2> QED BY <1>1, <1>2, <2>1, <2>2
<1>5. Cardinality(begun) < MaxLines /\ Cardinality(begun) \in Nat
    BY <1>3, FS_CardinalityType DEF Room
<1> SUFFICES ASSUME ~(Size(f) < 2 * MaxLines - 1) PROVE FALSE
    OBVIOUS
<1>6. own \subseteq begun
  <2> SUFFICES ASSUME NEW k \in 1..MaxLines PROVE <<f, k>> \in begun
      OBVIOUS
  <2>1. 2 * k - 1 <= Size(f)
      BY <1>1
  <2> QED BY <2>1
<1>7. Cardinality(own) <= Cardinality(begun)
    BY <1>3, <1>6, FS_Subset
<1> QED BY <1>1, <1>4, <1>5, <1>7

LEMMA Sizes ==
    ASSUME FilesTyped, NEW f \in File
    PROVE  /\ lines[f] \in Seq(LineText) /\ Len(lines[f]) \in Nat
           /\ DOMAIN lines[f] = 1..Len(lines[f])
           /\ \A i \in DOMAIN lines[f] : lines[f][i] \in LineText
           /\ Size(f) \in Nat /\ Size(f) \in {2 * Len(lines[f]), 2 * Len(lines[f]) + 1}
           /\ off[f] \in Nat \cup {None} /\ from[f] \in Nat /\ kind[f] \in Kind
           /\ ctx[f] \in LineText \cup {None} /\ fresh[f] \in Nat
           /\ kind[f] = "rows" => fresh[f] # 0
           /\ tail[f] \in BOOLEAN
<1>1. lines[f] \in Seq(LineText)
    BY DEF FilesTyped, IngestTypeOK
<1>2. /\ Len(lines[f]) \in Nat /\ DOMAIN lines[f] = 1..Len(lines[f])
      /\ \A i \in DOMAIN lines[f] : lines[f][i] \in LineText
    BY <1>1, LenProperties
<1>3. Size(f) \in Nat /\ Size(f) \in {2 * Len(lines[f]), 2 * Len(lines[f]) + 1}
  <2>1. CASE tail[f]
      BY <1>2, <2>1 DEF Size
  <2>2. CASE ~tail[f]
      BY <1>2, <2>2 DEF Size
  <2> QED BY <2>1, <2>2
<1>4. /\ off[f] \in Nat \cup {None} /\ from[f] \in Nat /\ kind[f] \in Kind
      /\ ctx[f] \in LineText \cup {None} /\ fresh[f] \in Nat
      /\ kind[f] = "rows" => fresh[f] # 0
      /\ tail[f] \in BOOLEAN
    BY DEF FilesTyped, IngestTypeOK
<1> QED BY <1>1, <1>2, <1>3, <1>4

LEMMA SizesAfter ==
    ASSUME FilesTyped', NEW f \in File
    PROVE  /\ lines'[f] \in Seq(LineText) /\ Len(lines'[f]) \in Nat
           /\ DOMAIN lines'[f] = 1..Len(lines'[f])
           /\ Size(f)' \in Nat /\ Size(f)' \in {2 * Len(lines'[f]), 2 * Len(lines'[f]) + 1}
<1>1. lines'[f] \in Seq(LineText)
    BY DEF FilesTyped, IngestTypeOK
<1>2. Len(lines'[f]) \in Nat /\ DOMAIN lines'[f] = 1..Len(lines'[f])
    BY <1>1, LenProperties
<1>3. Size(f)' \in Nat /\ Size(f)' \in {2 * Len(lines'[f]), 2 * Len(lines'[f]) + 1}
  <2>1. CASE tail'[f]
      BY <1>2, <2>1 DEF Size
  <2>2. CASE ~tail'[f]
      BY <1>2, <2>2 DEF Size
  <2> QED BY <2>1, <2>2
<1> QED BY <1>1, <1>2, <1>3

LEMMA HeardStays ==
    ASSUME NEW f \in File, Continues(f), NEW text, Heard(f, text)
    PROVE  Heard(f, text)'
BY DEF Continues, Heard

LEMMA AccountedStays ==
    ASSUME NEW f \in File, Continues(f), NEW i \in DOMAIN lines[f], Accounted(f, i)
    PROVE  Accounted(f, i)'
<1>1. lines'[f][i] = lines[f][i] /\ kind' = kind
    BY DEF Continues
<1>2. CASE kind[f] \in {"rollout", "claude"}
    BY <1>1, <1>2 DEF Accounted, Continues
<1>3. CASE kind[f] \notin {"rollout", "claude"}
    BY <1>1, <1>3 DEF Accounted, Continues, Hash, Event
<1> QED BY <1>2, <1>3

\* A file of which neither offset nor context move stays sound when it grows.
LEMMA FileStays ==
    ASSUME FilesTyped, FilesTyped', NEW f \in File, FileSound(f), Continues(f),
           off'[f] = off[f], from'[f] = from[f], ctx'[f] = ctx[f]
    PROVE  FileSound(f)'
<1>1. kind' = kind /\ Size(f) \in Nat /\ Size(f)' \in Nat /\ Size(f) <= Size(f)'
  <2>1. Size(f) \in Nat /\ Size(f)' \in Nat
      BY Sizes, SizesAfter
  <2>2. CASE lines'[f] = lines[f] /\ tail'[f] = tail[f]
    <3>1. Size(f)' = Size(f)
        BY <2>2 DEF Size
    <3> QED BY <2>1, <3>1 DEF Continues
  <2>3. CASE Size(f)' > Size(f)
      BY <2>1, <2>3 DEF Continues
  <2> QED BY <2>1, <2>2, <2>3 DEF Continues
<1>2. kind[f] \in Repeats /\ ctx'[f] # None => Heard(f, ctx[f])'
    BY <1>1, HeardStays DEF FileSound
<1>3. ASSUME off[f] # None PROVE RecordedBelow(f)'
  <2>1. RecordedBelow(f) /\ off[f] \in Nat /\ from[f] \in Nat
        /\ (off[f] <= Size(f) \/ from[f] >= off[f])
      BY <1>3, Sizes DEF FileSound
  <2>2. ASSUME kind[f] = "whole", off[f] = Size(f)', Size(f)' > 0, from[f] = 0
        PROVE  Hash(f, Head(ParseWhole(f)))' \in recorded' \cup refused'
    <3>0. lines'[f] = lines[f] /\ tail'[f] = tail[f]
        BY <1>1, <2>1, <2>2 DEF Continues
    <3>1. lines'[f] = lines[f] /\ tail'[f] = tail[f] /\ Size(f)' = Size(f)
        BY <3>0 DEF Size
    <3>2. Hash(f, Head(ParseWhole(f))) \in recorded \cup refused
        BY <2>1, <2>2, <3>1 DEF RecordedBelow
    <3>3. Hash(f, Head(ParseWhole(f)))' = Hash(f, Head(ParseWhole(f)))
        BY <3>1 DEF ParseWhole, Hash
    <3> QED BY <3>2, <3>3 DEF Continues
  <2>3. ASSUME kind[f] = "message", off[f] > from[f]
        PROVE  \E h \in recorded' \cup refused' : h[1] = f
      BY <2>1, <2>3 DEF RecordedBelow, Continues
  <2>4. ASSUME kind[f] \notin {"whole", "message"}, NEW i \in DOMAIN lines'[f],
               InReach(f, i)', 2 * i <= off[f]
        PROVE  Accounted(f, i)'
    <3>1. i \in Nat \ {0}
      <4>1. lines'[f] \in Seq(LineText)
          BY DEF FilesTyped, IngestTypeOK
      <4> QED BY <4>1, LenProperties
    <3>2. i \in DOMAIN lines[f]
      <4>1. 2 * (i - 1) >= from[f]
          BY <2>4, <1>1 DEF InReach
      <4>2. off[f] <= Size(f)
          BY <2>1, <2>4, <3>1, <4>1
      <4>3. /\ Len(lines[f]) \in Nat /\ DOMAIN lines[f] = 1..Len(lines[f])
            /\ Size(f) \in {2 * Len(lines[f]), 2 * Len(lines[f]) + 1}
          BY Sizes
      <4> QED BY <1>1, <2>1, <2>4, <3>1, <4>2, <4>3
    <3>3. InReach(f, i)
        BY <2>4, <3>2 DEF InReach, Continues
    <3> QED BY <2>1, <2>4, <3>2, <3>3, AccountedStays DEF RecordedBelow
  <2> QED BY <1>1, <2>2, <2>3, <2>4 DEF RecordedBelow
<1>4. ASSUME off[f] # None
      PROVE  /\ off[f] <= Size(f)' \/ from[f] >= off[f]
             /\ kind[f] \in LineKinds => from[f] >= off[f] \/ Even(off[f])
    BY <1>1, <1>4, Sizes DEF FileSound
<1> QED BY <1>1, <1>2, <1>3, <1>4 DEF FileSound

\* So does the visit under way.
LEMMA VisitStays ==
    ASSUME FilesTyped, FilesTyped', VisitSound, poll' = poll, poll # None,
           Continues(poll.file), off' = off
    PROVE  VisitSound'
<1> DEFINE f == poll.file
<1>1. /\ f \in File /\ poll \in Visits /\ kind' = kind /\ poll.base \in Nat
      /\ poll.next \in Nat /\ poll.size \in Nat /\ poll.offset \in Nat
    BY DEF VisitSound, Visits, Continues
<1>2. Size(f) \in Nat /\ Size(f)' \in Nat /\ Size(f) <= Size(f)'
  <2>1. Size(f) \in Nat /\ Size(f)' \in Nat
      BY <1>1, Sizes, SizesAfter
  <2>2. CASE lines'[f] = lines[f] /\ tail'[f] = tail[f]
    <3>1. Size(f)' = Size(f)
        BY <2>2 DEF Size
    <3> QED BY <2>1, <3>1
  <2>3. CASE Size(f)' > Size(f)
      BY <2>1, <2>3
  <2> QED BY <2>1, <2>2, <2>3 DEF Continues
<1>3. VisitBegan(poll)'
    BY <1>1, <1>2 DEF VisitSound, VisitBegan
<1>4. ASSUME poll.step # "read" PROVE VisitHolds(poll)'
  <2>1. VisitHolds(poll)
      BY <1>4 DEF VisitSound
  <2>2. ASSUME ~poll.rotated, VisitCovers(poll) PROVE VisitCovers(poll)'
    <3> SUFFICES ASSUME NEW i \in DOMAIN lines'[f], lines'[f][i] # Noise,
                        poll.base <= 2 * (i - 1), 2 * i <= poll.next
                 PROVE  Accounted(f, i)' \/ \E n \in DOMAIN poll.todo : SpeaksFor(poll, n, i)'
        BY DEF VisitCovers
    <3>1. i \in Nat \ {0}
      <4>1. lines'[f] \in Seq(LineText)
          BY <1>1 DEF FilesTyped, IngestTypeOK
      <4> QED BY <4>1, LenProperties
    <3>2. i \in DOMAIN lines[f]
      <4>1. poll.next <= Size(f)
          BY <2>1, <2>2 DEF VisitHolds
      <4>2. 2 * i <= Size(f) /\ i \in Nat
          BY <1>1, <1>2, <3>1, <4>1
      <4> HIDE DEF f
      <4>3. /\ DOMAIN lines[f] = 1..Len(lines[f]) /\ Len(lines[f]) \in Nat
            /\ Size(f) \in {2 * Len(lines[f]), 2 * Len(lines[f]) + 1}
          BY <1>1, Sizes
      <4> QED BY <3>1, <4>2, <4>3
    <3>3. lines[f][i] = lines'[f][i]
        BY <3>2 DEF Continues
    <3>4. Accounted(f, i) \/ \E n \in DOMAIN poll.todo : SpeaksFor(poll, n, i)
        BY <2>2, <3>2, <3>3 DEF VisitCovers
    <3> QED BY <1>1, <3>2, <3>3, <3>4, AccountedStays DEF SpeaksFor
  <2>3. kind[f] \in Repeats /\ poll.last # None =>
           \/ Heard(f, poll.last)'
           \/ /\ kind[f] = "claude"
              /\ \E n \in DOMAIN poll.todo : poll.todo[n].text = poll.last
      BY <1>1, <2>1, HeardStays DEF VisitHolds
  <2>4. ASSUME kind[f] = "whole", ~poll.rotated, poll.size = Size(f)', poll.size > 0
        PROVE  WholeCovered(poll)'
    <3>1. poll.size <= Size(f)
        BY <2>4 DEF VisitSound, VisitBegan
    <3>2. lines'[f] = lines[f] /\ tail'[f] = tail[f]
        BY <1>1, <1>2, <2>4, <3>1 DEF Continues
    <3>3. Size(f)' = Size(f)
        BY <3>2 DEF Size
    <3>4. WholeCovered(poll)
        BY <2>1, <2>4, <3>3 DEF VisitHolds
    <3>5. ParseWhole(f)' = ParseWhole(f)
        BY <3>2, <3>3 DEF ParseWhole
    <3> QED BY <3>4, <3>5 DEF WholeCovered, Hash, Continues
  <2>5. kind[f] = "message" /\ poll.next # poll.base =>
           poll.todo # <<>> \/ \E h \in recorded' \cup refused' : h[1] = f
      BY <2>1 DEF VisitHolds, Continues
  <2>6. kind[f] \in LineKinds => EventsInOrder(poll)'
      BY <2>1 DEF VisitHolds, EventsInOrder
  <2>7. ~poll.rotated => poll.next <= Size(f)'
      BY <1>1, <1>2, <2>1 DEF VisitHolds
  <2>8. kind[f] = "whole" => poll.next = poll.size
      BY <2>1 DEF VisitHolds
  <2>9. poll.step = "offset" => poll.todo = <<>>
      BY <2>1 DEF VisitHolds
  <2>10. kind[f] \in LineKinds /\ ~poll.rotated => VisitCovers(poll)'
      BY <2>1, <2>2 DEF VisitHolds
  <2> QED BY <1>1, <2>3, <2>4, <2>5, <2>6, <2>7, <2>8, <2>9, <2>10 DEF VisitHolds
<1> QED BY <1>1, <1>3, <1>4 DEF VisitSound

------------------------------------------------------------------------------
(* What the parsers take from a file. *)

LEMMA Consuming ==
    ASSUME FilesTyped, NEW f \in File, NEW base \in Nat, NEW end \in Nat
    PROVE  /\ Consumed(f, base, end) \in Nat /\ base <= Consumed(f, base, end)
           /\ \/ Consumed(f, base, end) = base
              \/ /\ Even(Consumed(f, base, end))
                 /\ Consumed(f, base, end) <= end /\ Consumed(f, base, end) <= Size(f)
           /\ \A i \in Complete(f, base, end) : 2 * i <= Consumed(f, base, end)
           /\ \A i \in DOMAIN lines[f] :
                 base <= 2 * (i - 1) /\ 2 * i <= Consumed(f, base, end)
                     => i \in Complete(f, base, end)
<1> DEFINE ends == {2 * i : i \in {j \in DOMAIN lines[f] : 2 * j <= end /\ 2 * j > base}}
<1>1. \A i \in DOMAIN lines[f] : i \in Nat \ {0} /\ 2 * i <= Size(f)
    BY Sizes
<1>2. ends \subseteq Nat
    BY <1>1
<1>3. CASE ends = {}
  <2>1. Consumed(f, base, end) = base
      BY <1>3 DEF Consumed
  <2>2. ASSUME NEW i \in Complete(f, base, end) PROVE FALSE
    <3>1. i \in DOMAIN lines[f] /\ base <= 2 * (i - 1) /\ 2 * i <= end
        BY <2>2 DEF Complete
    <3>2. 2 * i \in ends
        BY <1>1, <3>1
    <3> QED BY <1>3, <3>2
  <2>3. ASSUME NEW i \in DOMAIN lines[f], base <= 2 * (i - 1), 2 * i <= base PROVE FALSE
      BY <1>1, <2>3
  <2> QED BY <2>1, <2>2, <2>3
<1>4. CASE ends # {}
  <2>1. PICK last \in ends : \A e \in ends : e <= last
    <3>1. \A e \in ends : e <= end
        OBVIOUS
    <3> HIDE DEF ends
    <3> QED BY <1>2, <1>4, <3>1, GreatestExists
  <2>2. Consumed(f, base, end) \in ends /\ \A e \in ends : e <= Consumed(f, base, end)
    <3>1. Consumed(f, base, end) = CHOOSE e \in ends : \A d \in ends : d <= e
        BY <1>4 DEF Consumed
    <3> HIDE DEF ends
    <3> QED BY <2>1, <3>1
  <2>3. PICK k \in DOMAIN lines[f] : /\ Consumed(f, base, end) = 2 * k
                                     /\ 2 * k <= end /\ 2 * k > base
      BY <2>2
  <2>4. Even(Consumed(f, base, end)) /\ k \in Nat
      BY <1>1, <2>3 DEF Even
  <2>5. ASSUME NEW i \in Complete(f, base, end) PROVE 2 * i <= Consumed(f, base, end)
    <3>1. i \in DOMAIN lines[f] /\ base <= 2 * (i - 1) /\ 2 * i <= end
        BY <2>5 DEF Complete
    <3>2. 2 * i \in ends
        BY <1>1, <3>1
    <3> QED BY <2>2, <3>2
  <2>6. ASSUME NEW i \in DOMAIN lines[f], base <= 2 * (i - 1),
               2 * i <= Consumed(f, base, end)
        PROVE  i \in Complete(f, base, end)
      BY <1>1, <2>3, <2>6 DEF Complete
  <2> HIDE DEF ends
  <2> QED BY <1>1, <2>3, <2>4, <2>5, <2>6
<1> QED BY <1>3, <1>4

LEMMA EventsOf ==
    ASSUME FilesTyped, NEW f \in File, NEW chosen \in SUBSET DOMAIN lines[f]
    PROVE  /\ InOrder(f, chosen) \in Seq([pos : Nat, text : LineText])
           /\ \A n \in DOMAIN InOrder(f, chosen) :
                 \E i \in chosen : InOrder(f, chosen)[n] = Event(f, i)
           /\ \A i \in chosen :
                 \E n \in DOMAIN InOrder(f, chosen) : InOrder(f, chosen)[n] = Event(f, i)
           /\ \A m, n \in DOMAIN InOrder(f, chosen) :
                 m < n => InOrder(f, chosen)[m].pos < InOrder(f, chosen)[n].pos
<1> DEFINE s == Ascending(chosen)
           e == InOrder(f, chosen)
<1>1. /\ chosen \in SUBSET Nat /\ IsFiniteSet(chosen)
      /\ \A i \in chosen : i \in Nat \ {0} /\ lines[f][i] \in LineText
  <2>1. DOMAIN lines[f] = 1..Len(lines[f]) /\ Len(lines[f]) \in Nat
        /\ \A i \in DOMAIN lines[f] : lines[f][i] \in LineText
      BY Sizes
  <2>2. IsFiniteSet(DOMAIN lines[f])
    <3> DEFINE n == Len(lines[f])
    <3>1. 0 + 1 \in Int /\ n \in Int
        BY <2>1
    <3>2. ASSUME NEW k \in Int PROVE IsFiniteSet(1..k)
        BY <3>2, FS_Interval
    <3> QED BY <2>1, <3>1, <3>2
  <2>3. IsFiniteSet(chosen)
      BY <2>2, FS_Subset
  <2> QED BY <2>1, <2>3
<1>2. /\ s \in Seq(chosen)
      /\ \A i \in chosen : \E n \in DOMAIN s : s[n] = i
      /\ \A m, n \in DOMAIN s : m < n => s[m] < s[n]
    BY <1>1, AscendingList
<1>3. /\ DOMAIN s = 1..Len(s) /\ Len(s) \in Nat
      /\ \A n \in DOMAIN s : s[n] \in chosen
    BY <1>2, LenProperties
<1>4. e = [n \in DOMAIN s |-> Event(f, s[n])]
    BY DEF InOrder
<1>5. \A i \in chosen : /\ Event(f, i) \in [pos : Nat, text : LineText]
                        /\ Event(f, i).pos = 2 * (i - 1)
    BY <1>1 DEF Event
<1> HIDE DEF s, e
<1>6. e \in Seq([pos : Nat, text : LineText])
  <2>1. e \in [1..Len(s) -> [pos : Nat, text : LineText]]
      BY <1>3, <1>4, <1>5
  <2> DEFINE X == [pos : Nat, text : LineText]
  <2> HIDE DEF X
  <2>2. ASSUME NEW n \in Nat, NEW u \in [1..n -> X] PROVE u \in Seq(X)
      OBVIOUS
  <2>3. e \in [1..Len(s) -> X]
      BY <2>1 DEF X
  <2>4. e \in Seq(X)
      BY <1>3, <2>2, <2>3
  <2> QED BY <2>4 DEF X
<1>7. DOMAIN e = DOMAIN s /\ \A n \in DOMAIN s : e[n] = Event(f, s[n])
    BY <1>4
<1>8. ASSUME NEW m \in DOMAIN e, NEW n \in DOMAIN e, m < n PROVE e[m].pos < e[n].pos
  <2>1. s[m] < s[n] /\ s[m] \in Nat /\ s[n] \in Nat
      BY <1>1, <1>2, <1>3, <1>7, <1>8
  <2> QED BY <1>3, <1>5, <1>7, <2>1
<1> QED BY <1>2, <1>3, <1>6, <1>7, <1>8 DEF e

\* A speaking line is read as an event, or an earlier event or the context says
\* the same.
LEMMA AnswerKept ==
    ASSUME FilesTyped, NEW f \in File, NEW some \in SUBSET DOMAIN lines[f], NEW context,
           NEW i \in Speaking(f, some)
    PROVE  \/ lines[f][i] = context
           \/ \E j \in Speaking(f, some) : /\ j <= i /\ lines[f][j] = lines[f][i]
                                           /\ lines[f][j] # Before(f, some, context, j)
<1> DEFINE speaking == Speaking(f, some)
           same == {k \in speaking :
                        k <= i /\ \A m \in speaking : k <= m /\ m <= i => lines[f][m] = lines[f][i]}
<1>1. speaking \subseteq Nat /\ i \in speaking
    BY Sizes DEF Speaking
<1> HIDE DEF speaking
<1>2. i \in same
  <2>1. i \in Nat /\ \A m \in speaking : i <= m /\ m <= i => m = i
      BY <1>1
  <2> QED BY <1>1, <2>1
<1>3. PICK k \in same : \A n \in same : k <= n
  <2>1. same \in SUBSET Nat /\ same # {}
      BY <1>1, <1>2
  <2> HIDE DEF same
  <2> QED BY <2>1, LeastExists
<1>4. k \in speaking /\ k \in Nat /\ i \in Nat /\ k <= i /\ lines[f][k] = lines[f][i]
    BY <1>1, <1>3
<1>5. ASSUME lines[f][k] = Before(f, some, context, k) PROVE lines[f][i] = context
  <2> DEFINE prior == {j \in speaking : j < k}
  <2>1. CASE prior = {}
      BY <1>4, <1>5, <2>1 DEF Before, speaking
  <2>2. CASE prior # {}
    <3>1. PICK p \in prior : \A j \in prior : j <= p
      <4>1. prior \in SUBSET Nat
          BY <1>1
      <4>2. ASSUME NEW j \in prior PROVE j <= k
          BY <1>1, <1>4
      <4> HIDE DEF prior
      <4> QED BY <1>4, <2>2, <4>1, <4>2, GreatestExists
    <3>2. PICK q \in prior : /\ \A j \in prior : j <= q
                             /\ Before(f, some, context, k) = lines[f][q]
      <4>1. Before(f, some, context, k)
                = lines[f][CHOOSE j \in prior : \A l \in prior : l <= j]
          BY <2>2 DEF Before, speaking
      <4> HIDE DEF prior
      <4> QED BY <3>1, <4>1
    <3>3. lines[f][q] = lines[f][i] /\ q \in Nat /\ q < k /\ q \in speaking
        BY <1>1, <1>4, <1>5, <3>2
    <3>4. ASSUME NEW m \in speaking, q <= m, m <= i PROVE lines[f][m] = lines[f][i]
      <4>1. m \in Nat
          BY <1>1
      <4>2. CASE m < k
        <5>1. m <= q
            BY <3>2, <4>2
        <5> QED BY <3>3, <3>4, <4>1, <5>1
      <4>3. CASE k <= m
          BY <1>3, <3>4, <4>3
      <4> QED BY <1>4, <4>1, <4>2, <4>3
    <3>5. q \in same
        BY <1>4, <3>3, <3>4
    <3> QED BY <1>3, <1>4, <3>3, <3>5
  <2> QED BY <2>1, <2>2
<1> QED BY <1>4, <1>5 DEF speaking

\* The last answer before a line is the context or what a speaking line says.
LEMMA AnswerBefore ==
    ASSUME FilesTyped, NEW f \in File, NEW some \in SUBSET DOMAIN lines[f], NEW context,
           NEW i \in Nat
    PROVE  \/ Before(f, some, context, i) = context
           \/ \E j \in Speaking(f, some) : Before(f, some, context, i) = lines[f][j]
<1> DEFINE prior == {j \in Speaking(f, some) : j < i}
<1>1. CASE prior = {}
    BY <1>1 DEF Before
<1>2. CASE prior # {}
  <2>1. prior \in SUBSET Nat /\ \A j \in prior : j <= i
      BY Sizes DEF Speaking
  <2>2. PICK p \in prior : \A j \in prior : j <= p
    <3> HIDE DEF prior
    <3> QED BY <1>2, <2>1, GreatestExists
  <2>3. Before(f, some, context, i) = lines[f][CHOOSE j \in prior : \A k \in prior : k <= j]
      BY <1>2 DEF Before
  <2>4. PICK q \in prior : Before(f, some, context, i) = lines[f][q]
    <3> HIDE DEF prior
    <3> QED BY <2>2, <2>3
  <2> QED BY <2>4
<1> QED BY <1>1, <1>2

\* A chunk of lines is read as the events of the speaking ones, for some pollers
\* without those that repeat the answer before them.
LEMMA ParsedLines ==
    ASSUME FilesTyped, poll \in Visits, kind[poll.file] \in LineKinds \ {"absent"}
    PROVE  LET f == poll.file
               speaking == Speaking(f, Complete(f, poll.base, ReadEnd(f)))
           IN  \E chosen \in SUBSET speaking :
                  /\ Parsed(f) = InOrder(f, chosen)
                  /\ \A i \in speaking :
                        \/ i \in chosen
                        \/ /\ kind[f] \in Repeats
                           /\ \/ ctx[f] # None /\ lines[f][i] = ctx[f]
                              \/ \E j \in chosen : j <= i /\ lines[f][j] = lines[f][i]
<1> DEFINE f == poll.file
           some == Complete(f, poll.base, ReadEnd(f))
           speaking == Speaking(f, some)
           context == IF kind[f] = "claude" /\ poll.replay THEN None ELSE ctx[f]
           answers == {i \in speaking : lines[f][i] # Before(f, some, context, i)}
<1>1. /\ f \in File /\ kind[f] \in LineKinds \ {"absent"} /\ poll.replay \in BOOLEAN
      /\ some \in SUBSET DOMAIN lines[f] /\ speaking \subseteq some
      /\ \A i \in speaking : lines[f][i] # None
    BY IngestAssumption, Sizes DEF Visits, Complete, Speaking
<1>2. CASE kind[f] \notin Repeats
  <2>1. Parsed(f) = InOrder(f, speaking)
    <3>1. kind[f] \in {"history", "rows", "cursor", "gemini", "planner"}
        BY <1>1, <1>2 DEF LineKinds, Kind, Repeats
    <3>2. CASE kind[f] = "history"
        BY <3>2 DEF Parsed, ParseHistory
    <3>3. CASE kind[f] = "rows"
        BY <3>3 DEF Parsed, ParseRows
    <3>4. CASE kind[f] = "cursor"
        BY <3>4 DEF Parsed, ParseCursor
    <3>5. CASE kind[f] = "gemini"
        BY <3>5 DEF Parsed, ParseGemini
    <3>6. CASE kind[f] = "planner"
        BY <3>6 DEF Parsed, ParsePlanner
    <3> QED BY <3>1, <3>2, <3>3, <3>4, <3>5, <3>6
  <2> QED BY <2>1
<1>3. CASE kind[f] \in Repeats
  <2>1. Parsed(f) = InOrder(f, answers)
    <3>1. CASE kind[f] = "rollout"
        BY <3>1 DEF Parsed, ParseRollout
    <3>2. CASE kind[f] = "claude"
        BY <3>2 DEF Parsed, ParseClaude
    <3> QED BY <1>3, <3>1, <3>2 DEF Repeats
  <2>2. ASSUME NEW i \in speaking
        PROVE  \/ ctx[f] # None /\ lines[f][i] = ctx[f]
               \/ \E j \in answers : j <= i /\ lines[f][j] = lines[f][i]
    <3>1. lines[f][i] # None
        BY <1>1
    <3>2. \/ lines[f][i] = context
          \/ \E j \in speaking : /\ j <= i /\ lines[f][j] = lines[f][i]
                                 /\ lines[f][j] # Before(f, some, context, j)
      <4> HIDE DEF f, some, context
      <4> QED BY <1>1, AnswerKept
    <3> QED BY <3>1, <3>2
  <2> HIDE DEF answers
  <2>3. answers \subseteq speaking
      BY DEF answers
  <2> QED BY <1>3, <2>1, <2>2, <2>3
<1> QED BY <1>2, <1>3

\* The budget of bytes only shortens what is read.
LEMMA Fitting ==
    ASSUME FilesTyped, NEW f \in File, NEW end \in Nat
    PROVE  Fits(f, end) \in Nat /\ Fits(f, end) <= end
<1> DEFINE cuts == {2 * (i - 1) : i \in {j \in DOMAIN lines[f] :
                                             lines[f][j] \in Oversize /\ 2 * j > poll.base}}
           ends == cuts \cup {end}
<1>1. \A i \in DOMAIN lines[f] : i \in Nat \ {0}
    BY Sizes
<1>2. ends \subseteq Nat /\ end \in ends
    BY <1>1
<1>3. Fits(f, end) = CHOOSE e \in ends : \A c \in ends : e <= c
    BY DEF Fits
<1> HIDE DEF ends
<1>4. PICK e \in ends : \A c \in ends : e <= c
    BY <1>2, LeastExists
<1> QED BY <1>2, <1>3, <1>4

\* What a poller of lines holds after it has read.
LEMMA ReadingLines ==
    ASSUME IngestInv, poll # None, kind[poll.file] \in LineKinds, Read
    PROVE  /\ poll'.next \in Nat /\ poll'.todo \in Seq([pos : Nat, text : LineText])
           /\ ~poll.rotated => poll'.next <= Size(poll.file)
           /\ EventsInOrder(poll)'
           /\ ~poll.rotated => VisitCovers(poll)'
           /\ kind[poll.file] = "claude" /\ poll'.last # None =>
                 \/ Heard(poll.file, poll'.last)
                 \/ \E n \in DOMAIN poll'.todo : poll'.todo[n].text = poll'.last
<1> DEFINE f == poll.file
           some == Complete(f, poll.base, ReadEnd(f))
           speaking == Speaking(f, some)
<1>1. /\ FilesTyped /\ poll \in Visits /\ VisitBegan(poll) /\ FileSound(f)
      /\ kind[f] \in LineKinds \ {"absent"} /\ f \in File
      /\ poll.base \in Nat /\ poll.size \in Nat
    BY DEF IngestInv, VisitSound, VisitBegan, Visits
<1>2. /\ poll'.todo = Parsed(f) /\ poll'.next = Consumed(f, poll.base, ReadEnd(f))
      /\ poll'.last = IF kind[f] = "claude" THEN ContextAfter(f) ELSE ctx[f]
      /\ poll'.file = f /\ poll'.base = poll.base
  <2>1. poll' = [poll EXCEPT !.step = "record", !.todo = Parsed(f), !.next = NextOffset(f),
                             !.last = IF kind[f] = "claude" THEN ContextAfter(f) ELSE ctx[f]]
      BY DEF Read
  <2>2. NextOffset(f) = Consumed(f, poll.base, ReadEnd(f))
      BY <1>1 DEF NextOffset, LineKinds
  <2> QED BY <1>1, <2>1, <2>2 DEF Visits
<1>3. PICK chosen \in SUBSET speaking :
          /\ Parsed(f) = InOrder(f, chosen)
          /\ \A i \in speaking :
                \/ i \in chosen
                \/ /\ kind[f] \in Repeats
                   /\ \/ ctx[f] # None /\ lines[f][i] = ctx[f]
                      \/ \E j \in chosen : j <= i /\ lines[f][j] = lines[f][i]
    BY <1>1, ParsedLines
<1>4. /\ speaking = {i \in some : lines[f][i] # Noise} /\ speaking \subseteq some
      /\ some \subseteq DOMAIN lines[f] /\ chosen \subseteq DOMAIN lines[f]
      /\ \A i \in some : poll.base <= 2 * (i - 1) /\ 2 * i <= ReadEnd(f)
    BY <1>3 DEF Speaking, Complete
<1>5. ReadEnd(f) \in Nat /\ (~poll.rotated => ReadEnd(f) <= Size(f) /\ poll.base <= Size(f))
  <2>1. Size(f) \in Nat
      BY <1>1, Sizes
  <2>2. Fits(f, poll.size) \in Nat /\ Fits(f, poll.size) <= poll.size
      BY <1>1, Fitting
  <2>3. ReadEnd(f) \in {poll.size, Fits(f, poll.size), Size(f)}
      BY DEF ReadEnd
  <2>4. ~poll.rotated => poll.size <= Size(f) /\ poll.base <= Size(f)
      BY <1>1 DEF VisitBegan
  <2> HIDE DEF f
  <2> QED BY <1>1, <2>1, <2>2, <2>3, <2>4
<1>6. /\ poll'.next \in Nat /\ poll.base <= poll'.next
      /\ \/ poll'.next = poll.base
         \/ /\ Even(poll'.next)
            /\ poll'.next <= ReadEnd(f) /\ poll'.next <= Size(f)
      /\ \A i \in some : 2 * i <= poll'.next
      /\ \A i \in DOMAIN lines[f] :
            poll.base <= 2 * (i - 1) /\ 2 * i <= poll'.next => i \in some
  <2> DEFINE base == poll.base
             end == ReadEnd(f)
             next == Consumed(f, base, end)
  <2>1. /\ next \in Nat /\ base <= next
        /\ \/ next = base
           \/ /\ Even(next)
              /\ next <= end /\ next <= Size(f)
        /\ \A i \in Complete(f, base, end) : 2 * i <= next
        /\ \A i \in DOMAIN lines[f] :
              base <= 2 * (i - 1) /\ 2 * i <= next => i \in Complete(f, base, end)
    <3>1. FilesTyped /\ f \in File /\ base \in Nat /\ end \in Nat
        BY <1>1, <1>5
    <3> HIDE DEF f, base, end
    <3> QED BY <3>1, Consuming, Zenon
  <2>2. poll'.next = next /\ some = Complete(f, base, end) /\ base = poll.base
        /\ end = ReadEnd(f)
      BY <1>2
  <2> HIDE DEF f, some, base, end, next
  <2> QED BY <2>1, <2>2
<1>7. /\ poll'.todo \in Seq([pos : Nat, text : LineText])
      /\ \A n \in DOMAIN poll'.todo : \E i \in chosen : poll'.todo[n] = Event(f, i)
      /\ \A i \in chosen : \E n \in DOMAIN poll'.todo : poll'.todo[n] = Event(f, i)
      /\ \A m, n \in DOMAIN poll'.todo : m < n => poll'.todo[m].pos < poll'.todo[n].pos
  <2> HIDE DEF f, some, speaking
  <2>1. FilesTyped /\ f \in File /\ chosen \in SUBSET DOMAIN lines[f]
      BY <1>1, <1>4
  <2>2. poll'.todo = InOrder(f, chosen)
      BY <1>2, <1>3
  <2> DEFINE e == InOrder(f, chosen)
  <2>3. /\ e \in Seq([pos : Nat, text : LineText])
        /\ \A n \in DOMAIN e : \E i \in chosen : e[n] = Event(f, i)
        /\ \A i \in chosen : \E n \in DOMAIN e : e[n] = Event(f, i)
        /\ \A m, n \in DOMAIN e : m < n => e[m].pos < e[n].pos
      BY <2>1, EventsOf, Zenon
  <2> HIDE DEF e
  <2>4. poll'.todo = e
      BY <2>2 DEF e
  <2> QED BY <2>3, <2>4
<1>8. \A i \in DOMAIN lines[f] : i \in Nat \ {0} /\ lines[f][i] \in LineText
    BY <1>1, Sizes
<1> HIDE DEF f, some, speaking
<1>9. \A i \in chosen : /\ Event(f, i).text = lines[f][i]
                        /\ Event(f, i).pos = 2 * (i - 1) /\ Even(2 * (i - 1))
  <2> SUFFICES ASSUME NEW i \in chosen PROVE i - 1 \in Nat
      BY DEF Event, Even
  <2> QED BY <1>4, <1>8
<1>10. EventsInOrder(poll)'
  <2>1. ASSUME NEW n \in DOMAIN poll'.todo
        PROVE  /\ poll'.todo[n].text \in LineText /\ Even(poll'.todo[n].pos)
               /\ poll'.todo[n].pos + 2 <= poll'.next
    <3>1. PICK i \in chosen : poll'.todo[n] = Event(f, i)
        BY <1>7
    <3>2. i \in Nat /\ 2 * i <= poll'.next /\ lines[f][i] \in LineText
        BY <1>3, <1>4, <1>6, <1>8
    <3> QED BY <1>6, <1>9, <3>1, <3>2
  <2> QED BY <1>2, <1>6, <1>7, <2>1 DEF EventsInOrder
<1>11. kind' = kind /\ lines' = lines /\ recorded' = recorded /\ refused' = refused
    BY DEF Read, fileVars
<1>12. ASSUME NEW i \in speaking, ~(\E n \in DOMAIN poll'.todo : SpeaksFor(poll, n, i)')
       PROVE  kind[f] \in Repeats /\ ctx[f] # None /\ lines[f][i] = ctx[f]
  <2>0. i \in Nat \ {0} /\ i \in DOMAIN lines[f]
      BY <1>4, <1>8
  <2>1. ASSUME NEW j \in chosen, j <= i, lines[f][j] = lines[f][i],
               j = i \/ kind[f] \in Repeats
        PROVE  FALSE
    <3>1. PICK n \in DOMAIN poll'.todo : poll'.todo[n] = Event(f, j)
        BY <1>7
    <3>2. j \in Nat \ {0} /\ Event(f, j).text = lines[f][i] /\ Event(f, j).pos = 2 * (j - 1)
        BY <1>4, <1>8, <1>9, <2>1
    <3>3. Event(f, j).pos <= 2 * (i - 1) /\ (j = i => Event(f, j).pos = 2 * (i - 1))
        BY <2>0, <2>1, <3>2
    <3>4. SpeaksFor(poll, n, i)'
        BY <1>2, <1>11, <2>1, <3>1, <3>2, <3>3 DEF SpeaksFor
    <3> QED BY <1>12, <3>4
  <2> QED BY <1>3, <2>0, <2>1
<1>13. ASSUME ~poll.rotated PROVE VisitCovers(poll)'
  <2> SUFFICES ASSUME NEW i \in DOMAIN lines[f], lines[f][i] # Noise,
                      poll.base <= 2 * (i - 1), 2 * i <= poll'.next
               PROVE  Accounted(f, i) \/ \E n \in DOMAIN poll'.todo : SpeaksFor(poll, n, i)'
      BY <1>2, <1>11 DEF VisitCovers, Accounted, Hash, Event
  <2>1. i \in speaking
      BY <1>4, <1>6
  <2>2. CASE kind[f] \in Repeats /\ ctx[f] # None /\ lines[f][i] = ctx[f]
      BY <1>1, <2>2 DEF FileSound, Heard, Accounted, Repeats
  <2> QED BY <1>12, <2>1, <2>2
<1>14. ASSUME kind[f] = "claude", poll'.last # None
       PROVE  Heard(f, poll'.last) \/ \E n \in DOMAIN poll'.todo : poll'.todo[n].text = poll'.last
  <2> DEFINE context == IF poll.replay THEN None ELSE ctx[f]
  <2>1. \/ poll'.last = context \/ \E j \in speaking : poll'.last = lines[f][j]
    <3>1. poll'.last = Before(f, some, context, MaxLines + 1)
        BY <1>2, <1>14 DEF ContextAfter, some
    <3>2. MaxLines + 1 \in Nat
        BY IngestAssumption
    <3> QED BY <1>1, <1>4, <3>1, <3>2, AnswerBefore DEF speaking
  <2>2. CASE poll'.last = context
      BY <1>1, <1>14, <2>2 DEF FileSound, Repeats
  <2>3. ASSUME NEW j \in speaking, poll'.last = lines[f][j]
        PROVE  Heard(f, poll'.last) \/ \E n \in DOMAIN poll'.todo : poll'.todo[n].text = poll'.last
    <3>1. CASE \E n \in DOMAIN poll'.todo : SpeaksFor(poll, n, j)'
        BY <1>2, <1>11, <2>3, <3>1 DEF SpeaksFor
    <3>2. CASE ctx[f] # None /\ lines[f][j] = ctx[f]
        BY <1>1, <1>14, <2>3, <3>2 DEF FileSound, Repeats
    <3> QED BY <1>12, <3>1, <3>2
  <2> QED BY <2>1, <2>2, <2>3
<1> QED BY <1>5, <1>6, <1>7, <1>10, <1>13, <1>14 DEF f

------------------------------------------------------------------------------
(* The steps. *)

\* A step that leaves the files alone.
LEMMA FilesAlone ==
    ASSUME FilesTyped, UNCHANGED fileVars,
           off' \in [File -> Nat \cup {None}], ctx' \in [File -> LineText \cup {None}],
           from' \in [File -> Nat], poll' = None \/ poll' \in Visits,
           recorded \subseteq recorded', refused \subseteq refused'
    PROVE  FilesTyped' /\ \A f \in File : Size(f)' = Size(f) /\ Continues(f)
<1>1. kind' = kind /\ lines' = lines /\ tail' = tail /\ fresh' = fresh
    BY DEF fileVars
<1>2. \A f \in File : Size(f)' = Size(f)
    BY <1>1 DEF Size
<1>3. IngestTypeOK'
    BY <1>1 DEF FilesTyped, IngestTypeOK, Visits
<1>4. FilesTyped'
    BY <1>1, <1>2, <1>3 DEF FilesTyped
<1>5. ASSUME NEW f \in File PROVE Continues(f)
  <2>1. Len(lines[f]) \in Nat
      BY Sizes
  <2> QED BY <1>1, <2>1 DEF Continues
<1> QED BY <1>2, <1>4, <1>5

\* The typed parts of a state, as the steps need them.
LEMMA Typed ==
    ASSUME FilesTyped
    PROVE  /\ off \in [File -> Nat \cup {None}] /\ ctx \in [File -> LineText \cup {None}]
           /\ from \in [File -> Nat] /\ kind \in [File -> Kind]
           /\ lines \in [File -> Seq(LineText)] /\ tail \in [File -> BOOLEAN]
           /\ fresh \in [File -> Nat] /\ kind \in KindChoices
BY DEF FilesTyped, IngestTypeOK

\* A file is written to.
LEMMA Writing ==
    ASSUME IngestInv, NEW f \in File, WriteHalf(f) \/ \E text \in TextOf[f] : WriteLine(f, text)
    PROVE  IngestInv'
<1>1. WriteHalf(f) \/ \E text \in LineText : WriteLine(f, text)
    BY IngestAssumption
<1>2. FilesTyped /\ VisitSound /\ MaxLines \in Nat
    BY IngestAssumption DEF IngestInv
<1>3. /\ kind' = kind /\ off' = off /\ ctx' = ctx
      /\ recorded' = recorded /\ refused' = refused /\ poll' = poll /\ from' = from
      /\ fresh' \in [File -> Nat] /\ \A g \in File : kind[g] = "rows" => fresh'[g] # 0
  <2>1. CASE WriteHalf(f)
      BY <1>2, <2>1 DEF WriteHalf, FilesTyped
  <2>2. ASSUME NEW text \in LineText, WriteLine(f, text)
        PROVE  /\ fresh' \in [File -> Nat]
               /\ \A g \in File : kind[g] = "rows" => fresh'[g] # 0
    <3> DEFINE one == Recent(f, Len(lines[f]) + 1)
    <3>1. one \in Nat /\ (kind[f] = "rows" => one # 0)
        BY <1>2, Sizes DEF Recent
    <3>2. fresh' = [fresh EXCEPT ![f] = one]
        BY <2>2 DEF WriteLine
    <3> HIDE DEF one
    <3> QED BY <1>2, <3>1, <3>2 DEF FilesTyped
  <2>3. CASE \E text \in LineText : WriteLine(f, text)
    <3>1. fresh' \in [File -> Nat] /\ \A g \in File : kind[g] = "rows" => fresh'[g] # 0
        BY <2>2, <2>3
    <3> QED BY <2>3, <3>1 DEF WriteLine
  <2> QED BY <1>1, <2>1, <2>3
<1>4. /\ lines' \in [File -> Seq(LineText)] /\ tail' \in [File -> BOOLEAN]
      /\ Size(f) < Size(f)' /\ Size(f)' \in Nat /\ Size(f)' <= 2 * MaxLines
      /\ Len(lines[f]) <= Len(lines'[f])
      /\ \A i \in DOMAIN lines[f] : lines'[f][i] = lines[f][i]
      /\ \A g \in File \ {f} : lines'[g] = lines[g] /\ tail'[g] = tail[g]
  <2>1. /\ lines[f] \in Seq(LineText) /\ Len(lines[f]) \in Nat
        /\ DOMAIN lines[f] = 1..Len(lines[f])
        /\ tail[f] \in BOOLEAN
      BY <1>2, Sizes
  <2>2. CASE WriteHalf(f)
    <3>1. /\ tail' = [tail EXCEPT ![f] = TRUE] /\ lines' = lines /\ ~tail[f] /\ Room
        BY <2>2 DEF WriteHalf
    <3>2. Size(f) = 2 * Len(lines[f]) /\ Size(f)' = 2 * Len(lines[f]) + 1
        BY <1>2, <2>1, <3>1, Typed DEF Size
    <3>3. Size(f) < 2 * MaxLines - 1
        BY <1>2, <3>1, RoomLeft
    <3> QED BY <1>2, <2>1, <3>1, <3>2, <3>3, Typed
  <2>3. ASSUME NEW text \in LineText, WriteLine(f, text)
        PROVE  /\ lines' \in [File -> Seq(LineText)] /\ tail' \in [File -> BOOLEAN]
               /\ Size(f) < Size(f)' /\ Size(f)' \in Nat /\ Size(f)' <= 2 * MaxLines
               /\ Len(lines[f]) <= Len(lines'[f])
               /\ \A i \in DOMAIN lines[f] : lines'[f][i] = lines[f][i]
               /\ \A g \in File \ {f} : lines'[g] = lines[g] /\ tail'[g] = tail[g]
    <3>1. /\ lines' = [lines EXCEPT ![f] = Append(@, text)]
          /\ tail' = [tail EXCEPT ![f] = FALSE] /\ (tail[f] \/ Room)
        BY <2>3 DEF WriteLine
    <3>2. /\ Append(lines[f], text) \in Seq(LineText)
          /\ Len(Append(lines[f], text)) = Len(lines[f]) + 1
          /\ \A i \in DOMAIN lines[f] : Append(lines[f], text)[i] = lines[f][i]
        BY <1>2, <2>1
    <3>3. /\ lines'[f] = Append(lines[f], text) /\ ~tail'[f]
          /\ lines' \in [File -> Seq(LineText)] /\ tail' \in [File -> BOOLEAN]
          /\ \A g \in File \ {f} : lines'[g] = lines[g] /\ tail'[g] = tail[g]
        BY <1>2, <3>1, <3>2, Typed
    <3>4. Size(f)' = 2 * Len(lines[f]) + 2
        BY <2>1, <3>2, <3>3 DEF Size
    <3>5. CASE tail[f]
      <4>1. Size(f) = 2 * Len(lines[f]) + 1 /\ Size(f) <= 2 * MaxLines
          BY <1>2, <2>1, <3>5 DEF Size, FilesTyped
      <4> QED BY <1>2, <2>1, <3>2, <3>3, <3>4, <4>1
    <3>6. CASE ~tail[f]
      <4>1. Size(f) = 2 * Len(lines[f])
          BY <2>1, <3>6 DEF Size
      <4>2. Size(f) < 2 * MaxLines - 1
          BY <1>2, <3>1, <3>6, RoomLeft
      <4>3. /\ Size(f) < Size(f)' /\ Size(f)' \in Nat /\ Size(f)' <= 2 * MaxLines
          <5>1. Len(lines[f]) \in Nat /\ MaxLines \in Nat
              BY <1>2, <2>1
          <5> QED BY <3>4, <4>1, <4>2, <5>1
      <4>4. /\ Len(lines[f]) <= Len(lines'[f])
            /\ \A i \in DOMAIN lines[f] : lines'[f][i] = lines[f][i]
          BY <2>1, <3>2, <3>3
      <4> QED BY <3>3, <4>3, <4>4
    <3> QED BY <3>5, <3>6
  <2> QED BY <1>1, <2>2, <2>3
<1>5. \A g \in File : Continues(g)
  <2> SUFFICES ASSUME NEW g \in File PROVE Continues(g)
      OBVIOUS
  <2>1. Len(lines[g]) \in Nat
      BY <1>2, Sizes
  <2> QED BY <1>2, <1>3, <1>4, <2>1, Sizes DEF Continues
<1>6. FilesTyped'
  <2>1. \A g \in File : Size(g)' <= 2 * MaxLines
    <3>1. \A g \in File \ {f} : Size(g)' = Size(g)
        BY <1>4 DEF Size
    <3> QED BY <1>2, <1>4, <3>1 DEF FilesTyped
  <2>2. ASSUME NEW g \in File PROVE lines'[g] \in Seq(LineText) /\ Len(lines'[g]) <= MaxLines
    <3>1. lines'[g] \in Seq(LineText) /\ Len(lines'[g]) \in Nat
      <4>1. lines'[g] \in Seq(LineText)
          BY <1>4
      <4> QED BY <4>1, LenProperties
    <3>2. 2 * Len(lines'[g]) <= Size(g)' /\ Size(g)' \in Nat
      <4>1. CASE tail'[g]
          BY <3>1, <4>1 DEF Size
      <4>2. CASE ~tail'[g]
          BY <3>1, <4>2 DEF Size
      <4> QED BY <4>1, <4>2
    <3> QED BY <1>2, <2>1, <3>1, <3>2
  <2>3. IngestTypeOK'
      BY <1>2, <1>3, <1>4, <2>2 DEF FilesTyped, IngestTypeOK
  <2> QED BY <1>2, <1>3, <1>4, <2>1, <2>3 DEF FilesTyped
<1>7. ASSUME NEW g \in File PROVE FileSound(g)'
    BY <1>2, <1>3, <1>5, <1>6, FileStays DEF IngestInv
<1>8. VisitSound'
  <2>1. CASE poll = None
      BY <1>3, <2>1 DEF VisitSound
  <2>2. CASE poll # None
    <3>1. poll.file \in File
        BY <1>2, <2>2 DEF VisitSound, Visits
    <3> QED BY <1>2, <1>3, <1>5, <1>6, <2>2, <3>1, VisitStays
  <2> QED BY <2>1, <2>2
<1> QED BY <1>6, <1>7, <1>8 DEF IngestInv

\* The content of a file is replaced: what its offset covers is out of reach
\* from now on.
LEMMA Replacing ==
    ASSUME IngestInv, NEW f \in File, NEW new \in Seq(LineText), Replace(f, new),
           Len(new) <= Len(lines[f]), fresh' \in [File -> Nat],
           \A g \in File : kind[g] = "rows" => fresh'[g] # 0
    PROVE  IngestInv'
<1>1. /\ FilesTyped /\ VisitSound /\ MaxLines \in Nat
    BY IngestAssumption DEF IngestInv
<1>2. /\ kind' = kind /\ off' = off /\ ctx' = ctx
      /\ recorded' = recorded /\ refused' = refused
      /\ from' = [from EXCEPT ![f] = IF off[f] = None THEN 0 ELSE off[f]]
      /\ poll' = IF poll # None /\ poll.file = f
                 THEN [poll EXCEPT !.rotated = TRUE] ELSE poll
      /\ lines' = [lines EXCEPT ![f] = new]
      /\ tail' = [tail EXCEPT ![f] = FALSE]
      /\ lines[f] # <<>>
    BY DEF Replace
<1>3. /\ lines[f] \in Seq(LineText) /\ Len(lines[f]) \in Nat /\ Len(lines[f]) # 0
      /\ off[f] \in Nat \cup {None}
    BY <1>1, <1>2, Sizes
<1>4. lines'[f] \in Seq(LineText) /\ Len(lines'[f]) \in Nat /\ Len(lines'[f]) <= Len(lines[f])
  <2>1. lines'[f] = new
      BY <1>1, <1>2, Typed
  <2> QED BY <2>1, LenProperties
<1>5. /\ lines' \in [File -> Seq(LineText)]
      /\ \A g \in File \ {f} : /\ lines'[g] = lines[g] /\ tail'[g] = tail[g]
                               /\ from'[g] = from[g]
      /\ tail' \in [File -> BOOLEAN] /\ ~tail'[f] /\ from' \in [File -> Nat]
  <2>1. lines' = [lines EXCEPT ![f] = lines'[f]]
      BY <1>1, <1>2, Typed
  <2>2. lines' \in [File -> Seq(LineText)] /\ \A g \in File \ {f} : lines'[g] = lines[g]
      BY <1>1, <1>4, <2>1, Typed
  <2>3. from' \in [File -> Nat] /\ \A g \in File \ {f} : from'[g] = from[g]
      BY <1>1, <1>2, <1>3, Typed
  <2>4. tail' \in [File -> BOOLEAN] /\ ~tail'[f] /\ \A g \in File \ {f} : tail'[g] = tail[g]
      BY <1>1, <1>2, Typed
  <2> QED BY <2>2, <2>3, <2>4
<1>6. ASSUME NEW g \in File \ {f} PROVE Continues(g) /\ Size(g)' = Size(g)
  <2>1. Len(lines[g]) \in Nat
      BY <1>1, Sizes
  <2> QED BY <1>2, <1>5, <2>1 DEF Continues, Size
<1>7. FilesTyped'
  <2>1. Size(f)' = 2 * Len(lines'[f])
      BY <1>4, <1>5 DEF Size
  <2>2. Len(lines[f]) <= MaxLines
      BY <1>1 DEF FilesTyped, IngestTypeOK
  <2>3. ASSUME NEW g \in File PROVE Size(g)' <= 2 * MaxLines
    <3>1. CASE g = f
      <4>1. MaxLines \in Nat
          BY IngestAssumption DEF IngestAssumption
      <4> QED BY <1>3, <1>4, <2>1, <2>2, <3>1, <4>1
    <3>2. CASE g # f
      <4>1. Size(g)' = Size(g)
          BY <1>6, <3>2
      <4> QED BY <1>1, <4>1 DEF FilesTyped
    <3> QED BY <3>1, <3>2
  <2>4. ASSUME NEW g \in File PROVE lines'[g] \in Seq(LineText) /\ Len(lines'[g]) <= MaxLines
    <3>1. CASE g = f
        BY <1>1, <1>3, <1>4, <2>2, <3>1
    <3>2. CASE g # f
      <4>1. lines'[g] = lines[g]
          BY <1>5, <3>2
      <4> QED BY <1>1, <4>1 DEF FilesTyped, IngestTypeOK
    <3> QED BY <3>1, <3>2
  <2>5. poll' = None \/ /\ poll'.file \in File
                        /\ poll'.step \in {"read", "record", "context", "offset"}
                        /\ poll'.base \in Nat /\ poll'.next \in Nat
      BY <1>1, <1>2 DEF VisitSound, Visits
  <2>6. IngestTypeOK'
      BY <1>1, <1>2, <1>5, <2>4, <2>5 DEF FilesTyped, IngestTypeOK
  <2> QED BY <1>1, <1>2, <1>5, <2>3, <2>6 DEF FilesTyped
<1>8. ASSUME NEW g \in File PROVE FileSound(g)'
  <2>1. CASE g # f
      BY <1>1, <1>2, <1>5, <1>6, <1>7, <2>1, FileStays DEF IngestInv
  <2>2. CASE g = f
    <3>1. ASSUME off[f] # None PROVE from'[f] = off[f] /\ off[f] \in Nat
        BY <1>1, <1>2, <1>3, <3>1, Typed
    <3>2. ASSUME off[f] # None PROVE RecordedBelow(f)'
      <4>1. ASSUME NEW i \in DOMAIN lines'[f], 2 * (i - 1) >= off[f], 2 * i <= off[f]
            PROVE  FALSE
        <5>1. DOMAIN lines'[f] = 1..Len(lines'[f])
            BY <1>4, LenProperties
        <5>2. i \in Nat
            BY <1>4, <5>1
        <5> QED BY <3>1, <3>2, <4>1, <5>2
      <4>2. ~(off[f] > from'[f]) /\ ~(off[f] > 0 /\ from'[f] = 0)
          BY <3>1, <3>2
      <4>3. off'[f] = off[f] /\ kind'[f] = kind[f]
          BY <1>2
      <4> QED BY <3>1, <3>2, <4>1, <4>2, <4>3 DEF RecordedBelow, InReach
    <3>3. kind[f] \in Repeats /\ ctx[f] # None => Heard(f, ctx[f])'
        BY <1>1, <1>2 DEF IngestInv, FileSound, Heard
    <3>4. off[f] # None => from'[f] >= off[f]
        BY <3>1
    <3> QED BY <1>2, <2>2, <3>2, <3>3, <3>4 DEF FileSound
  <2> QED BY <2>1, <2>2
<1>9. VisitSound'
  <2>1. CASE poll = None \/ poll.file # f
    <3>1. CASE poll = None
        BY <1>2, <3>1 DEF VisitSound
    <3>2. CASE poll # None /\ poll.file # f
      <4>1. poll.file \in File /\ poll' = poll
          BY <1>1, <1>2, <3>2 DEF VisitSound, Visits
      <4> QED BY <1>1, <1>2, <1>6, <1>7, <3>2, <4>1, VisitStays
    <3> QED BY <2>1, <3>1, <3>2
  <2>2. CASE poll # None /\ poll.file = f
    <3>1. /\ poll \in Visits /\ VisitBegan(poll) /\ (poll.step # "read" => VisitHolds(poll))
        BY <1>1, <2>2 DEF VisitSound
    <3>2. /\ poll' = [poll EXCEPT !.rotated = TRUE] /\ poll' \in Visits
          /\ poll'.file = f /\ poll'.rotated /\ poll'.step = poll.step
          /\ poll'.base = poll.base /\ poll'.size = poll.size /\ poll'.offset = poll.offset
          /\ poll'.todo = poll.todo /\ poll'.next = poll.next /\ poll'.last = poll.last
          /\ poll'.restart = poll.restart /\ poll'.replay = poll.replay
        BY <1>2, <2>2, <3>1 DEF Visits
    <3>3. VisitBegan(poll)'
        BY <1>2, <2>2, <3>1, <3>2 DEF VisitBegan
    <3>4. ASSUME poll.step # "read" PROVE VisitHolds(poll)'
      <4>1. VisitHolds(poll)
          BY <3>1, <3>4
      <4>2. kind[f] \in LineKinds => EventsInOrder(poll)'
          BY <2>2, <3>2, <4>1 DEF VisitHolds, EventsInOrder
      <4>3. kind[f] \in Repeats /\ poll'.last # None =>
               \/ Heard(f, poll.last)'
               \/ kind[f] = "claude" /\ \E n \in DOMAIN poll'.todo : poll'.todo[n].text = poll'.last
          BY <1>2, <2>2, <3>2, <4>1 DEF VisitHolds, Heard
      <4>4. kind[f] = "whole" => poll'.next = poll'.size
          BY <2>2, <3>2, <4>1 DEF VisitHolds
      <4>5. kind[f] = "message" /\ poll'.next # poll'.base =>
               poll'.todo # <<>> \/ \E h \in recorded' \cup refused' : h[1] = f
          BY <1>2, <2>2, <3>2, <4>1 DEF VisitHolds
      <4>6. poll'.step = "offset" => poll'.todo = <<>>
          BY <3>2, <4>1 DEF VisitHolds
      <4> QED BY <1>2, <3>2, <4>2, <4>3, <4>4, <4>5, <4>6 DEF VisitHolds
    <3> QED BY <3>2, <3>3, <3>4 DEF VisitSound
  <2> QED BY <2>1, <2>2
<1> QED BY <1>7, <1>8, <1>9 DEF IngestInv

\* A file starts over, or a row of the table is deleted or completed.
LEMMA Rotating ==
    ASSUME IngestInv, NEW f \in File,
           Rotate(f) \/ \E text \in LineText : AddParts(f, text)
    PROVE  IngestInv'
<1>1. /\ FilesTyped /\ fresh \in [File -> Nat]
      /\ \A g \in File : kind[g] = "rows" => fresh[g] # 0
    BY DEF IngestInv, FilesTyped
<1>2. /\ lines[f] \in Seq(LineText) /\ Len(lines[f]) \in Nat /\ Len(lines[f]) # 0
      /\ fresh[f] \in Nat
  <2>1. lines[f] # <<>>
      BY DEF Rotate, AddParts, Replace
  <2> QED BY <1>1, <2>1, Sizes
<1>3. /\ AllButLast(f) \in Seq(LineText) /\ Len(AllButLast(f)) = Len(lines[f]) - 1
      /\ \A text \in LineText : /\ Append(AllButLast(f), text) \in Seq(LineText)
                                /\ Len(Append(AllButLast(f), text)) = Len(lines[f])
  <2> DEFINE rest == AllButLast(f)
  <2>1. rest \in Seq(LineText) /\ Len(rest) = Len(lines[f]) - 1
      BY <1>2 DEF AllButLast
  <2> HIDE DEF rest
  <2>2. \A text \in LineText : /\ Append(rest, text) \in Seq(LineText)
                               /\ Len(Append(rest, text)) = Len(lines[f])
      BY <1>2, <2>1
  <2> QED BY <2>1, <2>2 DEF rest
<1>4. CASE Rotate(f)
  <2> DEFINE new == IF kind[f] = "rows" THEN AllButLast(f) ELSE <<>>
             one == IF kind[f] = "rows" THEN Recent(f, Len(lines[f])) ELSE 0
  <2>1. Replace(f, new) /\ fresh' = [fresh EXCEPT ![f] = one]
      BY <1>4 DEF Rotate
  <2>2. new \in Seq(LineText) /\ Len(new) <= Len(lines[f])
    <3>1. <<>> \in Seq(LineText) /\ Len(<<>>) = 0
        OBVIOUS
    <3> QED BY <1>2, <1>3, <3>1
  <2>3. one \in Nat /\ (kind[f] = "rows" => one # 0)
      BY <1>1, <1>2 DEF Recent
  <2> HIDE DEF new, one
  <2>4. fresh' \in [File -> Nat] /\ \A g \in File : kind[g] = "rows" => fresh'[g] # 0
      BY <1>1, <2>1, <2>3
  <2> QED BY <2>1, <2>2, <2>4, Replacing
<1>5. ASSUME NEW text \in LineText, AddParts(f, text) PROVE IngestInv'
  <2> DEFINE new == Append(AllButLast(f), text)
  <2>1. Replace(f, new) /\ fresh' = fresh
      BY <1>5 DEF AddParts
  <2>2. new \in Seq(LineText) /\ Len(new) <= Len(lines[f])
      BY <1>2, <1>3
  <2> HIDE DEF new
  <2> QED BY <1>1, <2>1, <2>2, Replacing
<1> QED BY <1>4, <1>5

\* A file without recent content is skipped to its end.
LEMMA Skipping ==
    ASSUME IngestInv, NEW f \in File, SkipBackfill(f), UNCHANGED fileVars, poll = None
    PROVE  IngestInv'
<1>1. FilesTyped /\ VisitSound /\ kind' = kind /\ Size(f) \in Nat
    BY Sizes DEF IngestInv, fileVars
<1>2. /\ off[f] = None /\ off' = [off EXCEPT ![f] = Size(f)]
      /\ from' = [from EXCEPT ![f] = Size(f)]
      /\ ctx' = ctx /\ recorded' = recorded /\ refused' = refused /\ poll' = poll
    BY DEF SkipBackfill, Stale
<1>3. /\ FilesTyped' /\ \A g \in File : Size(g)' = Size(g) /\ Continues(g)
  <2>1. /\ off' \in [File -> Nat \cup {None}] /\ from' \in [File -> Nat]
        /\ ctx' \in [File -> LineText \cup {None}] /\ (poll' = None \/ poll' \in Visits)
      BY <1>1, <1>2, Typed DEF VisitSound
  <2> QED BY <1>1, <1>2, <2>1, FilesAlone
<1>4. off'[f] = Size(f) /\ from'[f] = Size(f) /\ Size(f)' = Size(f)
    BY <1>1, <1>2, <1>3, Typed
<1>5. ASSUME NEW g \in File PROVE FileSound(g)'
  <2>1. CASE g # f
    <3>1. off'[g] = off[g] /\ from'[g] = from[g] /\ ctx'[g] = ctx[g]
        BY <1>1, <1>2, <2>1, Typed
    <3> QED BY <1>1, <1>3, <3>1, FileStays DEF IngestInv
  <2>2. CASE g = f
    <3>1. RecordedBelow(f)'
      <4>1. ASSUME NEW i \in DOMAIN lines'[f], 2 * (i - 1) >= Size(f), 2 * i <= Size(f)
            PROVE  FALSE
        <5>1. i \in Nat
            BY <1>3, SizesAfter
        <5> QED BY <1>1, <4>1, <5>1
      <4>2. ~(Size(f) > Size(f)) /\ ~(Size(f) > 0 /\ Size(f) = 0)
          BY <1>1
      <4> QED BY <1>1, <1>4, <4>1, <4>2 DEF RecordedBelow, InReach
    <3>2. kind[f] \in Repeats /\ ctx[f] # None => Heard(f, ctx[f])'
        BY <1>1, <1>2 DEF IngestInv, FileSound, Heard
    <3> QED BY <1>1, <1>2, <1>4, <2>2, <3>1, <3>2 DEF FileSound
  <2> QED BY <2>1, <2>2
<1>6. VisitSound'
    BY <1>2 DEF VisitSound
<1> QED BY <1>3, <1>5, <1>6 DEF IngestInv

\* A visit begins.
LEMMA Looking ==
    ASSUME IngestInv, NEW f \in File, NEW base \in Nat, NEW size \in Nat,
           NEW replay \in BOOLEAN, UNCHANGED fileVars, Look(f, base, size, replay),
           kind[f] # "absent", base <= Size(f), size <= Size(f),
           replay \/ Offset(f) > Size(f) => base = 0,
           off[f] = None => Even(base),
           off[f] # None /\ ~(replay \/ Offset(f) > Size(f)) => base = off[f]
    PROVE  IngestInv'
<1>1. /\ FilesTyped /\ kind' = kind /\ Size(f) \in Nat /\ Offset(f) \in Nat
      /\ off[f] = None => Offset(f) = 0
      /\ off[f] # None => Offset(f) = off[f]
    BY Sizes DEF IngestInv, fileVars, Offset
<1>2. /\ off' = off /\ from' = from /\ ctx' = ctx /\ recorded' = recorded
      /\ refused' = refused
    BY DEF Look
<1> DEFINE restart == replay \/ Offset(f) > Size(f)
<1>3. /\ Base(f) \in Nat /\ Base(f) <= Size(f)
      /\ off[f] = None => Base(f) = 0
      /\ off[f] # None => Base(f) \in {0, off[f]}
    BY <1>1 DEF Base
<1>4. /\ poll' \in Visits /\ poll'.file = f /\ poll'.step = "read"
      /\ poll'.base = base /\ poll'.size = size /\ poll'.offset = Base(f)
      /\ poll'.restart = restart
  <2>1. poll' = [file |-> f, step |-> "read", base |-> base, size |-> size,
                 offset |-> Base(f), todo |-> <<>>, next |-> base, last |-> None,
                 restart |-> restart, replay |-> replay, rotated |-> FALSE]
      BY DEF Look
  <2>2. <<>> \in Seq([pos : Nat, text : Told])
      OBVIOUS
  <2>3. restart \in BOOLEAN
      OBVIOUS
  <2> HIDE DEF restart
  <2> QED BY <1>3, <2>1, <2>2, <2>3 DEF Visits
<1>5. /\ FilesTyped' /\ \A g \in File : Size(g)' = Size(g) /\ Continues(g)
  <2>1. /\ off' \in [File -> Nat \cup {None}] /\ from' \in [File -> Nat]
        /\ ctx' \in [File -> LineText \cup {None}]
      BY <1>1, <1>2, Typed
  <2> QED BY <1>1, <1>2, <1>4, <2>1, FilesAlone
<1>6. ASSUME NEW g \in File PROVE FileSound(g)'
    BY <1>1, <1>2, <1>5, FileStays DEF IngestInv
<1>7. VisitBegan(poll)'
  <2>1. Size(f)' = Size(f) /\ base <= Size(f)' /\ size <= Size(f)' /\ Base(f) <= Size(f)'
      BY <1>3, <1>5
  <2>2. restart => base = 0
      OBVIOUS
  <2>3. off[f] # None /\ ~restart => base = off[f]
      OBVIOUS
  <2> HIDE DEF restart
  <2>4. base <= Size(poll.file)' /\ size <= Size(poll.file)' /\ Base(f) <= Size(poll.file)'
      BY <1>4, <2>1 DEF Size
  <2> QED BY <1>1, <1>2, <1>3, <1>4, <2>2, <2>3, <2>4 DEF VisitBegan
<1>8. VisitSound'
    BY <1>4, <1>7 DEF VisitSound
<1> QED BY <1>5, <1>6, <1>8 DEF IngestInv

LEMMA Following ==
    ASSUME IngestInv, NEW f \in File, Follow(f), UNCHANGED fileVars, kind[f] # "absent",
           poll = None
    PROVE  IngestInv'
<1>1. /\ FilesTyped /\ Size(f) \in Nat /\ Offset(f) \in Nat /\ Even(0)
      /\ off[f] = None => Offset(f) = 0
      /\ off[f] # None => Offset(f) = off[f]
    BY Sizes DEF IngestInv, Offset, Even
<1>2. CASE SkipBackfill(f)
    BY <1>2, Skipping
<1>3. CASE Look(f, Base(f), Size(f), FALSE)
  <2>1. /\ Base(f) \in Nat /\ Base(f) <= Size(f) /\ Size(f) <= Size(f)
        /\ Offset(f) > Size(f) => Base(f) = 0
        /\ off[f] = None => Base(f) = 0
        /\ off[f] # None /\ ~(Offset(f) > Size(f)) => Base(f) = off[f]
      BY <1>1 DEF Base
  <2> QED BY <1>1, <1>3, <2>1, Looking
<1> QED BY <1>2, <1>3 DEF Follow

\* At most the last line is half written.
LEMMA BegunSize ==
    ASSUME FilesTyped, NEW f \in File
    PROVE  Begun(f) \in Nat /\ 2 * Begun(f) <= Size(f) + 1
<1>1. Len(lines[f]) \in Nat
    BY Sizes
<1>2. CASE tail[f]
    BY <1>1, <1>2 DEF Begun, Size
<1>3. CASE ~tail[f]
    BY <1>1, <1>3 DEF Begun, Size
<1> QED BY <1>2, <1>3

LEMMA Visiting ==
    ASSUME IngestInv, NEW f \in File, Visit(f) \/ ReplayClaude(f)
    PROVE  IngestInv'
<1>1. /\ FilesTyped /\ Size(f) \in Nat /\ Offset(f) \in Nat /\ Even(0)
      /\ off[f] = None => Offset(f) = 0
      /\ off[f] # None => Offset(f) = off[f]
      /\ lines[f] \in Seq(LineText) /\ Len(lines[f]) \in Nat /\ fresh[f] \in Nat
      /\ kind[f] = "rows" => fresh[f] # 0
      /\ 2 * Len(lines[f]) <= Size(f)
    BY Sizes DEF IngestInv, Offset, Even
<1>2. /\ Base(f) \in Nat /\ Base(f) <= Size(f) /\ Size(f) <= Size(f)
      /\ Offset(f) > Size(f) => Base(f) = 0
      /\ off[f] = None => Base(f) = 0
      /\ off[f] # None /\ ~(Offset(f) > Size(f)) => Base(f) = off[f]
    BY <1>1 DEF Base
<1>3. CASE PollRollout(f) \/ PollMessage(f) \/ PollCursor(f) \/ PollGemini(f)
           \/ PollPlanner(f) \/ PollWhole(f)
  <2>1. Follow(f) /\ UNCHANGED fileVars /\ kind[f] # "absent" /\ poll = None
      BY <1>3 DEF PollRollout, PollMessage, PollCursor, PollGemini, PollPlanner, PollWhole
  <2> QED BY <2>1, Following
<1>4. CASE PollHistory(f)
  <2>1. Look(f, Base(f), Size(f), FALSE) /\ UNCHANGED fileVars /\ kind[f] # "absent"
      BY <1>4 DEF PollHistory
  <2> QED BY <1>1, <1>2, <2>1, Looking
<1>5. CASE PollRows(f)
  <2>1. CASE SkipBackfill(f)
    <3>1. UNCHANGED fileVars /\ poll = None
        BY <1>5 DEF PollRows
    <3> QED BY <2>1, <3>1, Skipping
  <2>2. CASE ~SkipBackfill(f)
    <3> DEFINE base == IF off[f] = None THEN 2 * (fresh[f] - 1) ELSE off[f]
    <3>1. /\ ~Stale(f) /\ Offset(f) < Size(f) /\ Look(f, base, Size(f), FALSE)
          /\ UNCHANGED fileVars /\ kind[f] = "rows"
        BY <1>5, <2>2 DEF PollRows
    <3>2. ASSUME off[f] = None PROVE base \in Nat /\ base <= Size(f) /\ Even(base)
      <4>1. ~Stale(f) /\ fresh[f] \in Nat /\ fresh[f] # 0 /\ FilesTyped /\ Size(f) \in Nat
          BY <1>1, <3>1
      <4>2. Begun(f) \in Nat /\ 2 * Begun(f) <= Size(f) + 1
          BY <4>1, BegunSize
      <4>3. ~(fresh[f] > Begun(f))
          BY <3>2, <4>1 DEF Stale
      <4>4. base = 2 * (fresh[f] - 1)
          BY <3>2
      <4> HIDE DEF base
      <4>5. fresh[f] - 1 \in Nat /\ 2 * (fresh[f] - 1) \in Nat /\ 2 * (fresh[f] - 1) <= Size(f)
          BY <4>1, <4>2, <4>3
      <4> QED BY <4>4, <4>5 DEF Even
    <3>3. ASSUME off[f] # None PROVE base \in Nat /\ base <= Size(f) /\ base = off[f]
        BY <1>1, <3>1, <3>3
    <3>4. base \in Nat /\ base <= Size(f) /\ ~(Offset(f) > Size(f))
        BY <1>1, <3>1, <3>2, <3>3
    <3> HIDE DEF base
    <3> QED BY <1>1, <1>2, <3>1, <3>2, <3>3, <3>4, Looking
  <2> QED BY <2>1, <2>2
<1>6. CASE PollClaude(f)
  <2> DEFINE end == IF Size(f) - Base(f) > UnitsPerFile
                    THEN Base(f) + UnitsPerFile ELSE Size(f)
  <2>1. UNCHANGED fileVars /\ kind[f] # "absent" /\ poll = None
        /\ (SkipBackfill(f) \/ Look(f, Base(f), end, FALSE))
      BY <1>6 DEF PollClaude
  <2>2. end \in Nat /\ end <= Size(f)
      BY <1>1, <1>2, IngestAssumption
  <2> HIDE DEF end
  <2>3. CASE SkipBackfill(f)
      BY <2>1, <2>3, Skipping
  <2>4. CASE Look(f, Base(f), end, FALSE)
      BY <1>1, <1>2, <2>1, <2>2, <2>4, Looking
  <2> QED BY <2>1, <2>3, <2>4
<1>7. CASE ReplayClaude(f)
  <2>1. Look(f, 0, Size(f), TRUE) /\ UNCHANGED fileVars /\ kind[f] # "absent"
      BY <1>7 DEF ReplayClaude
  <2>2. 0 \in Nat /\ TRUE \in BOOLEAN /\ 0 <= Size(f) /\ Size(f) <= Size(f)
      BY <1>1
  <2> QED BY <1>1, <2>1, <2>2, Looking
<1> QED BY <1>3, <1>4, <1>5, <1>6, <1>7
    DEF Visit, IngestCodexHistory, IngestOpencodeHistory, IngestCursorHistory,
        IngestAntigravityHistory, IngestGeminiHistory, IngestClaudeCodeSessions

\* What a visit reads is the file's, or nothing is passed.
LEMMA Reading ==
    ASSUME IngestInv, Read
    PROVE  IngestInv'
<1> DEFINE f == poll.file
<1>1. /\ FilesTyped /\ poll \in Visits /\ VisitBegan(poll) /\ poll # None
      /\ f \in File /\ FileSound(f) /\ kind[f] \in Kind \ {"absent"}
      /\ poll.base \in Nat /\ poll.size \in Nat
    BY Sizes DEF IngestInv, VisitSound, VisitBegan, Visits, Read
<1>2. /\ UNCHANGED fileVars /\ off' = off /\ ctx' = ctx /\ recorded' = recorded
      /\ refused' = refused /\ from' = from /\ kind' = kind /\ lines' = lines /\ tail' = tail
    BY DEF Read, fileVars
<1>3. poll' = [poll EXCEPT !.step = "record", !.todo = Parsed(f), !.next = NextOffset(f),
                           !.last = IF kind[f] = "claude" THEN ContextAfter(f) ELSE ctx[f]]
    BY DEF Read
<1>4. /\ poll'.file = f /\ poll'.base = poll.base /\ poll'.size = poll.size
      /\ poll'.offset = poll.offset /\ poll'.restart = poll.restart
      /\ poll'.replay = poll.replay /\ poll'.rotated = poll.rotated
      /\ poll'.step = "record" /\ poll'.todo = Parsed(f) /\ poll'.next = NextOffset(f)
      /\ poll'.last = IF kind[f] = "claude" THEN ContextAfter(f) ELSE ctx[f]
    BY <1>1, <1>3 DEF Visits
<1>5. /\ Size(f) \in Nat /\ Size(f)' = Size(f) /\ ParseWhole(f)' = ParseWhole(f)
      /\ lines[f] \in Seq(LineText) /\ tail[f] \in BOOLEAN
      /\ ctx[f] \in LineText \cup {None}
  <2>1. Size(f)' = Size(f)
      BY <1>2, <1>4 DEF Size
  <2>2. ParseWhole(f)' = ParseWhole(f)
      BY <1>2, <1>4, <2>1 DEF ParseWhole
  <2> QED BY <1>1, <2>1, <2>2, Sizes
<1>6. poll'.last \in LineText \cup {None}
  <2>1. CASE kind[f] = "claude"
    <3> DEFINE some == Complete(f, poll.base, ReadEnd(f))
               context == IF poll.replay THEN None ELSE ctx[f]
    <3>1. poll'.last = Before(f, some, context, MaxLines + 1) /\ MaxLines + 1 \in Nat
        BY <1>4, <2>1, IngestAssumption DEF ContextAfter
    <3>2. some \in SUBSET DOMAIN lines[f] /\ context \in LineText \cup {None}
        BY <1>5 DEF Complete
    <3> HIDE DEF f, some, context
    <3>3. \A j \in Speaking(f, some) : lines[f][j] \in LineText
        BY <1>1, <3>2, Sizes DEF Speaking
    <3> QED BY <1>1, <3>1, <3>2, <3>3, AnswerBefore
  <2>2. CASE kind[f] # "claude"
      BY <1>4, <1>5, <2>2
  <2> QED BY <2>1, <2>2
<1>7. ParseWhole(f) \in Seq([pos : Nat, text : Told])
      /\ (Size(f) > 0 => /\ DOMAIN ParseWhole(f) = {1}
                         /\ ParseWhole(f)[1] = Head(ParseWhole(f)))
  <2>1. [pos |-> 0, text |-> <<lines[f], tail[f]>>] \in [pos : Nat, text : Told]
      BY <1>5 DEF Told
  <2>2. CASE Size(f) = 0
      BY <2>2, <1>5 DEF ParseWhole
  <2>3. CASE Size(f) # 0
      BY <1>5, <2>1, <2>3 DEF ParseWhole
  <2> QED BY <2>2, <2>3
<1>8. VisitBegan(poll)'
  <2>1. Size(poll.file)' = Size(f)
      BY <1>2, <1>4 DEF Size
  <2> QED BY <1>1, <1>2, <1>4, <2>1 DEF VisitBegan
<1>9. ASSUME kind[f] \in LineKinds
      PROVE  poll' \in Visits /\ VisitHolds(poll)'
  <2>1. /\ poll'.next \in Nat /\ poll'.todo \in Seq([pos : Nat, text : LineText])
        /\ ~poll.rotated => poll'.next <= Size(f)
        /\ EventsInOrder(poll)'
        /\ ~poll.rotated => VisitCovers(poll)'
        /\ kind[f] = "claude" /\ poll'.last # None =>
              \/ Heard(f, poll'.last)
              \/ \E n \in DOMAIN poll'.todo : poll'.todo[n].text = poll'.last
      BY <1>1, <1>9, ReadingLines
  <2>2. poll'.todo \in Seq([pos : Nat, text : Told])
    <3> DEFINE X == [pos : Nat, text : LineText]
               Y == [pos : Nat, text : Told]
    <3>1. X \subseteq Y
        BY DEF Told
    <3>2. poll'.todo \in Seq(X)
        BY <2>1
    <3> HIDE DEF X, Y
    <3>3. poll'.todo \in Seq(Y)
        BY <3>1, <3>2
    <3> QED BY <3>3 DEF Y
  <2>3. poll' \in Visits
      BY <1>1, <1>3, <1>4, <1>6, <2>1, <2>2 DEF Visits
  <2>4. kind[f] \in Repeats /\ poll'.last # None =>
           \/ Heard(f, poll.last)'
           \/ kind[f] = "claude" /\ \E n \in DOMAIN poll'.todo : poll'.todo[n].text = poll'.last
    <3>1. CASE kind[f] = "claude"
        BY <1>2, <1>4, <2>1, <3>1 DEF Heard
    <3>2. CASE kind[f] = "rollout"
        BY <1>1, <1>2, <1>4, <3>2 DEF FileSound, Heard
    <3> QED BY <3>1, <3>2 DEF Repeats
  <2>5. Size(poll.file)' = Size(f)
      BY <1>2, <1>4 DEF Size
  <2>6. VisitHolds(poll)'
      BY <1>2, <1>4, <1>9, <2>1, <2>4, <2>5 DEF VisitHolds, LineKinds, Repeats
  <2> QED BY <2>3, <2>6
<1>10. ASSUME kind[f] = "whole"
      PROVE  poll' \in Visits /\ VisitHolds(poll)'
  <2>1. poll'.todo = ParseWhole(f) /\ poll'.next = poll.size
      BY <1>4, <1>10 DEF Parsed, NextOffset
  <2>2. poll' \in Visits
      BY <1>1, <1>3, <1>4, <1>6, <1>7, <2>1 DEF Visits
  <2>3. Size(poll.file)' = Size(f) /\ (~poll.rotated => poll.size <= Size(f))
      BY <1>1, <1>2, <1>4 DEF Size, VisitBegan
  <2>4. ASSUME Size(f) > 0 PROVE WholeCovered(poll)'
    <3>1. ParseWhole(poll.file)' = ParseWhole(f)
        BY <1>2, <1>4 DEF ParseWhole, Size
    <3> QED BY <1>7, <2>1, <2>4, <3>1 DEF WholeCovered
  <2>5. VisitHolds(poll)'
      BY <1>2, <1>4, <1>10, <2>1, <2>3, <2>4 DEF VisitHolds, LineKinds, Repeats
  <2> QED BY <2>2, <2>5
<1>11. ASSUME kind[f] = "message"
      PROVE  poll' \in Visits /\ VisitHolds(poll)'
  <2>1. /\ poll'.todo = ParseMessage(f, poll.base)
        /\ poll'.next = IF Parsed(f) = <<>> THEN poll.base ELSE Size(f)
      BY <1>4, <1>11 DEF Parsed, NextOffset
  <2>2. /\ poll'.todo \in Seq([pos : Nat, text : Told]) /\ poll'.next \in Nat
        /\ ~poll.rotated => poll'.next <= Size(f)
        /\ poll'.next # poll.base => poll'.todo # <<>>
    <3>1. poll'.todo \in Seq([pos : Nat, text : Told])
        BY <1>7, <2>1 DEF ParseMessage
    <3> QED BY <1>1, <1>4, <1>5, <2>1, <3>1 DEF VisitBegan
  <2>3. poll' \in Visits
      BY <1>1, <1>3, <1>4, <1>6, <2>2 DEF Visits
  <2>4. Size(poll.file)' = Size(f)
      BY <1>2, <1>4 DEF Size
  <2>5. VisitHolds(poll)'
      BY <1>2, <1>4, <1>11, <2>2, <2>4 DEF VisitHolds, LineKinds, Repeats
  <2> QED BY <2>3, <2>5
<1>12. poll' \in Visits /\ VisitHolds(poll)'
    BY <1>1, <1>9, <1>10, <1>11 DEF LineKinds
<1>13. FilesTyped' /\ \A g \in File : Continues(g)
    BY <1>1, <1>2, <1>12, FilesAlone, Typed
<1>14. ASSUME NEW g \in File PROVE FileSound(g)'
    BY <1>1, <1>2, <1>13, FileStays DEF IngestInv
<1> QED BY <1>8, <1>12, <1>13, <1>14 DEF IngestInv, VisitSound

\* The first event of a visit is recorded, or refused and its poller goes on.
LEMMA HeadHandled ==
    ASSUME IngestInv, poll # None, poll.step = "record", poll.todo # <<>>,
           UNCHANGED <<fileVars, off, ctx, from>>,
           NEW last \in LineText \cup {None},
           poll' = [poll EXCEPT !.todo = Tail(@), !.last = last],
           recorded \subseteq recorded', refused \subseteq refused',
           \/ Hash(poll.file, Head(poll.todo)) \in recorded'
           \/ /\ kind[poll.file] # "rollout"
              /\ Hash(poll.file, Head(poll.todo)) \in refused',
           last = poll.last \/ /\ kind[poll.file] = "rollout"
                               /\ last = Head(poll.todo).text
    PROVE  IngestInv'
<1> DEFINE f == poll.file
           taken == recorded \cup (IF kind[f] = "rollout" THEN {} ELSE refused)
           first == Head(poll.todo)
<1>1. /\ FilesTyped /\ poll \in Visits /\ VisitBegan(poll) /\ VisitHolds(poll)
      /\ f \in File /\ FileSound(f)
      /\ poll.todo \in Seq([pos : Nat, text : Told]) /\ Len(poll.todo) \in Nat
      /\ DOMAIN poll.todo = 1..Len(poll.todo) /\ Len(poll.todo) # 0
    BY LenProperties DEF IngestInv, VisitSound, Visits
<1>2. /\ kind' = kind /\ lines' = lines /\ tail' = tail /\ off' = off /\ ctx' = ctx
      /\ from' = from
    BY DEF fileVars
<1>3. /\ poll'.file = f /\ poll'.base = poll.base /\ poll'.size = poll.size
      /\ poll'.offset = poll.offset /\ poll'.restart = poll.restart
      /\ poll'.replay = poll.replay /\ poll'.rotated = poll.rotated
      /\ poll'.step = "record" /\ poll'.next = poll.next
      /\ poll'.todo = Tail(poll.todo) /\ poll'.last = last
    BY <1>1 DEF Visits
<1>4. /\ Tail(poll.todo) \in Seq([pos : Nat, text : Told])
      /\ DOMAIN Tail(poll.todo) = 1..(Len(poll.todo) - 1)
      /\ \A n \in 1..(Len(poll.todo) - 1) : Tail(poll.todo)[n] = poll.todo[n + 1]
      /\ first = poll.todo[1]
    BY <1>1
<1>5. poll' \in Visits
  <2> DEFINE rest == Tail(poll.todo)
  <2>1. rest \in Seq([pos : Nat, text : Told]) /\ poll' = [poll EXCEPT !.todo = rest, !.last = last]
      BY <1>4
  <2> HIDE DEF rest
  <2> QED BY <1>1, <2>1 DEF Visits
<1>6. FilesTyped' /\ \A g \in File : Continues(g)
    BY <1>1, <1>2, <1>5, FilesAlone, Typed
<1>7. ASSUME NEW g \in File PROVE FileSound(g)'
    BY <1>2, <1>1, <1>6, FileStays DEF IngestInv
<1>8. VisitBegan(poll)'
  <2>1. Size(poll.file)' = Size(f)
      BY <1>2, <1>3 DEF Size
  <2> QED BY <1>1, <1>2, <1>3, <2>1 DEF VisitBegan
<1>9. \A n \in DOMAIN poll.todo : n = 1 \/ /\ n - 1 \in DOMAIN Tail(poll.todo)
                                           /\ Tail(poll.todo)[n - 1] = poll.todo[n]
  <2> DEFINE rest == Tail(poll.todo)
             m == Len(poll.todo)
  <2>1. /\ DOMAIN poll.todo = 1..m /\ m \in Nat /\ DOMAIN rest = 1..(m - 1)
        /\ \A n \in 1..(m - 1) : rest[n] = poll.todo[n + 1]
      BY <1>1, <1>4
  <2> HIDE DEF rest, m
  <2>2. ASSUME NEW n \in 1..m, n # 1
        PROVE  n - 1 \in DOMAIN rest /\ rest[n - 1] = poll.todo[n]
    <3>1. n - 1 \in 1..(m - 1) /\ n - 1 + 1 = n
        BY <2>1, <2>2
    <3> QED BY <2>1, <3>1
  <2> QED BY <2>1, <2>2 DEF rest
<1>10. ASSUME kind[f] \in LineKinds PROVE EventsInOrder(poll)'
  <2>1. EventsInOrder(poll)
      BY <1>1, <1>10 DEF VisitHolds
  <2>2. ASSUME NEW n \in DOMAIN poll'.todo
        PROVE  n + 1 \in DOMAIN poll.todo /\ poll'.todo[n] = poll.todo[n + 1] /\ n \in Nat
      BY <1>1, <1>3, <1>4
  <2>3. ASSUME NEW m \in DOMAIN poll'.todo, NEW n \in DOMAIN poll'.todo, m < n
        PROVE  poll'.todo[m].pos < poll'.todo[n].pos
    <3>1. m + 1 < n + 1
        BY <2>2, <2>3
    <3> QED BY <2>1, <2>2, <3>1 DEF EventsInOrder
  <2>4. \A n \in DOMAIN poll'.todo :
            /\ poll'.todo[n].text \in LineText
            /\ Even(poll'.todo[n].pos) /\ poll'.todo[n].pos + 2 <= poll'.next
      BY <1>3, <2>1, <2>2 DEF EventsInOrder
  <2>5. poll'.next = poll'.base \/ Even(poll'.next)
      BY <1>3, <2>1 DEF EventsInOrder
  <2> QED BY <2>3, <2>4, <2>5 DEF EventsInOrder
<1>11. ASSUME kind[f] \in LineKinds, ~poll.rotated PROVE VisitCovers(poll)'
  <2> SUFFICES ASSUME NEW i \in DOMAIN lines[f], lines[f][i] # Noise,
                      poll.base <= 2 * (i - 1), 2 * i <= poll.next
               PROVE  Accounted(f, i)' \/ \E n \in DOMAIN poll'.todo : SpeaksFor(poll, n, i)'
      BY <1>2, <1>3 DEF VisitCovers
  <2>1. Accounted(f, i) \/ \E n \in DOMAIN poll.todo : SpeaksFor(poll, n, i)
      BY <1>1, <1>11 DEF VisitHolds, VisitCovers
  <2>2. CASE Accounted(f, i)
    <3>1. f \in File /\ Continues(f) /\ f' = f
        BY <1>1, <1>3, <1>6
    <3>2. Accounted(f, i)'
      <4>1. CASE kind[f] \in {"rollout", "claude"}
          BY <1>2, <1>3, <2>2, <3>1, <4>1 DEF Accounted, Continues
      <4>2. CASE kind[f] \notin {"rollout", "claude"}
          BY <1>2, <1>3, <2>2, <3>1, <4>2 DEF Accounted, Continues, Hash, Event
      <4> QED BY <4>1, <4>2
    <3> QED BY <3>2
  <2>3. ASSUME NEW n \in DOMAIN poll.todo, SpeaksFor(poll, n, i)
        PROVE  Accounted(f, i)' \/ \E m \in DOMAIN poll'.todo : SpeaksFor(poll, m, i)'
    <3>1. CASE n = 1
      <4>1. /\ first.text = lines[f][i]
            /\ kind[f] \in Repeats \/ first.pos = 2 * (i - 1)
          BY <1>4, <2>3, <3>1 DEF SpeaksFor
      <4>2. Hash(f, first) = <<f, first.pos, first.text>>
          BY DEF Hash
      <4>3. CASE kind[f] \in {"rollout", "claude"}
        <5>1. <<f, first.pos, first.text>>
                  \in recorded' \cup (IF kind[f] = "rollout" THEN {} ELSE refused')
            BY <4>2
        <5> HIDE DEF first
        <5> QED BY <1>2, <1>3, <4>1, <4>3, <5>1 DEF Accounted
      <4>4. CASE kind[f] \notin {"rollout", "claude"}
        <5>1. Hash(f, first) \in recorded' \cup refused'
            OBVIOUS
        <5>2. Hash(f, Event(f, i))' = Hash(f, first)
            BY <1>2, <1>3, <4>1, <4>4 DEF Hash, Event, Repeats
        <5> QED BY <1>2, <1>3, <4>4, <5>1, <5>2 DEF Accounted
      <4> QED BY <4>3, <4>4
    <3>2. CASE n # 1
      <4>1. n - 1 \in DOMAIN poll'.todo /\ poll'.todo[n - 1] = poll.todo[n]
          BY <1>3, <1>9, <3>2
      <4>2. SpeaksFor(poll, n - 1, i)'
          BY <1>2, <1>3, <2>3, <4>1 DEF SpeaksFor
      <4> QED BY <4>1, <4>2
    <3> QED BY <3>1, <3>2
  <2> QED BY <2>1, <2>2, <2>3
<1>12. ASSUME kind[f] \in Repeats, last # None
       PROVE  \/ Heard(f, poll.last)'
              \/ kind[f] = "claude" /\ \E n \in DOMAIN poll'.todo : poll'.todo[n].text = last
  <2>1. Hash(f, first) = <<f, first.pos, first.text>>
      BY DEF Hash
  <2>2. ASSUME last = first.text PROVE Heard(f, poll.last)'
    <3>1. <<f, first.pos, first.text>>
              \in recorded' \cup (IF kind[f] = "rollout" THEN {} ELSE refused')
        BY <2>1
    <3> HIDE DEF first
    <3> QED BY <1>2, <1>3, <2>2, <3>1 DEF Heard
  <2>3. CASE last = poll.last
    <3>1. \/ Heard(f, poll.last)
          \/ kind[f] = "claude" /\ \E n \in DOMAIN poll.todo : poll.todo[n].text = poll.last
        BY <1>1, <1>12, <2>3 DEF VisitHolds
    <3>2. CASE Heard(f, poll.last)
        BY <1>2, <1>3, <2>3, <3>2 DEF Heard
    <3>3. ASSUME kind[f] = "claude", NEW n \in DOMAIN poll.todo, poll.todo[n].text = poll.last
          PROVE  \/ Heard(f, poll.last)'
                 \/ \E m \in DOMAIN poll'.todo : poll'.todo[m].text = last
      <4>1. CASE n = 1
          BY <1>4, <2>2, <2>3, <3>3, <4>1
      <4>2. CASE n # 1
        <5>1. n - 1 \in DOMAIN poll'.todo /\ poll'.todo[n - 1] = poll.todo[n]
            BY <1>3, <1>9, <4>2
        <5>2. poll'.todo[n - 1].text = last
            BY <2>3, <3>3, <5>1
        <5> QED BY <5>1, <5>2
      <4> QED BY <4>1, <4>2
    <3> QED BY <3>1, <3>2, <3>3
  <2> QED BY <2>2, <2>3
<1>13. ASSUME kind[f] = "whole", ~poll.rotated, poll.size = Size(f), poll.size > 0
       PROVE  WholeCovered(poll)'
  <2>1. WholeCovered(poll)
      BY <1>1, <1>13 DEF VisitHolds
  <2>2. ParseWhole(poll.file)' = ParseWhole(f)
      BY <1>2, <1>3 DEF ParseWhole, Size
  <2>3. Hash(poll.file, Head(ParseWhole(poll.file)))' = Hash(f, Head(ParseWhole(f)))
      BY <1>3, <2>2 DEF Hash
  <2>4. CASE Hash(f, Head(ParseWhole(f))) \in recorded \cup refused
      BY <2>3, <2>4 DEF WholeCovered
  <2>5. ASSUME NEW n \in DOMAIN poll.todo, poll.todo[n] = Head(ParseWhole(f))
        PROVE  WholeCovered(poll)'
    <3>1. CASE n = 1
      <4>1. Hash(f, Head(ParseWhole(f))) \in recorded' \cup refused'
          BY <1>4, <2>5, <3>1
      <4> QED BY <2>3, <4>1 DEF WholeCovered
    <3>2. CASE n # 1
      <4>1. n - 1 \in DOMAIN poll'.todo /\ poll'.todo[n - 1] = Head(ParseWhole(f))
          BY <1>3, <1>9, <2>5, <3>2
      <4>2. \E m \in DOMAIN poll'.todo : poll'.todo[m] = Head(ParseWhole(poll.file))'
          BY <2>2, <4>1
      <4> QED BY <4>2 DEF WholeCovered
    <3> QED BY <3>1, <3>2
  <2> QED BY <2>1, <2>4, <2>5 DEF WholeCovered
<1>14. \E h \in recorded' \cup refused' : h[1] = f
  <2>1. Hash(f, first) \in recorded' \cup refused' /\ Hash(f, first)[1] = f
      BY DEF Hash
  <2> QED BY <2>1
<1>15. VisitHolds(poll)'
  <2>1. Size(poll.file)' = Size(f)
      BY <1>2, <1>3 DEF Size
  <2>2. /\ ~poll.rotated => poll.next <= Size(f)
        /\ kind[f] = "whole" => poll.next = poll.size
      BY <1>1 DEF VisitHolds
  <2> QED BY <1>2, <1>3, <1>10, <1>11, <1>12, <1>13, <1>14, <2>1, <2>2 DEF VisitHolds
<1> QED BY <1>5, <1>6, <1>7, <1>8, <1>15 DEF IngestInv, VisitSound

\* The answer a compaction repeats is recorded; the compaction waits.
LEMMA Recalling ==
    ASSUME IngestInv, RecordRecap
    PROVE  IngestInv'
<1> DEFINE f == poll.file
           answer == Recap[Head(poll.todo).text]
<1>1. /\ FilesTyped /\ poll \in Visits /\ VisitBegan(poll) /\ VisitHolds(poll)
      /\ poll # None /\ poll.step = "record" /\ poll.todo # <<>> /\ kind[f] = "rollout"
      /\ f \in File /\ poll.todo \in Seq([pos : Nat, text : Told])
    BY DEF IngestInv, VisitSound, Visits, RecordRecap, RecapDue
<1>2. answer \in LineText \cup {None}
  <2>1. /\ DOMAIN poll.todo = 1..Len(poll.todo) /\ Len(poll.todo) \in Nat
        /\ Len(poll.todo) # 0 /\ Head(poll.todo) = poll.todo[1]
      BY <1>1, LenProperties
  <2>2. poll.todo[1].text \in LineText
      BY <1>1, <2>1 DEF VisitHolds, EventsInOrder, LineKinds, Kind
  <2> QED BY <2>1, <2>2, IngestAssumption
<1>3. /\ UNCHANGED <<fileVars, off, ctx, refused, from>>
      /\ kind' = kind /\ lines' = lines /\ tail' = tail /\ off' = off /\ ctx' = ctx
      /\ refused' = refused /\ from' = from
      /\ recorded' = recorded \cup {<<f, Head(poll.todo).pos, answer>>}
      /\ poll' = [poll EXCEPT !.last = answer]
    BY DEF RecordRecap, fileVars
<1> HIDE DEF answer
<1>4. /\ poll' \in Visits /\ poll'.file = f /\ poll'.base = poll.base
      /\ poll'.size = poll.size /\ poll'.offset = poll.offset
      /\ poll'.restart = poll.restart /\ poll'.replay = poll.replay
      /\ poll'.rotated = poll.rotated /\ poll'.step = poll.step
      /\ poll'.next = poll.next /\ poll'.todo = poll.todo /\ poll'.last = answer
    BY <1>1, <1>2, <1>3 DEF Visits
<1>5. FilesTyped' /\ \A g \in File : Size(g)' = Size(g) /\ Continues(g)
    BY <1>1, <1>3, <1>4, FilesAlone, Typed
<1>6. ASSUME NEW g \in File PROVE FileSound(g)'
    BY <1>1, <1>3, <1>5, FileStays DEF IngestInv
<1>7. Size(poll.file)' = Size(f)
    BY <1>3, <1>4 DEF Size
<1>8. VisitBegan(poll)'
    BY <1>1, <1>3, <1>4, <1>7 DEF VisitBegan
<1>9. VisitHolds(poll)'
  <2>1. /\ EventsInOrder(poll) /\ (~poll.rotated => VisitCovers(poll))
        /\ ~poll.rotated => poll.next <= Size(f)
      BY <1>1 DEF VisitHolds, LineKinds, Kind
  <2>2. EventsInOrder(poll)'
      BY <1>4, <2>1 DEF EventsInOrder
  <2>3. ASSUME ~poll.rotated PROVE VisitCovers(poll)'
    <3> SUFFICES ASSUME NEW i \in DOMAIN lines[f], lines[f][i] # Noise,
                        poll.base <= 2 * (i - 1), 2 * i <= poll.next
                 PROVE  Accounted(f, i)' \/ \E n \in DOMAIN poll'.todo : SpeaksFor(poll, n, i)'
        BY <1>3, <1>4 DEF VisitCovers
    <3>1. Accounted(f, i) \/ \E n \in DOMAIN poll.todo : SpeaksFor(poll, n, i)
        BY <2>1, <2>3 DEF VisitCovers
    <3>2. ASSUME Accounted(f, i) PROVE Accounted(f, i)'
        BY <1>1, <1>3, <1>4, <3>2 DEF Accounted
    <3>3. ASSUME NEW n \in DOMAIN poll.todo, SpeaksFor(poll, n, i)
          PROVE  Accounted(f, i)' \/ \E m \in DOMAIN poll'.todo : SpeaksFor(poll, m, i)'
      <4>1. n \in DOMAIN poll'.todo
          BY <1>4
      <4>2. SpeaksFor(poll, n, i)'
          BY <1>3, <1>4, <3>3 DEF SpeaksFor
      <4> QED BY <4>1, <4>2
    <3>4. CASE Accounted(f, i)
        BY <3>2, <3>4
    <3>5. CASE \E n \in DOMAIN poll.todo : SpeaksFor(poll, n, i)
        BY <3>3, <3>5
    <3> QED BY <3>1, <3>4, <3>5
  <2>4. Heard(f, poll.last)'
    <3>1. PICK h \in recorded' : h = <<f, Head(poll.todo).pos, answer>>
        BY <1>3
    <3>2. h[1] = f /\ h[3] = answer
        BY <3>1
    <3>3. h[1] = poll'.file /\ h[3] = poll'.last
        BY <1>4, <3>2
    <3> QED BY <3>3 DEF Heard
  <2> QED BY <1>1, <1>3, <1>4, <1>7, <2>1, <2>2, <2>3, <2>4 DEF VisitHolds
<1> QED BY <1>4, <1>5, <1>6, <1>8, <1>9 DEF IngestInv, VisitSound

\* An event is recorded, or its recording fails.
LEMMA Recording ==
    ASSUME IngestInv, RecordOk \/ RecordFail
    PROVE  IngestInv'
<1> DEFINE f == poll.file
           first == Head(poll.todo)
<1>1. /\ FilesTyped /\ poll \in Visits /\ VisitBegan(poll) /\ VisitHolds(poll)
      /\ poll # None /\ poll.step = "record" /\ poll.todo # <<>>
      /\ f \in File /\ FileSound(f) /\ kind[f] \in Kind
      /\ poll.todo \in Seq([pos : Nat, text : Told]) /\ Len(poll.todo) \in Nat
      /\ DOMAIN poll.todo = 1..Len(poll.todo) /\ Len(poll.todo) # 0
      /\ poll.base \in Nat /\ poll.next \in Nat /\ poll.last \in LineText \cup {None}
    BY LenProperties, Sizes DEF IngestInv, VisitSound, Visits, RecordOk, RecordFail
<1>2. /\ first = poll.todo[1] /\ 1 \in DOMAIN poll.todo /\ first.pos \in Nat
      /\ \A n \in DOMAIN poll.todo : n \in Nat \ {0} /\ poll.todo[n].pos \in Nat
  <2> DEFINE X == [pos : Nat, text : Told]
  <2>1. \A x \in X : x.pos \in Nat
      OBVIOUS
  <2> HIDE DEF X
  <2>2. poll.todo \in Seq(X)
      BY <1>1 DEF X
  <2>3. \A n \in DOMAIN poll.todo : poll.todo[n] \in X
      BY <1>1, <2>2
  <2>4. first = poll.todo[1] /\ 1 \in DOMAIN poll.todo
      BY <1>1, <2>2
  <2> QED BY <1>1, <2>1, <2>3, <2>4
<1>3. CASE RecordOk
  <2> DEFINE last == IF kind[f] = "rollout" THEN first.text ELSE poll.last
  <2>1. /\ recorded' = recorded \cup {Hash(f, first)} /\ refused' = refused
        /\ UNCHANGED <<fileVars, off, ctx, from>>
      BY <1>3 DEF RecordOk
  <2>2. poll' = [poll EXCEPT !.todo = Tail(@), !.last = last]
      BY <1>3 DEF RecordOk
  <2>3. last \in LineText \cup {None}
    <3>1. kind[f] = "rollout" => first.text \in LineText
        BY <1>1, <1>2 DEF VisitHolds, EventsInOrder, LineKinds, Kind
    <3> QED BY <1>1, <3>1
  <2>4. CASE kind[f] = "rollout"
    <3>1. last = first.text
        BY <2>4
    <3> HIDE DEF last
    <3> QED BY <1>1, <2>1, <2>2, <2>3, <2>4, <3>1, HeadHandled
  <2>5. CASE kind[f] # "rollout"
    <3>1. last = poll.last
        BY <2>5
    <3> HIDE DEF last
    <3> QED BY <1>1, <2>1, <2>2, <2>3, <3>1, HeadHandled
  <2> QED BY <2>4, <2>5
<1>4. CASE RecordFail /\ kind[f] # "rollout"
  <2>1. /\ refused' = refused \cup {Hash(f, first)} /\ recorded' = recorded
        /\ UNCHANGED <<fileVars, off, ctx, from>>
        /\ poll' = [poll EXCEPT !.todo = Tail(@)]
      BY <1>4 DEF RecordFail
  <2>2. poll' = [poll EXCEPT !.todo = Tail(@), !.last = poll.last]
      BY <1>1, <2>1 DEF Visits
  <2> QED BY <1>1, <1>4, <2>1, <2>2, HeadHandled
<1>5. CASE RecordFail /\ kind[f] = "rollout"
  <2> DEFINE next == IF first.pos > poll.base THEN first.pos ELSE poll.base
  <2>1. /\ UNCHANGED <<fileVars, off, ctx, from>> /\ recorded' = recorded
        /\ refused' = refused /\ kind' = kind /\ lines' = lines /\ tail' = tail
        /\ off' = off /\ ctx' = ctx /\ from' = from
        /\ poll' = [poll EXCEPT !.todo = <<>>, !.next = next]
      BY <1>5 DEF RecordFail, fileVars
  <2>2. /\ poll'.file = f /\ poll'.base = poll.base /\ poll'.size = poll.size
        /\ poll'.offset = poll.offset /\ poll'.restart = poll.restart
        /\ poll'.replay = poll.replay /\ poll'.rotated = poll.rotated
        /\ poll'.step = "record" /\ poll'.next = next
        /\ poll'.todo = <<>> /\ poll'.last = poll.last
      BY <1>1, <2>1 DEF Visits
  <2>3. /\ EventsInOrder(poll) /\ (~poll.rotated => VisitCovers(poll))
        /\ poll.last # None => Heard(f, poll.last)
        /\ ~poll.rotated => poll.next <= Size(f)
      BY <1>1, <1>5 DEF VisitHolds, LineKinds, Kind, Repeats
  <2>4. /\ next \in Nat /\ (next = poll.base \/ (next = first.pos /\ Even(next)))
        /\ next = first.pos => next + 2 <= poll.next
      BY <1>1, <1>2, <2>3 DEF EventsInOrder
  <2> HIDE DEF next
  <2>5. poll' \in Visits
    <3>1. <<>> \in Seq([pos : Nat, text : Told])
        OBVIOUS
    <3> QED BY <1>1, <2>1, <2>4, <3>1 DEF Visits
  <2>6. FilesTyped' /\ \A g \in File : Size(g)' = Size(g) /\ Continues(g)
      BY <1>1, <2>1, <2>5, FilesAlone, Typed
  <2>7. ASSUME NEW g \in File PROVE FileSound(g)'
      BY <1>1, <2>1, <2>6, FileStays DEF IngestInv
  <2>8. Size(poll.file)' = Size(f) /\ Size(f) \in Nat
      BY <1>1, <2>1, <2>2, Sizes DEF Size
  <2>9. VisitBegan(poll)'
      BY <1>1, <2>1, <2>2, <2>8 DEF VisitBegan
  <2>10. EventsInOrder(poll)'
      BY <2>2, <2>4 DEF EventsInOrder
  <2>11. ASSUME ~poll.rotated PROVE VisitCovers(poll)'
    <3> SUFFICES ASSUME NEW i \in DOMAIN lines[f], lines[f][i] # Noise,
                        poll.base <= 2 * (i - 1), 2 * i <= next
                 PROVE  Accounted(f, i)
        BY <2>1, <2>2 DEF VisitCovers, Accounted, Hash, Event
    <3>1. i \in Nat \ {0}
        BY <1>1, Sizes
    <3>2. next = first.pos /\ 2 * i <= first.pos /\ 2 * i <= poll.next
      <4>1. next # poll.base
          BY <1>1, <3>1
      <4>2. next = first.pos /\ next + 2 <= poll.next
          BY <2>4, <4>1
      <4>3. 2 * i <= next /\ 2 * i \in Nat
          BY <3>1
      <4> QED BY <1>1, <1>2, <2>4, <4>2, <4>3
    <3>3. Accounted(f, i) \/ \E n \in DOMAIN poll.todo : SpeaksFor(poll, n, i)
        BY <2>3, <2>11, <3>2 DEF VisitCovers
    <3>4. ASSUME NEW n \in DOMAIN poll.todo, SpeaksFor(poll, n, i) PROVE FALSE
      <4>1. poll.todo[n].pos <= 2 * (i - 1) /\ poll.todo[n].pos \in Nat
          BY <1>2, <3>4 DEF SpeaksFor
      <4>2. first.pos <= poll.todo[n].pos
        <5>1. n = 1 \/ 1 < n
            BY <1>2
        <5>2. CASE n = 1
            BY <1>2, <4>1, <5>2
        <5>3. CASE 1 < n
          <6>1. poll.todo[1].pos < poll.todo[n].pos
              BY <1>2, <2>3, <5>3 DEF EventsInOrder
          <6> QED BY <1>2, <4>1, <6>1
        <5> QED BY <5>1, <5>2, <5>3
      <4> QED BY <1>2, <3>1, <3>2, <4>1, <4>2
    <3> QED BY <3>3, <3>4
  <2>12. ~poll.rotated => next <= Size(f)
    <3>1. ASSUME ~poll.rotated, next = poll.base PROVE next <= Size(f)
        BY <1>1, <3>1 DEF VisitBegan
    <3>2. ASSUME ~poll.rotated, next = first.pos PROVE next <= Size(f)
      <4>1. poll.next <= Size(f) /\ poll.next \in Nat
          BY <1>1, <3>2 DEF VisitHolds, Visits
      <4> HIDE DEF f, first
      <4> QED BY <2>4, <2>8, <3>2, <4>1
    <3> QED BY <2>4, <3>1, <3>2
  <2>13. poll.last # None => Heard(f, poll.last)'
      BY <2>1, <2>2, <2>3 DEF Heard
  <2>14. VisitHolds(poll)'
      BY <1>5, <2>1, <2>2, <2>8, <2>10, <2>11, <2>12, <2>13 DEF VisitHolds
  <2> QED BY <2>5, <2>6, <2>7, <2>9, <2>14 DEF IngestInv, VisitSound
<1> QED BY <1>3, <1>4, <1>5

\* Everything is handled; the context of the parser is stored.
LEMMA StoringContext ==
    ASSUME IngestInv, StoreContext
    PROVE  IngestInv'
<1> DEFINE f == poll.file
<1>1. /\ FilesTyped /\ poll \in Visits /\ VisitBegan(poll) /\ VisitHolds(poll)
      /\ f \in File /\ poll # None /\ poll.todo = <<>> /\ poll.last \in LineText \cup {None}
    BY DEF IngestInv, VisitSound, Visits, StoreContext
<1>2. /\ UNCHANGED fileVars /\ kind' = kind /\ lines' = lines /\ tail' = tail
      /\ off' = off /\ from' = from /\ recorded' = recorded /\ refused' = refused
      /\ ctx' = IF kind[f] \in {"rollout", "claude"} /\ poll.last # None
                THEN [ctx EXCEPT ![f] = poll.last] ELSE ctx
      /\ poll' = [poll EXCEPT !.step = "offset"]
    BY DEF StoreContext, fileVars
<1>3. /\ poll'.file = f /\ poll'.base = poll.base /\ poll'.size = poll.size
      /\ poll'.offset = poll.offset /\ poll'.restart = poll.restart
      /\ poll'.replay = poll.replay /\ poll'.rotated = poll.rotated
      /\ poll'.next = poll.next /\ poll'.todo = <<>> /\ poll'.last = poll.last
      /\ poll' \in Visits
    BY <1>1, <1>2 DEF Visits
<1>4. ctx' \in [File -> LineText \cup {None}]
    BY <1>1, <1>2, Typed
<1>5. FilesTyped' /\ \A g \in File : Size(g)' = Size(g) /\ Continues(g)
    BY <1>1, <1>2, <1>3, <1>4, FilesAlone, Typed
<1>6. ASSUME NEW g \in File PROVE FileSound(g)'
  <2>1. CASE ctx'[g] = ctx[g]
      BY <1>1, <1>2, <1>5, <2>1, FileStays DEF IngestInv
  <2>2. CASE ctx'[g] # ctx[g]
    <3>1. g = f /\ ctx'[f] = poll.last /\ poll.last # None /\ kind[f] \in Repeats
        BY <1>1, <1>2, <2>2, Typed DEF Repeats
    <3>2. Heard(f, poll.last)
        BY <1>1, <3>1 DEF VisitHolds
    <3>3. Heard(g, ctx[g])'
        BY <1>2, <3>1, <3>2 DEF Heard
    <3>4. FileSound(g)
        BY DEF IngestInv
    <3>5. RecordedBelow(g)' = RecordedBelow(g) /\ Size(g)' = Size(g)
      <4>1. Size(g)' = Size(g)
          BY <1>5
      <4>2. ParseWhole(g)' = ParseWhole(g)
          BY <1>2, <4>1 DEF ParseWhole
      <4>3. \A i \in DOMAIN lines[g] : /\ InReach(g, i)' <=> InReach(g, i)
                                       /\ Accounted(g, i)' <=> Accounted(g, i)
          BY <1>2 DEF InReach, Accounted, Hash, Event
      <4> QED BY <1>2, <4>1, <4>2, <4>3 DEF RecordedBelow, Hash
    <3> QED BY <1>2, <3>3, <3>4, <3>5 DEF FileSound
  <2> QED BY <2>1, <2>2
<1>7. Size(poll.file)' = Size(f) /\ ParseWhole(poll.file)' = ParseWhole(f)
    BY <1>2, <1>3 DEF Size, ParseWhole
<1>8. VisitBegan(poll)'
    BY <1>1, <1>2, <1>3, <1>7 DEF VisitBegan
<1>9. VisitHolds(poll)'
  <2>1. EventsInOrder(poll) => EventsInOrder(poll)'
      BY <1>1, <1>3 DEF EventsInOrder
  <2>2. VisitCovers(poll) => VisitCovers(poll)'
      BY <1>1, <1>2, <1>3 DEF VisitCovers, Accounted, Hash, Event
  <2>3. Heard(f, poll.last) => Heard(poll.file, poll.last)'
      BY <1>2, <1>3 DEF Heard
  <2>4. WholeCovered(poll) => WholeCovered(poll)'
      BY <1>1, <1>2, <1>3, <1>7 DEF WholeCovered, Hash
  <2> QED BY <1>1, <1>2, <1>3, <1>7, <2>1, <2>2, <2>3, <2>4 DEF VisitHolds
<1> QED BY <1>3, <1>5, <1>6, <1>8, <1>9 DEF IngestInv, VisitSound

\* The offset moves over what was recorded, and over nothing else.
LEMMA StoringOffset ==
    ASSUME IngestInv, StoreOffset
    PROVE  IngestInv'
<1>0. PICK f \in File : f = poll.file
    BY DEF IngestInv, VisitSound, Visits, StoreOffset
<1> DEFINE new == IF kind[f] = "claude" /\ poll.offset > poll.next
                  THEN poll.offset ELSE poll.next
           lazy == kind[f] \in {"rows", "message", "cursor", "gemini", "planner"}
<1>1. /\ FilesTyped /\ poll \in Visits /\ VisitBegan(poll) /\ VisitHolds(poll)
      /\ f = poll.file /\ poll # None /\ poll.todo = <<>> /\ FileSound(f)
      /\ poll.base \in Nat /\ poll.next \in Nat /\ poll.offset \in Nat /\ poll.size \in Nat
      /\ poll.rotated \in BOOLEAN /\ poll.restart \in BOOLEAN
    BY <1>0 DEF IngestInv, VisitSound, VisitHolds, Visits, StoreOffset
<1>2. /\ UNCHANGED fileVars /\ kind' = kind /\ lines' = lines /\ tail' = tail
      /\ ctx' = ctx /\ recorded' = recorded /\ refused' = refused /\ poll' = None
    BY DEF StoreOffset, fileVars
<1>3. \/ off' = off /\ from' = from /\ lazy /\ poll.next = poll.base
      \/ /\ off' = [off EXCEPT ![f] = new]
         /\ ~(lazy /\ poll.next = poll.base)
         /\ from' = [from EXCEPT ![f] =
                CASE poll.rotated -> new
                  [] ~poll.rotated /\ new = poll.next
                         /\ (poll.restart \/ kind[f] = "whole") -> 0
                  [] ~poll.rotated /\ off[f] = None -> poll.base
                  [] OTHER -> @]
    BY <1>0 DEF StoreOffset
<1>4. new \in Nat /\ off[f] \in Nat \cup {None} /\ from[f] \in Nat /\ Size(f) \in Nat
      /\ kind[f] \in Kind
    BY <1>1, Sizes
<1>5. CASE off' = off /\ from' = from
  <2>1. FilesTyped' /\ \A g \in File : Continues(g)
      BY <1>1, <1>2, <1>5, FilesAlone, Typed
  <2>2. ASSUME NEW g \in File PROVE FileSound(g)'
      BY <1>1, <1>2, <1>5, <2>1, FileStays DEF IngestInv
  <2> QED BY <1>2, <2>1, <2>2 DEF IngestInv, VisitSound
<1>6. CASE ~(off' = off /\ from' = from)
  <2> DEFINE reach == CASE poll.rotated -> new
                        [] ~poll.rotated /\ new = poll.next
                               /\ (poll.restart \/ kind[f] = "whole") -> 0
                        [] ~poll.rotated /\ off[f] = None -> poll.base
                        [] OTHER -> from[f]
  <2>1. /\ off' = [off EXCEPT ![f] = new] /\ ~(lazy /\ poll.next = poll.base)
        /\ from' = [from EXCEPT ![f] = reach]
      BY <1>3, <1>6
  <2>2. /\ reach \in Nat
        /\ poll.rotated => reach = new
        /\ ~poll.rotated /\ new = poll.next /\ (poll.restart \/ kind[f] = "whole") =>
              reach = 0 \/ (off[f] = None /\ reach = poll.base)
        /\ ~poll.rotated /\ off[f] = None => reach = poll.base \/ reach = 0
        /\ /\ ~poll.rotated /\ ~(new = poll.next /\ (poll.restart \/ kind[f] = "whole"))
           /\ off[f] = None
           => reach = poll.base
        /\ /\ ~poll.rotated /\ off[f] # None
           /\ ~(new = poll.next /\ (poll.restart \/ kind[f] = "whole"))
           => reach = from[f]
    <3> DEFINE anew == new = poll.next /\ (poll.restart \/ kind[f] = "whole")
    <3>1. new \in Nat /\ poll.base \in Nat /\ from[f] \in Nat
        BY <1>1, <1>4
    <3> HIDE DEF new
    <3>2. CASE poll.rotated
        BY <3>1, <3>2
    <3>3. CASE ~poll.rotated /\ anew
      <4>1. reach = 0 \/ (off[f] = None /\ reach = poll.base)
        <5>1. CASE off[f] = None
            BY <3>3, <5>1
        <5>2. CASE off[f] # None
            BY <3>3, <5>2
        <5> QED BY <5>1, <5>2
      <4> HIDE DEF reach
      <4> QED BY <3>1, <3>3, <4>1
    <3>4. CASE ~poll.rotated /\ ~anew /\ off[f] = None
      <4>1. reach = poll.base
          BY <3>4
      <4> HIDE DEF reach
      <4> QED BY <3>1, <3>4, <4>1
    <3>5. CASE ~poll.rotated /\ ~anew /\ off[f] # None
      <4>1. reach = from[f]
          BY <3>5
      <4> HIDE DEF reach
      <4> QED BY <3>1, <3>5, <4>1
    <3> QED BY <3>2, <3>3, <3>4, <3>5
  <2> HIDE DEF reach
  <2>3. /\ off' \in [File -> Nat \cup {None}] /\ from' \in [File -> Nat]
        /\ off'[f] = new /\ from'[f] = reach
        /\ \A g \in File \ {f} : off'[g] = off[g] /\ from'[g] = from[g]
      BY <1>1, <1>4, <2>1, <2>2, Typed
  <2>4. FilesTyped' /\ \A g \in File : Size(g)' = Size(g) /\ Continues(g)
      BY <1>1, <1>2, <2>3, FilesAlone, Typed
  <2>5. ASSUME NEW g \in File \ {f} PROVE FileSound(g)'
      BY <1>1, <1>2, <2>3, <2>4, FileStays DEF IngestInv
  <2>6. new # poll.next => kind[f] = "claude" /\ new = off[f] /\ off[f] # None
                           /\ ~(poll.restart /\ new = poll.next)
      BY <1>1 DEF VisitBegan
  <2>7. new <= Size(f) \/ reach >= new
    <3>1. CASE poll.rotated
        BY <1>4, <2>2, <3>1
    <3>2. CASE ~poll.rotated
        BY <1>1, <3>2 DEF VisitBegan, VisitHolds
    <3> QED BY <3>1, <3>2
  <2>8. ASSUME ~poll.rotated, new # poll.next
        PROVE  reach = from[f] /\ new = off[f] /\ off[f] # None
      BY <2>2, <2>6, <2>8
  <2>9. ASSUME kind[f] \in LineKinds PROVE reach >= new \/ Even(new)
    <3>1. CASE poll.rotated
        BY <1>4, <2>2, <3>1
    <3>2. CASE ~poll.rotated /\ new # poll.next
        BY <1>1, <2>8, <2>9, <3>2 DEF FileSound
    <3>3. CASE ~poll.rotated /\ new = poll.next /\ Even(poll.next)
        BY <3>3
    <3>4. CASE ~poll.rotated /\ new = poll.next /\ poll.next = poll.base
      <4>1. CASE off[f] = None
          BY <1>1, <3>4, <4>1 DEF VisitBegan
      <4>2. CASE off[f] # None /\ poll.restart
        <5>1. poll.base = 0
            BY <1>1, <4>2 DEF VisitBegan
        <5> QED BY <3>4, <5>1 DEF Even
      <4>3. CASE off[f] # None /\ ~poll.restart
        <5>1. poll.base = off[f] /\ reach = from[f]
            BY <1>1, <2>2, <2>9, <3>4, <4>3 DEF VisitBegan, LineKinds
        <5> QED BY <1>1, <2>9, <3>4, <4>3, <5>1 DEF FileSound
      <4> QED BY <4>1, <4>2, <4>3
    <3> QED BY <1>1, <2>9, <3>1, <3>2, <3>3, <3>4 DEF VisitHolds, EventsInOrder
  <2>10. RecordedBelow(f)'
    <3>1. ASSUME kind[f] = "whole", new = Size(f), Size(f) > 0, reach = 0
          PROVE  Hash(f, Head(ParseWhole(f))) \in recorded \cup refused
      <4>1. ~poll.rotated /\ new = poll.next
          BY <1>4, <2>2, <2>6, <3>1
      <4>2. WholeCovered(poll)
          BY <1>1, <3>1, <4>1 DEF VisitHolds
      <4> QED BY <1>1, <4>2 DEF WholeCovered
    <3>2. ASSUME kind[f] = "message", new > reach
          PROVE  \E h \in recorded \cup refused : h[1] = f
      <4>1. poll.next # poll.base
          BY <2>1, <3>2
      <4> QED BY <1>1, <3>2, <4>1 DEF VisitHolds
    <3>3. ASSUME kind[f] \in LineKinds, NEW i \in DOMAIN lines[f],
                 lines[f][i] # Noise, 2 * (i - 1) >= reach, 2 * i <= new
          PROVE  Accounted(f, i)
      <4>1. i \in Nat \ {0}
          BY <1>1, Sizes
      <4>2. ~poll.rotated
          BY <1>4, <2>2, <3>3, <4>1
      <4>3. CASE new # poll.next
        <5>1. reach = from[f] /\ new = off[f] /\ off[f] # None
            BY <2>8, <4>2, <4>3
        <5>2. InReach(f, i) /\ 2 * i <= off[f]
            BY <3>3, <5>1 DEF InReach
        <5> QED BY <1>1, <3>3, <5>1, <5>2 DEF FileSound, RecordedBelow, LineKinds
      <4>4. CASE new = poll.next /\ poll.base <= 2 * (i - 1)
          BY <1>1, <3>3, <4>2, <4>4 DEF VisitHolds, VisitCovers
      <4>5. CASE new = poll.next /\ 2 * (i - 1) < poll.base
        <5>1. ~poll.restart
            BY <1>1, <4>1, <4>5 DEF VisitBegan
        <5>2. kind[f] # "whole"
            BY <3>3 DEF LineKinds
        <5>3. off[f] # None
            BY <1>1, <2>2, <3>3, <4>1, <4>2, <4>5, <5>1, <5>2
        <5>4. poll.base = off[f] /\ reach = from[f]
            BY <1>1, <2>2, <4>2, <5>1, <5>2, <5>3 DEF VisitBegan
        <5>5. from[f] >= off[f] \/ Even(off[f])
            BY <1>1, <3>3, <5>3 DEF FileSound
        <5>6. 2 * i <= off[f]
          <6>1. ~(from[f] >= off[f])
              BY <1>4, <3>3, <4>1, <4>5, <5>3, <5>4
          <6>2. PICK k \in Nat : off[f] = 2 * k
              BY <5>5, <6>1 DEF Even
          <6> QED BY <4>1, <4>5, <5>4, <6>2
        <5>7. InReach(f, i)
            BY <3>3, <5>4 DEF InReach
        <5> QED BY <1>1, <3>3, <5>3, <5>6, <5>7 DEF FileSound, RecordedBelow, LineKinds
      <4> QED BY <1>1, <4>1, <4>3, <4>4, <4>5
    <3>4. ~(kind[f] \in {"whole", "message"}) => kind[f] \in LineKinds
        BY <1>4 DEF LineKinds
    <3>5. ParseWhole(f)' = ParseWhole(f)
        BY <1>2 DEF ParseWhole, Size
    <3>6. /\ kind'[f] = kind[f] /\ off'[f] = new /\ from'[f] = reach
          /\ Size(f)' = Size(f)
        BY <1>2, <2>3, <2>4
    <3>7. \A i \in DOMAIN lines[f] : Accounted(f, i) => Accounted(f, i)'
        BY <1>2 DEF Accounted, Hash, Event
    <3>8. \A i \in DOMAIN lines'[f] : InReach(f, i)' =>
              /\ i \in DOMAIN lines[f]
              /\ 2 * (i - 1) >= reach /\ lines[f][i] # Noise
        BY <1>2, <3>6 DEF InReach
    <3> QED BY <1>2, <3>1, <3>2, <3>3, <3>4, <3>5, <3>6, <3>7, <3>8 DEF RecordedBelow, Hash
  <2>11. FileSound(f)'
    <3>1. kind[f] \in Repeats /\ ctx[f] # None => Heard(f, ctx[f])'
        BY <1>1, <1>2 DEF FileSound, Heard
    <3> QED BY <1>2, <2>3, <2>4, <2>7, <2>9, <2>10, <3>1 DEF FileSound
  <2> QED BY <1>2, <2>4, <2>5, <2>11 DEF IngestInv, VisitSound
<1> QED BY <1>5, <1>6

\* The process dies: what was committed stays.
LEMMA Dying ==
    ASSUME IngestInv, Abort \/ UNCHANGED ingestVars
    PROVE  IngestInv'
<1>1. FilesTyped /\ VisitSound
    BY DEF IngestInv
<1>2. /\ UNCHANGED fileVars /\ kind' = kind /\ lines' = lines /\ tail' = tail
      /\ off' = off /\ ctx' = ctx /\ from' = from /\ recorded' = recorded
      /\ refused' = refused /\ (poll' = None \/ poll' = poll)
    BY DEF Abort, ingestVars, fileVars
<1>3. FilesTyped' /\ \A g \in File : Continues(g)
    BY <1>1, <1>2, FilesAlone, Typed DEF VisitSound
<1>4. ASSUME NEW g \in File PROVE FileSound(g)'
    BY <1>1, <1>2, <1>3, FileStays DEF IngestInv
<1>5. VisitSound'
  <2>1. CASE poll' = None
      BY <2>1 DEF VisitSound
  <2>2. CASE poll' = poll /\ poll # None
    <3>1. poll.file \in File
        BY <1>1, <2>2 DEF VisitSound, Visits
    <3> QED BY <1>1, <1>2, <1>3, <2>2, <3>1, VisitStays
  <2> QED BY <1>2, <2>1, <2>2
<1> QED BY <1>3, <1>4, <1>5 DEF IngestInv

LEMMA IngestStart == IngestInit => IngestInv
<1> SUFFICES ASSUME IngestInit PROVE IngestInv
    OBVIOUS
<1>1. /\ kind \in KindChoices /\ kind \in [File -> Kind] /\ tail \in [File -> BOOLEAN]
      /\ off = [f \in File |-> None] /\ ctx = [f \in File |-> None]
      /\ recorded = {} /\ refused = {} /\ poll = None /\ from = [f \in File |-> 0]
      /\ fresh \in [File -> {1, 2}] /\ MaxLines \in Nat \ {0, 1}
    BY IngestAssumption DEF IngestInit
<1>2. /\ lines \in [File -> Seq(LineText)]
      /\ \A f \in File : Len(lines[f]) \in Nat /\ Len(lines[f]) <= 1
  <2>1. \A s \in {<<>>} \cup {<<t>> : t \in LineText} :
            s \in Seq(LineText) /\ Len(s) \in Nat /\ Len(s) <= 1
    <3>1. /\ <<>> \in Seq(LineText) /\ Len(<<>>) = 0
          /\ \A t \in LineText : <<t>> \in Seq(LineText) /\ Len(<<t>>) = 1
        OBVIOUS
    <3> SUFFICES ASSUME NEW s \in {<<>>} \cup {<<t>> : t \in LineText}
                 PROVE  s \in Seq(LineText) /\ Len(s) \in Nat /\ Len(s) <= 1
        OBVIOUS
    <3>2. s = <<>> \/ \E t \in LineText : s = <<t>>
        OBVIOUS
    <3>3. CASE s = <<>>
        BY <3>1, <3>3
    <3>4. ASSUME NEW t \in LineText, s = <<t>>
          PROVE  s \in Seq(LineText) /\ Len(s) \in Nat /\ Len(s) <= 1
        BY <3>1, <3>4
    <3> QED BY <3>2, <3>3, <3>4
  <2>2. lines \in [File -> {<<>>} \cup {<<t>> : t \in LineText}]
      BY DEF IngestInit
  <2> QED BY <2>1, <2>2
<1>3. ASSUME NEW f \in File PROVE Size(f) <= 2 * MaxLines
  <2>0. Len(lines[f]) \in Nat /\ Len(lines[f]) <= 1 /\ MaxLines \in Nat /\ 2 <= MaxLines
      BY <1>1, <1>2
  <2>1. CASE tail[f]
      BY <2>0, <2>1 DEF Size
  <2>2. CASE ~tail[f]
      BY <2>0, <2>2 DEF Size
  <2> QED BY <2>1, <2>2
<1>4. \A f \in File : lines[f] \in Seq(LineText) /\ Len(lines[f]) <= MaxLines
  <2> SUFFICES ASSUME NEW f \in File PROVE Len(lines[f]) <= MaxLines
      BY <1>2
  <2> QED BY <1>1, <1>2
<1>5. FilesTyped
  <2>1. /\ off \in [File -> Nat \cup {None}] /\ ctx \in [File -> LineText \cup {None}]
        /\ from \in [File -> Nat] /\ fresh \in [File -> Nat]
        /\ \A f \in File : fresh[f] # 0
      BY <1>1
  <2> QED BY <1>1, <1>2, <1>3, <1>4, <2>1 DEF FilesTyped, IngestTypeOK
<1>6. \A f \in File : FileSound(f)
    BY <1>1 DEF FileSound
<1>7. VisitSound
    BY <1>1 DEF VisitSound
<1> QED BY <1>5, <1>6, <1>7 DEF IngestInv

LEMMA IngestStep ==
    ASSUME IngestInv, [IngestNext]_ingestVars
    PROVE  IngestInv'
<1>1. ASSUME NEW f \in File, WriteHalf(f) \/ \E text \in TextOf[f] : WriteLine(f, text)
      PROVE  IngestInv'
    BY <1>1, Writing
<1>2. ASSUME NEW f \in File, Rotate(f) \/ \E text \in TextOf[f] : AddParts(f, text)
      PROVE  IngestInv'
    BY <1>2, IngestAssumption, Rotating
<1>3. ASSUME NEW f \in File, Visit(f) \/ ReplayClaude(f) PROVE IngestInv'
    BY <1>3, Visiting
<1>4. CASE Step
    BY <1>4, Reading, Recalling, Recording, StoringContext, StoringOffset DEF Step
<1>5. CASE Abort \/ UNCHANGED ingestVars
    BY <1>5, Dying
<1> QED BY <1>1, <1>2, <1>3, <1>4, <1>5 DEF IngestNext

\* Every poller, whatever the files, texts and budgets: no line below a stored
\* offset was passed over, through deaths between any two commits, failing
\* records, half-written lines and files that are replaced under a visit.
THEOREM OffsetsPassOverNothing == IngestSpec => []OffsetsSound
<1>1. IngestInv => OffsetsSound
    BY DEF IngestInv, FilesTyped, FileSound, OffsetsSound, NothingPassedOver
<1>2. IngestInv /\ [IngestNext]_ingestVars => IngestInv'
    BY IngestStep
<1> QED BY <1>1, <1>2, IngestStart, PTL DEF IngestSpec

------------------------------------------------------------------------------
(* The embedding routes *)

\* A list without repetitions is no longer than one that holds all it holds.
LEMMA NoLonger ==
    ASSUME NEW X, NEW s \in Seq(X), NEW t \in Seq(X), IsInjective(s), Range(s) \subseteq Range(t)
    PROVE  Len(s) <= Len(t)
<1> DEFINE m == Len(s)
           n == Len(t)
<1>1. m \in Nat /\ n \in Nat /\ DOMAIN s = 1..m /\ DOMAIN t = 1..n
    BY LenProperties
<1>2. /\ IsFiniteSet(1..m) /\ Cardinality(1..m) = m
      /\ IsFiniteSet(1..n) /\ Cardinality(1..n) = n
    <2> HIDE DEF m, n
    <2> QED BY <1>1, FS_Interval
<1>3. t \in [1..n -> Range(t)] /\ s \in [1..m -> Range(t)]
    <2>1. t = [i \in DOMAIN t |-> t[i]] /\ s = [i \in DOMAIN s |-> s[i]]
        BY LenProperties
    <2>2. (\A i \in DOMAIN t : t[i] \in Range(t)) /\ \A i \in DOMAIN s : s[i] \in Range(t)
        BY DEF Range
    <2> HIDE DEF m, n
    <2> QED BY <1>1, <2>1, <2>2
<1> HIDE DEF m, n
<1>4. t \in Surjection(1..n, Range(t))
    BY <1>1, <1>3 DEF Surjection, Range
<1>5. s \in Injection(1..m, Range(t))
    BY <1>3 DEF Injection
<1>6. IsFiniteSet(Range(t)) /\ Cardinality(Range(t)) <= Cardinality(1..n)
    BY <1>2, <1>4, FS_Surjection
<1>7. Cardinality(1..m) <= Cardinality(Range(t))
    BY <1>5, <1>6, FS_Injection
<1>8. Cardinality(Range(t)) \in Nat
    BY <1>6, FS_CardinalityType
<1> QED BY <1>1, <1>2, <1>6, <1>7, <1>8 DEF m, n

\* What is left of a cache without some of its entries.
LEMMA CacheWithout ==
    ASSUME NEW X, NEW list \in Seq(X), IsInjective(list), NEW T
    PROVE  /\ Sublist(list, T) \in Seq(X \cap T) /\ Sublist(list, T) \in Seq(X)
           /\ IsInjective(Sublist(list, T))
           /\ Range(Sublist(list, T)) = Range(list) \cap T
           /\ Len(Sublist(list, T)) <= Len(list)
<1> DEFINE kept == Sublist(list, T)
<1>1. kept \in Seq(X \cap T) /\ Range(kept) = Range(list) \cap T /\ IsInjective(kept)
    BY SublistList
<1> HIDE DEF kept
<1>2. kept \in Seq(X)
    BY <1>1, SeqMonotonic
<1>3. Len(kept) <= Len(list)
    BY <1>1, <1>2, NoLonger
<1> QED BY <1>1, <1>2, <1>3 DEF kept

\* A new entry at the young end; the oldest goes when there is no room.
Younger(kept, e, room) ==
    LET longer == Append(kept, e)
    IN  IF Len(longer) > room THEN Tail(longer) ELSE longer

LEMMA CacheWith ==
    ASSUME NEW X, NEW kept \in Seq(X), IsInjective(kept), NEW e \in X, e \notin Range(kept),
           NEW room \in Nat \ {0}, Len(kept) <= room
    PROVE  /\ Younger(kept, e, room) \in Seq(X) /\ IsInjective(Younger(kept, e, room))
           /\ Len(Younger(kept, e, room)) <= room
           /\ Range(Younger(kept, e, room)) \subseteq Range(kept) \cup {e}
<1> DEFINE n == Len(kept)
           longer == Append(kept, e)
           new == Younger(kept, e, room)
<1>1. /\ longer \in Seq(X) /\ longer # <<>> /\ Len(longer) = n + 1
      /\ \A i \in 1..n : longer[i] = kept[i]
      /\ longer[n + 1] = e
    BY AppendProperties
<1>2. n \in Nat /\ DOMAIN kept = 1..n /\ DOMAIN longer = 1..(n + 1)
    BY <1>1, LenProperties
<1>0. new = IF Len(longer) > room THEN Tail(longer) ELSE longer
    BY DEF Younger
<1> HIDE DEF n, longer, new
<1>3. IsInjective(longer) /\ Range(longer) \subseteq Range(kept) \cup {e}
    <2>1. \A i \in 1..n : kept[i] \in Range(kept) /\ kept[i] # e
        BY <1>2 DEF Range
    <2>2. ASSUME NEW i \in 1..(n + 1), NEW j \in 1..(n + 1), longer[i] = longer[j]
          PROVE  i = j
        <3>1. i \in 1..n \/ i = n + 1
            BY <1>2
        <3>2. j \in 1..n \/ j = n + 1
            BY <1>2
        <3>3. \A a, b \in 1..n : kept[a] = kept[b] => a = b
            BY <1>2 DEF IsInjective
        <3> QED BY <1>1, <2>1, <2>2, <3>1, <3>2, <3>3, Zenon
    <2>3. \A i \in 1..(n + 1) : longer[i] \in Range(kept) \cup {e}
        BY <1>1, <1>2, <2>1
    <2> QED BY <1>2, <2>2, <2>3 DEF IsInjective, Range
<1>4. ASSUME Len(longer) > room
      PROVE  /\ new \in Seq(X) /\ IsInjective(new) /\ Len(new) <= room
             /\ Range(new) \subseteq Range(kept) \cup {e}
    <2>1. /\ new \in Seq(X) /\ Len(new) = n
          /\ \A i \in 1..n : new[i] = longer[i + 1]
        BY <1>0, <1>1, <1>2, <1>4, HeadTailProperties
    <2>2. DOMAIN new = 1..n
        BY <2>1, LenProperties
    <2>3. \A i \in 1..n : i + 1 \in DOMAIN longer
        BY <1>2
    <2>4. IsInjective(new)
        <3>1. ASSUME NEW i \in 1..n, NEW j \in 1..n, new[i] = new[j] PROVE i = j
            <4>1. longer[i + 1] = longer[j + 1]
                BY <2>1, <3>1
            <4>2. i + 1 = j + 1
                BY <1>3, <2>3, <4>1 DEF IsInjective
            <4> QED BY <4>2
        <3> QED BY <2>2, <3>1 DEF IsInjective
    <2>5. Range(new) \subseteq Range(longer)
        BY <2>1, <2>2, <2>3 DEF Range
    <2> QED BY <1>3, <2>1, <2>4, <2>5 DEF n
<1>5. ASSUME ~(Len(longer) > room)
      PROVE  /\ new \in Seq(X) /\ IsInjective(new) /\ Len(new) <= room
             /\ Range(new) \subseteq Range(kept) \cup {e}
    BY <1>0, <1>1, <1>2, <1>3, <1>5
<1> QED BY <1>4, <1>5 DEF new

USE AdaptiveAssumption, LocalAssumption

Entries == [text : Text, by : Makers]

\* A cache of the Pro API: no text twice, and no more of them than it may hold.
CacheTyped(c) ==
    /\ c \in Seq(Entries) /\ Len(c) <= Capacity
    /\ \A i, j \in DOMAIN c : c[i].text = c[j].text => i = j

\* What a cache holds of the free model's vectors is of texts that missed.
CacheEarned(c, set) == \A e \in Range(c) : e.by = "free" => e.text \in set

\* The invariant of the general route.
LabelInv == LabelsSound /\ CacheEarned(proCache, missed)

FallbackTyped(f) ==
    /\ f \in [active : BOOLEAN, fails : 0..Len(Backoff), wait : Nat]
    /\ ~f.active => f = [active |-> FALSE, fails |-> 0, wait |-> 0]

LEMMA Remembering ==
    ASSUME CacheTyped(proCache), NEW t \in Text, NEW maker \in Makers
    PROVE  /\ CacheTyped(Remember(t, maker))
           /\ Range(Remember(t, maker)) \subseteq Range(proCache) \cup {CacheEntry(t, maker)}
<1> DEFINE kept == Sublist(proCache, [text : Text \ {t}, by : Makers])
           e == CacheEntry(t, maker)
           new == Younger(kept, e, Capacity)
<1>1. proCache \in Seq(Entries) /\ IsInjective(proCache) /\ Len(proCache) <= Capacity
    BY DEF CacheTyped, IsInjective
<1>2. /\ kept \in Seq(Entries) /\ IsInjective(kept) /\ Len(kept) <= Len(proCache)
      /\ Range(kept) = Range(proCache) \cap [text : Text \ {t}, by : Makers]
    BY <1>1, CacheWithout
<1>3. e \in Entries /\ e.text = t
    BY DEF CacheEntry, Entries
<1>4. e \notin Range(kept)
    <2> HIDE DEF e, kept
    <2> QED BY <1>2, <1>3
<1>5. Len(kept) <= Capacity /\ Capacity \in Nat \ {0}
    <2>1. Len(kept) \in Nat /\ Len(proCache) \in Nat
        BY <1>1, <1>2, LenProperties
    <2> HIDE DEF kept
    <2> QED BY <1>1, <1>2, <2>1 DEF AdaptiveAssumption
<1>6. /\ new \in Seq(Entries) /\ IsInjective(new) /\ Len(new) <= Capacity
      /\ Range(new) \subseteq Range(kept) \cup {e}
    <2> HIDE DEF kept, e
    <2> QED BY <1>2, <1>3, <1>4, <1>5, CacheWith
<1>7. \A a, b \in Range(proCache) : a.text = b.text => a = b
    BY DEF CacheTyped, Range
<1>8. \A a, b \in Range(new) : a.text = b.text => a = b
    <2> HIDE DEF kept, e, new
    <2>1. \A a \in Range(kept) : a \in Range(proCache) /\ a.text # t
        BY <1>2
    <2> QED BY <1>3, <1>6, <1>7, <2>1
<1>9. \A i, j \in DOMAIN new : new[i].text = new[j].text => i = j
    <2> HIDE DEF new
    <2> QED BY <1>6, <1>8 DEF IsInjective, Range
<1>10. Remember(t, maker) = new
    BY DEF Remember, Without, Younger
<1>11. Range(new) \subseteq Range(proCache) \cup {e}
    BY <1>2, <1>6
<1> HIDE DEF new
<1> QED BY <1>6, <1>9, <1>10, <1>11 DEF CacheTyped

\* What is remembered of a text that missed keeps the cache earned.
LEMMA Earning ==
    ASSUME AdaptiveTypeOK, CacheEarned(proCache, missed), NEW t \in Text, NEW maker \in Makers,
           NEW set, missed \subseteq set, maker = "free" => t \in set
    PROVE  CacheEarned(Remember(t, maker), set)
<1>1. CacheTyped(proCache)
    BY DEF AdaptiveTypeOK, CacheTyped, Entries
<1>2. Range(Remember(t, maker)) \subseteq Range(proCache) \cup {CacheEntry(t, maker)}
    BY <1>1, Remembering
<1>3. CacheEntry(t, maker).by = maker /\ CacheEntry(t, maker).text = t
    BY DEF CacheEntry
<1> QED BY <1>2, <1>3 DEF CacheEarned

\* The general route's answer, and the cache it leaves behind.
LEMMA Answering ==
    ASSUME AdaptiveTypeOK, CacheEarned(proCache, missed), NEW t \in Text, NEW set,
           set = IF Cached(t) THEN missed ELSE MissedWith(t)
    PROVE  /\ GeneralAnswer(t).by \in Makers /\ GeneralAnswer(t).healthy \in BOOLEAN
           /\ CacheTyped(GeneralAnswer(t).cache)
           /\ CacheEarned(GeneralAnswer(t).cache, set)
           /\ GeneralAnswer(t).by = "free" => t \in set
           /\ Cached(t) => MakerOf(t) \in Makers /\ (MakerOf(t) = "free" => t \in missed)
<1>1. CacheTyped(proCache) /\ Asked \in Makers /\ proHealthy \in BOOLEAN /\ api \in BOOLEAN
    BY DEF AdaptiveTypeOK, CacheTyped, Entries, Asked, Makers
<1>2. Cached(t) => MakerOf(t) \in Makers /\ (MakerOf(t) = "free" => t \in missed)
    <2>1. \A i \in DOMAIN proCache : proCache[i] \in Entries /\ proCache[i] \in Range(proCache)
        BY <1>1, ElementOfSeq, LenProperties DEF CacheTyped, Range
    <2> QED BY <2>1 DEF Cached, MakerOf, Entries, CacheEarned
<1>3. CASE Cached(t)
    <2>1. CacheTyped(Remember(t, MakerOf(t)))
        BY <1>1, <1>2, <1>3, Remembering
    <2>2. CacheEarned(Remember(t, MakerOf(t)), set)
        BY <1>2, <1>3, Earning
    <2> QED BY <1>1, <1>2, <1>3, <2>1, <2>2 DEF GeneralAnswer
<1>4. CASE ~Cached(t)
    <2>1. CacheTyped(Remember(t, Asked))
        BY <1>1, Remembering
    <2>2. missed \subseteq set /\ (Asked = "free" => t \in set)
        BY <1>4 DEF MissedWith, Asked
    <2>3. CacheEarned(Remember(t, Asked), set)
        BY <1>1, <2>2, Earning
    <2> QED BY <1>1, <1>4, <2>1, <2>2, <2>3 DEF GeneralAnswer
<1> QED BY <1>2, <1>3, <1>4

LEMMA Falling ==
    ASSUME FallbackTyped(fallback)
    PROVE  FallbackTyped(EnterGeneralFallback) /\ FallbackTyped(ExitGeneralFallback)
           /\ FallbackTyped(DivertedState)
<1> DEFINE n == IF fallback.fails < Len(Backoff) THEN fallback.fails + 1 ELSE fallback.fails
<1>1. Len(Backoff) \in Nat /\ Len(Backoff) # 0 /\ DOMAIN Backoff = 1..Len(Backoff)
    BY LenProperties, EmptySeq DEF AdaptiveAssumption
<1>2. fallback.fails \in 0..Len(Backoff)
    BY DEF FallbackTyped
<1>3. n \in 1..Len(Backoff)
    BY <1>1, <1>2
<1>4. Backoff[n] \in Nat
    <2> HIDE DEF n
    <2> QED BY <1>1, <1>3, ElementOfSeq DEF AdaptiveAssumption
<1>5. EnterGeneralFallback = [active |-> TRUE, fails |-> n, wait |-> Backoff[n]]
    BY DEF EnterGeneralFallback
<1>6. FallbackTyped(EnterGeneralFallback)
    <2> HIDE DEF n
    <2>1. n \in 0..Len(Backoff)
        BY <1>1, <1>3
    <2> QED BY <1>4, <1>5, <2>1 DEF FallbackTyped
<1>7. FallbackTyped(ExitGeneralFallback)
    BY <1>1 DEF ExitGeneralFallback, FallbackTyped
<1> QED BY <1>6, <1>7 DEF DivertedState

\* A state the fallback is entered in labels what follows free.
LabelledFree(state) == LabelIn(state) = "free"

LEMMA Entering ==
    ASSUME FallbackTyped(fallback)
    PROVE  /\ LabelledFree(EnterGeneralFallback)
           /\ Diverted => LabelledFree(DivertedState)
<1> DEFINE n == IF fallback.fails < Len(Backoff) THEN fallback.fails + 1 ELSE fallback.fails
<1>1. Len(Backoff) \in Nat /\ Len(Backoff) # 0 /\ DOMAIN Backoff = 1..Len(Backoff)
    BY LenProperties, EmptySeq DEF AdaptiveAssumption
<1>2. n \in 1..Len(Backoff)
    BY <1>1 DEF FallbackTyped
<1>3. Backoff[n] \in Nat \ {0}
    <2> HIDE DEF n
    <2> QED BY <1>1, <1>2, ElementOfSeq DEF AdaptiveAssumption
<1>4. EnterGeneralFallback = [active |-> TRUE, fails |-> n, wait |-> Backoff[n]]
    BY DEF EnterGeneralFallback
<1>5. LabelledFree(EnterGeneralFallback)
    <2> HIDE DEF n
    <2> QED BY <1>3, <1>4 DEF LabelledFree, LabelIn
<1>6. fallback.active /\ Diverted => LabelledFree(fallback)
    BY DEF Diverted, InWindow, LabelledFree, LabelIn
<1> QED BY <1>5, <1>6 DEF DivertedState

\* What runGeneralSync returns: a vector it will label free is free, and a free
\* one it will label general is of a text that missed.
LEMMA Embedding ==
    ASSUME AdaptiveTypeOK, CacheEarned(proCache, missed), NEW t \in Text,
           NEW made, made = RunGeneralSync(t), NEW set,
           set = IF Diverted \/ Cached(t) THEN missed ELSE MissedWith(t)
    PROVE  /\ made.by \in Makers /\ made.healthy \in BOOLEAN
           /\ FallbackTyped(made.fallback) /\ CacheTyped(made.cache)
           /\ LabelIn(made.fallback) = "free" => made.by = "free"
           /\ LabelIn(made.fallback) = "general" /\ made.by = "free" => t \in set
           /\ CacheEarned(made.cache, set)
<1> DEFINE answer == GeneralAnswer(t)
<1>1. /\ answer.by \in Makers /\ answer.healthy \in BOOLEAN /\ CacheTyped(answer.cache)
      /\ ~Diverted => CacheEarned(answer.cache, set) /\ (answer.by = "free" => t \in set)
    <2> DEFINE kept == IF Cached(t) THEN missed ELSE MissedWith(t)
    <2>1. /\ answer.by \in Makers /\ answer.healthy \in BOOLEAN /\ CacheTyped(answer.cache)
          /\ CacheEarned(answer.cache, kept) /\ (answer.by = "free" => t \in kept)
        BY Answering
    <2>2. ~Diverted => set = kept
        OBVIOUS
    <2> HIDE DEF answer, kept
    <2> QED BY <2>1, <2>2
<1> HIDE DEF answer
<1>2. CacheTyped(proCache) /\ FallbackTyped(fallback) /\ proHealthy \in BOOLEAN
    BY DEF AdaptiveTypeOK, CacheTyped, FallbackTyped, Entries
<1>3. /\ FallbackTyped(EnterGeneralFallback) /\ FallbackTyped(ExitGeneralFallback)
      /\ FallbackTyped(DivertedState)
    BY <1>2, Falling
<1>4. /\ "free" \in Makers /\ LabelIn(ExitGeneralFallback) = "general"
      /\ LabelIn(EnterGeneralFallback) # "general"
      /\ Diverted => LabelIn(DivertedState) # "general"
    BY <1>2, Entering DEF Makers, LabelIn, ExitGeneralFallback, LabelledFree
<1>5. CASE Diverted
    <2>1. made = [by |-> "free", fallback |-> DivertedState, healthy |-> proHealthy,
                 cache |-> proCache]
        BY <1>5 DEF RunGeneralSync
    <2> QED BY <1>2, <1>3, <1>4, <1>5, <2>1
<1>6. CASE ~Diverted /\ answer.healthy
    <2>1. made = [by |-> answer.by, fallback |-> ExitGeneralFallback, healthy |-> answer.healthy,
                 cache |-> answer.cache]
        BY <1>6 DEF RunGeneralSync, answer
    <2> QED BY <1>1, <1>3, <1>4, <1>6, <2>1
<1>7. CASE ~Diverted /\ ~answer.healthy
    <2>1. made = [by |-> "free", fallback |-> EnterGeneralFallback, healthy |-> answer.healthy,
                 cache |-> answer.cache]
        BY <1>7 DEF RunGeneralSync, answer
    <2> QED BY <1>1, <1>3, <1>4, <1>7, <2>1
<1> QED BY <1>5, <1>6, <1>7

LEMMA AdaptiveStep ==
    ASSUME LabelInv, [AdaptiveNext]_adaptiveVars
    PROVE  LabelInv'
<1> DEFINE Written(set) == /\ set \in SUBSET [text : Text, label : Makers, by : Makers]
                           /\ \A r \in set : r.label = "free" => r.by = "free"
           Earned(set, ms) == \A r \in set : r.label = "general" /\ r.by = "free" => r.text \in ms
<1>1. /\ AdaptiveTypeOK /\ api \in BOOLEAN /\ proHealthy \in BOOLEAN
      /\ CacheTyped(proCache) /\ FallbackTyped(fallback)
      /\ priming \in [Text -> {"idle", "asking", "answered"}]
      /\ Written(rows) /\ Earned(rows, missed)
      /\ missed \subseteq Text /\ CacheEarned(proCache, missed)
    BY DEF LabelInv, LabelsSound, AdaptiveTypeOK, CacheTyped, FallbackTyped, Entries, FreeLabelTrue,
           GeneralLabelEarned
<1>2. SUFFICES /\ api' \in BOOLEAN /\ proHealthy' \in BOOLEAN
               /\ CacheTyped(proCache') /\ FallbackTyped(fallback')
               /\ priming' \in [Text -> {"idle", "asking", "answered"}]
               /\ Written(rows') /\ Earned(rows', missed')
               /\ missed' \subseteq Text /\ CacheEarned(proCache', missed')
    BY DEF LabelInv, LabelsSound, AdaptiveTypeOK, CacheTyped, FallbackTyped, Entries, FreeLabelTrue,
           GeneralLabelEarned, CacheEarned
<1>3. /\ FallbackTyped(EnterGeneralFallback) /\ FallbackTyped(ExitGeneralFallback)
      /\ FallbackTyped(DivertedState)
    BY <1>1, Falling
<1>4. ASSUME NEW t \in Text, WriteVector(t)
      PROVE  /\ api' \in BOOLEAN /\ proHealthy' \in BOOLEAN
             /\ CacheTyped(proCache') /\ FallbackTyped(fallback')
             /\ priming' \in [Text -> {"idle", "asking", "answered"}]
             /\ Written(rows') /\ Earned(rows', missed')
             /\ missed' \subseteq Text /\ CacheEarned(proCache', missed')
    <2> DEFINE made == RunGeneralSync(t)
               new == [text |-> t, label |-> LabelIn(made.fallback), by |-> made.by]
               set == IF Diverted \/ Cached(t) THEN missed ELSE MissedWith(t)
    <2>1. /\ rows' = rows \cup {new} /\ fallback' = made.fallback /\ proHealthy' = made.healthy
          /\ proCache' = made.cache /\ missed' = set /\ UNCHANGED <<api, priming>>
        BY <1>4 DEF WriteVector
    <2>2. /\ made.by \in Makers /\ made.healthy \in BOOLEAN
          /\ FallbackTyped(made.fallback) /\ CacheTyped(made.cache)
          /\ LabelIn(made.fallback) = "free" => made.by = "free"
          /\ LabelIn(made.fallback) = "general" /\ made.by = "free" => t \in set
          /\ CacheEarned(made.cache, set)
        BY <1>1, Embedding
    <2>3. new \in [text : Text, label : Makers, by : Makers]
        BY <2>2 DEF LabelIn, Makers
    <2>4. /\ new.label = "free" => new.by = "free"
          /\ new.label = "general" /\ new.by = "free" => new.text \in set
        BY <2>2
    <2>5. missed \subseteq set /\ set \subseteq Text
        BY <1>1 DEF MissedWith
    <2> HIDE DEF made, new, set
    <2>6. Written(rows') /\ Earned(rows', missed')
        BY <1>1, <2>1, <2>3, <2>4, <2>5
    <2> QED BY <1>1, <2>1, <2>2, <2>5, <2>6
<1>5. ASSUME NEW t \in Text, StartPrime(t) \/ AnswerPrime(t) \/ EndPrime(t)
      PROVE  /\ api' \in BOOLEAN /\ proHealthy' \in BOOLEAN
             /\ CacheTyped(proCache') /\ FallbackTyped(fallback')
             /\ priming' \in [Text -> {"idle", "asking", "answered"}]
             /\ rows' = rows /\ missed \subseteq missed'
             /\ missed' \subseteq Text /\ CacheEarned(proCache', missed')
    <2>1. CASE StartPrime(t)
        <3>1. Cached(t) => MakerOf(t) \in Makers /\ (MakerOf(t) = "free" => t \in missed)
            BY <1>1, Answering
        <3>2. Cached(t) => CacheTyped(Remember(t, MakerOf(t)))
            BY <1>1, <3>1, Remembering
        <3>3. Cached(t) => CacheEarned(Remember(t, MakerOf(t)), missed)
            BY <1>1, <3>1, Earning
        <3>4. missed' = missed /\ rows' = rows /\ api' = api /\ proHealthy' = proHealthy
            BY <2>1 DEF StartPrime
        <3>5. \/ proCache' = proCache
              \/ Cached(t) /\ proCache' = Remember(t, MakerOf(t))
            BY <2>1 DEF StartPrime
        <3>6. CacheTyped(proCache') /\ CacheEarned(proCache', missed')
            BY <1>1, <3>2, <3>3, <3>4, <3>5
        <3>7. fallback' = fallback \/ fallback' = DivertedState
            BY <2>1 DEF StartPrime
        <3>8. priming' \in [Text -> {"idle", "asking", "answered"}]
            BY <1>1, <2>1 DEF StartPrime
        <3> QED BY <1>1, <1>3, <3>4, <3>6, <3>7, <3>8
    <2>2. CASE AnswerPrime(t)
        <3>1. CacheTyped(Remember(t, Asked)) /\ Asked \in Makers
            BY <1>1, Remembering DEF Asked, Makers
        <3>2. missed \subseteq MissedWith(t) /\ (Asked = "free" => t \in MissedWith(t))
              /\ MissedWith(t) \subseteq Text
            BY <1>1 DEF MissedWith, Asked
        <3>3. CacheEarned(Remember(t, Asked), MissedWith(t))
            BY <1>1, <3>1, <3>2, Earning
        <3>4. /\ proCache' = Remember(t, Asked) /\ missed' = MissedWith(t)
              /\ proHealthy' = api /\ api' = api /\ fallback' = fallback /\ rows' = rows
              /\ priming' = [priming EXCEPT ![t] = "answered"]
            BY <2>2 DEF AnswerPrime
        <3> QED BY <1>1, <3>1, <3>2, <3>3, <3>4
    <2>3. CASE EndPrime(t)
        BY <1>1, <1>3, <2>3 DEF EndPrime
    <2> QED BY <1>5, <2>1, <2>2, <2>3
<1>6. CASE BackoffRuns
    <2>1. /\ fallback \in [active : BOOLEAN, fails : 0..Len(Backoff), wait : Nat]
          /\ fallback.wait > 0 /\ fallback' = [fallback EXCEPT !.wait = fallback.wait - 1]
          /\ fallback.active
        BY <1>1, <1>6 DEF BackoffRuns, FallbackTyped
    <2>2. fallback.wait - 1 \in Nat
        BY <2>1
    <2>3. fallback' = [active |-> fallback.active, fails |-> fallback.fails,
                       wait |-> fallback.wait - 1]
        BY <2>1
    <2>4. fallback.active \in BOOLEAN /\ fallback.fails \in 0..Len(Backoff)
        BY <2>1
    <2>5. FallbackTyped(fallback')
        BY <2>1, <2>2, <2>3, <2>4 DEF FallbackTyped
    <2> QED BY <1>1, <1>6, <2>5 DEF BackoffRuns
<1>7. CASE ApiFlaps \/ UNCHANGED adaptiveVars
    BY <1>1, <1>7 DEF ApiFlaps, adaptiveVars
<1>8. rows' = rows /\ missed \subseteq missed' => Written(rows') /\ Earned(rows', missed')
    BY <1>1
<1> HIDE DEF Written, Earned
<1>9. CASE \E t \in Text : WriteVector(t)
    BY <1>4, <1>9
<1>10. CASE \E t \in Text : StartPrime(t) \/ AnswerPrime(t) \/ EndPrime(t)
    BY <1>5, <1>8, <1>10
<1> QED BY <1>6, <1>7, <1>9, <1>10 DEF AdaptiveNext

\* A cache of the local provider.
KeysTyped(c) == c \in Seq(Observation) /\ IsInjective(c) /\ Len(c) <= CacheSize

LEMMA Refreshing ==
    ASSUME NEW c, KeysTyped(c), NEW t \in Observation
    PROVE  KeysTyped(Refreshed(c, t))
<1> DEFINE kept == Sublist(c, Observation \ {t})
           new == Younger(kept, t, CacheSize)
<1>1. c \in Seq(Observation) /\ IsInjective(c) /\ Len(c) <= CacheSize
    BY DEF KeysTyped
<1>2. /\ kept \in Seq(Observation) /\ IsInjective(kept) /\ Len(kept) <= Len(c)
      /\ Range(kept) = Range(c) \cap (Observation \ {t})
    BY <1>1, CacheWithout
<1>3. CacheSize \in Nat \ {0} /\ Len(kept) <= CacheSize
    <2>1. Len(kept) \in Nat /\ Len(c) \in Nat
        BY <1>1, <1>2, LenProperties
    <2> HIDE DEF kept
    <2> QED BY <1>1, <1>2, <2>1 DEF LocalAssumption
<1>4. t \notin Range(kept)
    <2> HIDE DEF kept
    <2> QED BY <1>2
<1>5. new \in Seq(Observation) /\ IsInjective(new) /\ Len(new) <= CacheSize
    <2> HIDE DEF kept
    <2> QED BY <1>2, <1>3, <1>4, CacheWith
<1>6. Refreshed(c, t) = new
    BY DEF Refreshed, Younger
<1> HIDE DEF new
<1> QED BY <1>5, <1>6 DEF KeysTyped

\* Texts that move to the young end: the cache holds what it held before.
LEMMA MovingUp ==
    ASSUME NEW c, KeysTyped(c), NEW done \in Seq(Observation), IsInjective(done),
           Range(done) \subseteq Range(c)
    PROVE  KeysTyped(Sublist(c, Observation \ Range(done)) \o done)
<1> DEFINE kept == Sublist(c, Observation \ Range(done))
           new == kept \o done
           m == Len(kept)
           n == Len(done)
<1>1. c \in Seq(Observation) /\ IsInjective(c) /\ Len(c) <= CacheSize
    BY DEF KeysTyped
<1>2. /\ kept \in Seq(Observation) /\ IsInjective(kept)
      /\ Range(kept) = Range(c) \cap (Observation \ Range(done))
    BY <1>1, CacheWithout
<1> HIDE DEF kept
<1>3. /\ new \in Seq(Observation) /\ Len(new) = m + n
      /\ \A i \in 1..(m + n) : new[i] = IF i <= m THEN kept[i] ELSE done[i - m]
    BY <1>2, ConcatProperties
<1>4. /\ m \in Nat /\ n \in Nat /\ DOMAIN kept = 1..m /\ DOMAIN done = 1..n
      /\ DOMAIN new = 1..(m + n)
    BY <1>2, <1>3, LenProperties
<1> HIDE DEF new, m, n
<1>5. /\ \A i \in 1..m : kept[i] \in Range(kept) /\ kept[i] \notin Range(done)
      /\ \A i \in 1..n : done[i] \in Range(done)
    BY <1>2, <1>4 DEF Range
<1>6. ASSUME NEW i \in 1..(m + n)
      PROVE  \/ i \in 1..m /\ new[i] = kept[i]
             \/ i - m \in 1..n /\ new[i] = done[i - m]
    BY <1>3, <1>4
<1>7. IsInjective(new)
    <2>1. ASSUME NEW i \in 1..(m + n), NEW j \in 1..(m + n), new[i] = new[j] PROVE i = j
        <3>1. CASE i \in 1..m /\ new[i] = kept[i] /\ j \in 1..m /\ new[j] = kept[j]
            BY <1>2, <1>4, <2>1, <3>1 DEF IsInjective
        <3>2. CASE /\ i - m \in 1..n /\ new[i] = done[i - m]
                   /\ j - m \in 1..n /\ new[j] = done[j - m]
            <4>1. i - m = j - m
                BY <1>4, <2>1, <3>2 DEF IsInjective
            <4> QED BY <1>4, <4>1
        <3> QED BY <1>5, <1>6, <2>1, <3>1, <3>2
    <2> QED BY <1>4, <2>1 DEF IsInjective
<1>8. Range(new) \subseteq Range(c)
    <2>1. \A i \in 1..(m + n) : new[i] \in Range(c)
        BY <1>2, <1>5, <1>6
    <2> QED BY <1>4, <2>1 DEF Range
<1>9. Len(new) <= CacheSize
    <2>1. Len(new) <= Len(c)
        BY <1>1, <1>3, <1>7, <1>8, NoLonger
    <2>2. Len(new) \in Nat /\ Len(c) \in Nat /\ CacheSize \in Nat
        BY <1>1, <1>3, LenProperties DEF LocalAssumption
    <2> QED BY <1>1, <2>1, <2>2
<1> QED BY <1>3, <1>7, <1>9 DEF KeysTyped, new, kept

\* The rows of a reindexing call: stored ones, none of them twice.
LEMMA Batches ==
    ASSUME NEW limit \in Nat \ {0}
    PROVE  Batch(limit) \in Seq(Stored) /\ IsInjective(Batch(limit))
<1> DEFINE S == IF Missing # {} THEN Missing ELSE IF Legacy # {} THEN Legacy ELSE Stored
           R == {p \in S \X S : p[1] > p[2]}
           all == Sorted(S, R)
           n == IF Len(all) < limit THEN Len(all) ELSE limit
<1>1. S \subseteq Stored /\ S \subseteq 1..Texts /\ Texts \in Nat
    BY DEF Missing, Legacy, Stored, Observation, LocalAssumption
<1> HIDE DEF S
<1>2. IsFiniteSet(S) /\ \A i \in S : i \in Nat
    <2>1. IsFiniteSet(1..Texts)
        BY <1>1, FS_Interval
    <2>2. IsFiniteSet(S)
        BY <1>1, <2>1, FS_Subset
    <2>3. \A i \in S : i \in Nat
        BY <1>1
    <2> QED BY <2>2, <2>3
<1>3. Orders(R, S)
    BY <1>2 DEF Orders
<1>4. all \in Seq(S) /\ \A i, j \in DOMAIN all : i # j => all[i] # all[j]
    <2> HIDE DEF R
    <2> QED BY <1>2, <1>3, SortedList
<1>5. Batch(limit) = SubSeq(all, 1, n)
    BY DEF Batch, NewestFirst, S
<1> HIDE DEF all
<1>6. Len(all) \in Nat /\ DOMAIN all = 1..Len(all) /\ n \in 0..Len(all)
    BY <1>4, LenProperties
<1> HIDE DEF n
<1>7. \A i \in 1..n : all[i] \in S
    BY <1>4, <1>6, ElementOfSeq
<1>8. /\ SubSeq(all, 1, n) \in Seq(S) /\ Len(SubSeq(all, 1, n)) = n
      /\ \A i \in 1..n : SubSeq(all, 1, n)[i] = all[i]
    BY <1>6, <1>7, SubSeqProperties
<1>9. SubSeq(all, 1, n) \in Seq(Stored)
    BY <1>1, <1>8, SeqMonotonic
<1>10. IsInjective(SubSeq(all, 1, n))
    BY <1>4, <1>6, <1>8, LenProperties DEF IsInjective
<1> QED BY <1>5, <1>9, <1>10

\* The rows before the first miss are in the cache.
LEMMA Hits ==
    ASSUME NEW batch \in Seq(Observation)
    PROVE  /\ FirstMiss(batch) \in 1..(Len(batch) + 1)
           /\ \A i \in 1..(FirstMiss(batch) - 1) : batch[i] \in Range(cache)
<1> DEFINE S == {n \in 1..(Len(batch) + 1) : n <= Len(batch) => batch[n] \notin Range(cache)}
<1>1. Len(batch) \in Nat
    BY LenProperties
<1>2. S \in SUBSET Nat /\ Len(batch) + 1 \in S
    BY <1>1
<1>3. PICK n \in S : \A k \in S : n <= k
    <2> HIDE DEF S
    <2>1. S # {}
        BY <1>2
    <2> QED BY <1>2, <2>1, LeastExists
<1>4. /\ n \in 1..(Len(batch) + 1)
      /\ \A i \in 1..(n - 1) : batch[i] \in Range(cache)
      /\ n <= Len(batch) => batch[n] \notin Range(cache)
    <2>1. n \in 1..(Len(batch) + 1) /\ (n <= Len(batch) => batch[n] \notin Range(cache))
        OBVIOUS
    <2>2. ASSUME NEW i \in 1..(n - 1) PROVE batch[i] \in Range(cache)
        BY <1>1, <1>3, <2>1
    <2> QED BY <2>1, <2>2
<1> QED BY <1>4 DEF FirstMiss

LEMMA LocalStart == LocalInit => LocalTypeOK /\ StoredWithVectors
<1> SUFFICES ASSUME LocalInit PROVE LocalTypeOK /\ StoredWithVectors
    OBVIOUS
<1>1. cache \in Seq(Observation) /\ Len(cache) = 0 /\ DOMAIN cache = {}
    BY DEF LocalInit
<1>2. IsInjective(cache) /\ Len(cache) <= CacheSize
    BY <1>1 DEF IsInjective, LocalAssumption
<1>3. write \in [Observation -> {"none", "priming", "primed", "retry", "stored"}]
    BY DEF LocalInit
<1>4. faults \in 0..MaxFaults /\ inflight \subseteq Observation /\ vectors \subseteq Observation
    BY DEF LocalInit, LocalAssumption
<1>5. LocalTypeOK
    BY <1>1, <1>2, <1>3, <1>4 DEF LocalInit, LocalTypeOK
<1>6. StoredWithVectors
    BY DEF LocalInit, StoredWithVectors, Stored
<1> QED BY <1>5, <1>6

LEMMA LocalStep ==
    ASSUME LocalTypeOK, StoredWithVectors, [LocalNext]_localVars
    PROVE  LocalTypeOK' /\ StoredWithVectors'
<1> DEFINE States == {"none", "priming", "primed", "retry", "stored"}
           Stays == /\ model' \in {"loading", "loaded", "broken"}
                    /\ health' \in {"healthy", "cold", "failed"}
                    /\ KeysTyped(cache') /\ inflight' \subseteq Observation
                    /\ write' \in [Observation -> States]
                    /\ vectors' \subseteq Observation
                    /\ converged' \in BOOLEAN /\ faults' \in 0..MaxFaults
                    /\ \A o \in vectors' : write'[o] = "stored"
                    /\ \A o \in Observation \ Checkpoint :
                          write'[o] = "stored" => o \in vectors' \cup Old
<1>1. /\ model \in {"loading", "loaded", "broken"} /\ health \in {"healthy", "cold", "failed"}
      /\ KeysTyped(cache) /\ inflight \subseteq Observation
      /\ write \in [Observation -> States] /\ vectors \subseteq Observation
      /\ converged \in BOOLEAN /\ faults \in 0..MaxFaults /\ MaxFaults \in Nat
      /\ \A o \in vectors : write[o] = "stored"
      /\ \A o \in Observation \ Checkpoint : write[o] = "stored" => o \in vectors \cup Old
    BY DEF LocalTypeOK, KeysTyped, StoredWithVectors, Stored, LocalAssumption
<1>2. SUFFICES Stays
    BY DEF LocalTypeOK, KeysTyped, StoredWithVectors, Stored
<1>3. CASE ModelLoads \/ UNCHANGED localVars
    BY <1>1, <1>3 DEF ModelLoads, localVars
<1>4. ASSUME NEW t \in Observation, PrimeEnds(t) PROVE Stays
    <2>1. KeysTyped(Refreshed(cache, t))
        BY <1>1, Refreshing
    <2> QED BY <1>1, <1>4, <2>1 DEF PrimeEnds
<1>5. ASSUME NEW t \in Observation, PrimeFails(t) PROVE Stays
    BY <1>1, <1>5 DEF PrimeFails
<1>6. ASSUME NEW t \in Observation, Prepare(t) PROVE Stays
    <2>1. KeysTyped(Refreshed(cache, t))
        BY <1>1, Refreshing
    <2> QED BY <1>1, <1>6, <2>1 DEF Prepare
<1>7. ASSUME NEW t \in Observation, Record(t) PROVE Stays
    <2>1. KeysTyped(Refreshed(cache, t))
        BY <1>1, Refreshing
    <2>2. \A cold \in BOOLEAN : /\ Unembedded(t, cold) \in {"stored", "retry"}
                                /\ Unembedded(t, cold) = "stored" => t \in Checkpoint
        BY DEF Unembedded
    <2>3. /\ write[t] \in {"none", "primed", "retry"} /\ t \notin vectors
          /\ UNCHANGED <<model, health, converged, faults>>
        BY <1>1, <1>7 DEF Record
    <2>4. CASE /\ cache' = Refreshed(cache, t) /\ vectors' = vectors \cup {t}
               /\ write' = [write EXCEPT ![t] = "stored"] /\ UNCHANGED inflight
        BY <1>1, <2>1, <2>3, <2>4
    <2>5. ASSUME NEW cold \in BOOLEAN, write' = [write EXCEPT ![t] = Unembedded(t, cold)],
                 inflight' \in {inflight, Missed(t)}, UNCHANGED <<cache, vectors>>
          PROVE  Stays
        BY <1>1, <2>2, <2>3, <2>5 DEF Missed
    <2> QED BY <1>7, <2>4, <2>5 DEF Record
<1>8. CASE Reindex
    <2> DEFINE limit == IF converged THEN 1 ELSE BatchSize
               batch == Batch(limit)
               miss == FirstMiss(batch)
               done == SubSeq(batch, 1, miss - 1)
    <2>1. limit \in Nat \ {0}
        BY <1>1 DEF LocalAssumption
    <2>2. batch \in Seq(Stored) /\ IsInjective(batch) /\ Stored \subseteq Observation
        <3> HIDE DEF limit
        <3>1. Stored \subseteq Observation
            BY DEF Stored
        <3> QED BY <2>1, <3>1, Batches
    <2>3. /\ vectors' = vectors \cup Range(done)
          /\ cache' = Sublist(cache, Observation \ Range(done)) \o done
          /\ inflight' = IF miss <= Len(batch) THEN Missed(batch[miss]) ELSE inflight
          /\ converged' = IF miss <= Len(batch) THEN converged ELSE Stored \subseteq vectors'
          /\ UNCHANGED <<model, health, write, faults>>
        BY <1>8 DEF Reindex
    <2> HIDE DEF batch, limit
    <2>4. batch \in Seq(Observation) /\ Len(batch) \in Nat /\ DOMAIN batch = 1..Len(batch)
        BY <2>2, SeqMonotonic, LenProperties
    <2>5. /\ miss \in 1..(Len(batch) + 1)
          /\ \A i \in 1..(miss - 1) : batch[i] \in Range(cache)
        BY <2>4, Hits
    <2> HIDE DEF miss
    <2>6. \A i \in 1..(miss - 1) : batch[i] \in Stored /\ i \in DOMAIN batch
        BY <2>2, <2>4, <2>5, ElementOfSeq
    <2>7. /\ done \in Seq(Stored) /\ Len(done) = miss - 1
          /\ \A i \in 1..(miss - 1) : done[i] = batch[i]
        BY <2>4, <2>5, <2>6, SubSeqProperties
    <2> HIDE DEF done
    <2>8. DOMAIN done = 1..(miss - 1) /\ done \in Seq(Observation)
        BY <2>2, <2>7, SeqMonotonic, LenProperties
    <2>9. IsInjective(done)
        BY <2>2, <2>6, <2>7, <2>8 DEF IsInjective
    <2>10. Range(done) \subseteq Range(cache) /\ Range(done) \subseteq Stored
        BY <2>5, <2>6, <2>7, <2>8 DEF Range
    <2>11. KeysTyped(cache')
        BY <1>1, <2>3, <2>8, <2>9, <2>10, MovingUp
    <2>12. inflight' \subseteq Observation
        <3>1. miss <= Len(batch) => batch[miss] \in Observation
            BY <2>4, <2>5, ElementOfSeq
        <3> QED BY <1>1, <2>3, <3>1 DEF Missed
    <2>13. converged' \in BOOLEAN
        BY <1>1, <2>3
    <2>14. \A o \in vectors' : o \in Observation /\ write'[o] = "stored"
        BY <1>1, <2>3, <2>10 DEF Stored
    <2> QED BY <1>1, <2>3, <2>11, <2>12, <2>13, <2>14
<1> QED BY <1>3, <1>4, <1>5, <1>6, <1>7, <1>8 DEF LocalNext

\* For any texts, caches, backoffs and failures of the API and the model: what is
\* stored under the free label was made by the free model, a vector of the free
\* model is stored under the general one only for a text for which a request of the
\* Pro API had failed, no cache holds a text twice or more texts than it may, and
\* only a checkpoint is stored without a vector (runGeneralSync throws a degraded
\* answer away, but not what the provider cached; upsertVector asks the cache).
THEOREM EmbeddingsStaySound == EmbeddingSpec => []EmbeddingSound
<1>1. AdaptiveInit => LabelInv
    <2>1. ASSUME AdaptiveInit PROVE proCache \in Seq(Entries) /\ Len(proCache) = 0
        BY <2>1 DEF AdaptiveInit
    <2>2. Capacity \in Nat /\ Len(Backoff) \in Nat
        BY LenProperties DEF AdaptiveAssumption
    <2>3. Range(<<>>) = {}
        BY DEF Range
    <2> QED BY <2>1, <2>2, <2>3 DEF AdaptiveInit, LabelInv, LabelsSound, AdaptiveTypeOK,
           FreeLabelTrue, GeneralLabelEarned, CacheEarned, Entries
<1>2. AdaptiveSpec => []LabelsSound
    <2>1. LabelInv => LabelsSound
        BY DEF LabelInv
    <2> QED BY <1>1, <2>1, AdaptiveStep, PTL DEF AdaptiveSpec
<1>3. LocalSpec => [](LocalTypeOK /\ StoredWithVectors)
    BY LocalStart, LocalStep, PTL DEF LocalSpec
<1>4. LabelsSound /\ LocalTypeOK /\ StoredWithVectors => EmbeddingSound
    BY DEF EmbeddingSound
<1> QED BY <1>2, <1>3, <1>4, PTL DEF EmbeddingSpec
==============================================================================
