---------------------------- MODULE RecorderProofs ----------------------------
(***************************************************************************)
(* Proofs about the write path of the daemon, for every set of events,     *)
(* gates, tags and bounds: the tables fit together between any two commits *)
(* and after any crash, a queued write is kept until it is stored, and the *)
(* gate lets nothing in that it should refuse.                             *)
(***************************************************************************)
EXTENDS EventRecorder, OrderLemmas, SequenceTheorems

EventRow == [id : EventIds, env : Envelope, obs : EventIds]
ObservationRow == [id : EventIds, env : Envelope, archived : BOOLEAN]
RetryRow == [row : 1..MaxRetryRows, env : Envelope, due : BOOLEAN]
StreamEvent == [id : Nat, obs : EventIds]

\* What recordEvent lets through its early returns.
Admissible(env) == env.valid /\ ~env.blocked

\* The call in progress, the retry queue and the process: a call was made for an
\* admissible event, and the retry row it was made for holds that event.
CallInv ==
    /\ status \in {"up", "stopping", "down"}
    /\ gate \in Gates /\ capture \in Captures
    /\ writeQueue \in Seq(Envelope) /\ Len(writeQueue) <= WriteQueueLimit
    /\ call \in Calls
    /\ status = "down" => call = Idle /\ loop = {}
    /\ call.at = "idle" => call = Idle
    /\ call.at # "idle" => call.env \in Envelope
    /\ call.at \in {"transact", "announce"} => call.id \in EventIds /\ Admissible(call.env)
    /\ call.at = "settle" => call.row \in Nat
    /\ retry \subseteq RetryRow /\ loop \subseteq RetryRows
    /\ \A r, q \in retry : r.row = q.row => r = q
    /\ \A r \in retry : Admissible(r.env) /\ (r.row = call.row => r.env = call.env)

\* The event and observation tables: every observation belongs to an event with
\* its id, and the id a call has drawn is free.
TablesInv ==
    /\ events \subseteq EventRow /\ observations \subseteq ObservationRow
    /\ vectors \subseteq EventIds /\ acked \subseteq Envelope
    /\ NoDuplicates /\ EventsHaveObservations /\ VectorsComplete /\ AckedStored
    /\ \A o \in observations : \E v \in events : v.id = o.id
    /\ call.at = "transact" => \/ call.env.id # NULL /\ call.id = call.env.id
                               \/ call.env.id = NULL /\ \A v \in events : v.id # call.id
    /\ call.at = "announce" => Stored(call.env) /\ \E v \in events : v.id = call.id
    /\ call.at = "settle" /\ call.ok => Stored(call.env) \/ ~capture

\* The feed: consecutive ids, each observation once, and not the one about to be
\* announced.
StreamInv ==
    /\ streamCounter \in Nat /\ stream \in Seq(StreamEvent)
    /\ \A i \in 1..Len(stream) : stream[i].id + Len(stream) = streamCounter + i
    /\ \A i, j \in 1..Len(stream) : i # j => stream[i].obs # stream[j].obs
    /\ \A i \in 1..Len(stream) : \E v \in events : v.id = stream[i].obs
    /\ call.at = "announce" => \A i \in 1..Len(stream) : stream[i].obs # call.id

\* The gate: the cache knows tags that exist, and a call that passed a gate in
\* block mode finds its content and its tag as the gate did.
GateInv ==
    /\ tags \subseteq Tag /\ tagCache \in [Tag -> BOOLEAN \cup {NULL}]
    /\ \A t \in Tag : tagCache[t] = TRUE => t \in tags
    /\ call.at = "transact" /\ gate = "block" =>
          Live(call.env.content) = {} /\ call.env.tag \in tags \cup {NULL}

\* The audit log is a sequence, of whatever rows, that verifies.
Verifies(log) == (\E S : log \in Seq(S)) /\ Mismatches(log, 1) = {}
ChainInv == Verifies(audit)

------------------------------------------------------------------------------
(* The audit chain *)

\* What Append does, for an element of any kind.
LEMMA Appended ==
    ASSUME NEW s, NEW x, \E S : s \in Seq(S)
    PROVE  /\ \E S : Append(s, x) \in Seq(S)
           /\ Len(s) \in Nat /\ Len(Append(s, x)) = Len(s) + 1
           /\ DOMAIN s = 1..Len(s) /\ DOMAIN Append(s, x) = 1..(Len(s) + 1)
           /\ \A i \in 1..Len(s) : Append(s, x)[i] = s[i]
           /\ Append(s, x)[Len(s) + 1] = x
<1> PICK S : s \in Seq(S)
    OBVIOUS
<1> DEFINE T == S \cup {x}
<1>1. s \in Seq(T) /\ x \in T
    OBVIOUS
<1> HIDE DEF T
<1>2. Append(s, x) \in Seq(T) /\ Len(s) \in Nat /\ Len(Append(s, x)) = Len(s) + 1
    BY <1>1
<1>3. (\A i \in 1..Len(s) : Append(s, x)[i] = s[i]) /\ Append(s, x)[Len(s) + 1] = x
    BY <1>1
<1>4. DOMAIN s = 1..Len(s) /\ DOMAIN Append(s, x) = 1..(Len(s) + 1)
    BY <1>1, <1>2
<1> QED
    BY <1>2, <1>3, <1>4

\* The hash a row is linked to depends only on the rows before it.
LEMMA EarlierRowsDecide ==
    ASSUME NEW s, NEW t, NEW i,
           \A j : j < i => (j \in DOMAIN s <=> j \in DOMAIN t),
           \A j \in DOMAIN s : j < i => t[j] = s[j]
    PROVE  PrevHash(t, 1, i) = PrevHash(s, 1, i)
<1>1. ChainedRows(t, 1, i) = ChainedRows(s, 1, i)
    BY Zenon DEF ChainedRows
<1>2. \A j \in ChainedRows(s, 1, i) : t[j].hash = s[j].hash
    BY Zenon DEF ChainedRows
<1>3. Nearest(t, 1, i) = Nearest(s, 1, i)
    BY <1>1, <1>2, Zenon DEF Nearest
<1> QED
    BY <1>3, Zenon DEF PrevHash

\* A row that is linked to the head, or not chained, leaves the log verifying.
LEMMA RowVerifies ==
    ASSUME NEW log, Verifies(log), NEW row,
           row.chained => row.hash = ChainHash(LastPrevHash(log), row.detail)
    PROVE  Verifies(Append(log, row))
<1> DEFINE new == Append(log, row)
           n == Len(log)
<1>0. \E S : log \in Seq(S)
    BY Zenon DEF Verifies
<1>1. /\ \E S : new \in Seq(S)
      /\ n \in Nat /\ Len(new) = n + 1 /\ DOMAIN log = 1..n /\ DOMAIN new = 1..(n + 1)
      /\ \A i \in 1..n : new[i] = log[i]
      /\ new[n + 1] = row
    <2>1. \E S : Append(log, row) \in Seq(S)
        BY <1>0, Appended, Zenon
    <2>2. /\ Len(log) \in Nat /\ Len(Append(log, row)) = Len(log) + 1
          /\ DOMAIN log = 1..Len(log) /\ DOMAIN Append(log, row) = 1..(Len(log) + 1)
        BY <1>0, Appended, Zenon
    <2>3. /\ \A i \in 1..Len(log) : Append(log, row)[i] = log[i]
          /\ Append(log, row)[Len(log) + 1] = row
        BY <1>0, Appended, ZenonT(60)
    <2> QED
        BY <2>1, <2>2, <2>3, Zenon
<1> HIDE DEF new, n
<1>2. ASSUME NEW i \in 1..(n + 1) PROVE PrevHash(new, 1, i) = PrevHash(log, 1, i)
    <2>1. \A j : j < i => (j \in DOMAIN log <=> j \in DOMAIN new)
        BY <1>1
    <2>2. \A j \in DOMAIN log : j < i => new[j] = log[j]
        BY <1>1
    <2> QED
        BY <2>1, <2>2, EarlierRowsDecide
<1>3. ASSUME NEW i \in 1..(n + 1), new[i].chained
      PROVE  new[i].hash = ChainHash(PrevHash(new, 1, i), new[i].detail)
    <2>1. CASE i \in 1..n
        <3>1. i \in ChainedRows(log, 1, n + 1)
            BY <1>1, <1>3, <2>1 DEF ChainedRows
        <3>2. log[i].hash = ChainHash(PrevHash(log, 1, i), log[i].detail)
            BY <3>1 DEF Verifies, Mismatches, n
        <3> QED
            BY <1>1, <1>2, <2>1, <3>2
    <2>2. CASE i = n + 1
        BY <1>1, <1>2, <1>3, <2>2 DEF LastPrevHash, n
    <2> QED
        BY <1>1, <2>1, <2>2
<1>4. Mismatches(new, 1) = {}
    BY <1>1, <1>3 DEF Mismatches, ChainedRows
<1> QED
    BY <1>1, <1>4 DEF Verifies, new

\* Both ways of writing an audit row.
LEMMA AuditVerifies ==
    ASSUME NEW log, Verifies(log), NEW what
    PROVE  Verifies(AppendChained(log, what)) /\ Verifies(AppendPlain(log, what))
<1> DEFINE chained == [detail |-> what, chained |-> TRUE,
                       hash |-> ChainHash(LastPrevHash(log), what)]
           plain == [detail |-> what, chained |-> FALSE, hash |-> Genesis]
<1>1. chained.chained => chained.hash = ChainHash(LastPrevHash(log), chained.detail)
    OBVIOUS
<1>2. ~plain.chained
    OBVIOUS
<1>3. AppendChained(log, what) = Append(log, chained) /\ AppendPlain(log, what) = Append(log, plain)
    BY DEF AppendChained, AppendPlain
<1> HIDE DEF chained, plain
<1> QED
    BY <1>1, <1>2, <1>3, RowVerifies

\* The best-effort audit row of a strip or of a gate warning.
LEMMA EmitVerifies ==
    ASSUME NEW log, Verifies(log), NEW wanted, NEW what, NEW new \in Emit(log, wanted, what)
    PROVE  Verifies(new)
BY AuditVerifies DEF Emit

------------------------------------------------------------------------------
(* The beginning of a call *)

USE EnvelopeAssumption

\* Where a call stands after its gate: it returned, or it goes on with an event
\* that the early returns and the gate let through, under an id of its own.
Begun(env, row) ==
    \/ row = NULL /\ call' = Idle
    \/ /\ row # NULL
       /\ \E ok \in BOOLEAN :
             /\ call' = [at |-> "settle", env |-> env, id |-> NULL, row |-> row, ok |-> ok]
             /\ ok => ~capture \/ ~Admissible(env)
    \/ \E id \in EventIds :
          /\ call' = [at |-> "transact", env |-> env, id |-> id, row |-> row, ok |-> FALSE]
          /\ Admissible(env)
          /\ \/ env.id # NULL /\ id = env.id
             \/ env.id = NULL /\ \A v \in events : v.id # id
          /\ gate = "block" => Live(env.content) = {} /\ env.tag \in tags \cup {NULL}

\* The early returns, and a refusal of the gate.
LEMMA Returned ==
    ASSUME NEW env, NEW row, NEW ok \in BOOLEAN, Return(env, row, ok),
           ok => ~capture \/ ~Admissible(env)
    PROVE  Begun(env, row)
BY DEF Return, Begun

\* The cache gets an answer of git, and believes only in tags that exist.
LEMMA TagFound ==
    ASSUME GateInv, NEW env \in Envelope, NEW found \in TagAnswers(env)
    PROVE  /\ found \in BOOLEAN
           /\ found /\ gate # "off" => env.tag \in tags \cup {NULL}
<1>0. env.tag \in Tag \cup {NULL}
    OBVIOUS
<1>1. CASE gate = "off" \/ env.tag = NULL
    BY <1>1 DEF TagAnswers
<1>2. CASE gate # "off" /\ env.tag # NULL /\ tagCache[env.tag] # NULL
    <2>1. found = tagCache[env.tag] /\ env.tag \in Tag
        BY <1>0, <1>2 DEF TagAnswers
    <2>2. found \in BOOLEAN
        BY <1>2, <2>1 DEF GateInv
    <2>3. CASE found = TRUE
        BY <2>1, <2>2, <2>3 DEF GateInv
    <2>4. CASE found = FALSE
        BY <2>4
    <2> QED
        BY <2>2, <2>3, <2>4
<1>3. CASE gate # "off" /\ env.tag # NULL /\ tagCache[env.tag] = NULL
    <2>1. found \in {FALSE} \cup {t = env.tag : t \in tags}
        BY <1>3 DEF TagAnswers
    <2>2. found = FALSE \/ \E t \in tags : found = (t = env.tag)
        BY <2>1
    <2> QED
        BY <2>2
<1> QED
    BY <1>1, <1>2, <1>3

\* recordEvent up to its transaction.
LEMMA Beginning ==
    ASSUME GateInv, ChainInv, NEW env \in Envelope, NEW row, NEW connected \in BOOLEAN,
           Begin(env, row, connected)
    PROVE  /\ Begun(env, row) /\ ChainInv'
           /\ tagCache' \in [Tag -> BOOLEAN \cup {NULL}]
           /\ \A t \in Tag : tagCache'[t] = TRUE => t \in tags
           /\ UNCHANGED <<status, config, stream, streamCounter, events, observations,
                          vectors, retry, tags, acked>>
<1>1. UNCHANGED <<status, config, stream, streamCounter, events, observations, vectors,
                  retry, tags, acked>>
    BY DEF Begin
<1>2. CASE Precheck(env, connected) # "go"
    <2> DEFINE ok == Precheck(env, connected) = "ok"
    <2>1. Return(env, row, ok) /\ UNCHANGED <<audit, tagCache>>
        BY <1>2 DEF Begin
    <2>2. ok => ~capture \/ ~Admissible(env)
        BY DEF Precheck, Admissible
    <2>3. ok \in BOOLEAN
        OBVIOUS
    <2> HIDE DEF ok
    <2>4. Begun(env, row)
        BY <2>1, <2>2, <2>3, Returned
    <2> QED
        BY <1>1, <2>1, <2>4 DEF ChainInv, GateInv
<1>3. CASE Precheck(env, connected) = "go"
    <2>1. PICK found \in TagAnswers(env), log \in Emit(audit, env.strip, "privacy_strip") :
             /\ tagCache' = IF gate = "off" \/ env.tag = NULL THEN tagCache
                            ELSE [tagCache EXCEPT ![env.tag] = found]
             /\ \/ /\ GateRejects(env, found) /\ gate = "block"
                   /\ audit' = log
                   /\ Return(env, row, FALSE)
                \/ /\ ~(GateRejects(env, found) /\ gate = "block")
                   /\ audit' \in Emit(log, GateRejects(env, found), "ddouns_gate_warn")
                   /\ \E id \in IF env.id = NULL
                                THEN EventId \ {v.id : v \in events} ELSE {env.id} :
                         call' = [at |-> "transact", env |-> env, id |-> id,
                                  row |-> row, ok |-> FALSE]
        BY <1>3 DEF Begin
    <2>2. found \in BOOLEAN /\ (found /\ gate # "off" => env.tag \in tags \cup {NULL})
        BY TagFound
    <2>3. Verifies(log)
        BY EmitVerifies DEF ChainInv
    <2>4. ChainInv'
        BY <2>1, <2>3, EmitVerifies DEF ChainInv
    <2>5. /\ tagCache' \in [Tag -> BOOLEAN \cup {NULL}]
          /\ \A t \in Tag : tagCache'[t] = TRUE => t \in tags
        <3>1. CASE gate = "off" \/ env.tag = NULL
            BY <2>1, <3>1 DEF GateInv
        <3>2. CASE gate # "off" /\ env.tag # NULL
            <4>1. env.tag \in Tag /\ tagCache' = [tagCache EXCEPT ![env.tag] = found]
                BY <2>1, <3>2
            <4>2. tagCache' \in [Tag -> BOOLEAN \cup {NULL}]
                BY <2>2, <4>1 DEF GateInv
            <4>3. ASSUME NEW t \in Tag, tagCache'[t] = TRUE PROVE t \in tags
                <5>1. CASE t = env.tag
                    BY <2>2, <3>2, <4>1, <4>3, <5>1 DEF GateInv
                <5>2. CASE t # env.tag
                    BY <4>1, <4>3, <5>2 DEF GateInv
                <5> QED
                    BY <5>1, <5>2
            <4> QED
                BY <4>2, <4>3
        <3> QED
            BY <3>1, <3>2
    <2>6. Admissible(env)
        BY <1>3 DEF Precheck, Admissible
    <2>7. Begun(env, row)
        <3>1. CASE Return(env, row, FALSE)
            BY <3>1, Returned
        <3>2. CASE /\ ~(GateRejects(env, found) /\ gate = "block")
                   /\ \E id \in IF env.id = NULL
                                THEN EventId \ {v.id : v \in events} ELSE {env.id} :
                         call' = [at |-> "transact", env |-> env, id |-> id,
                                  row |-> row, ok |-> FALSE]
            <4>1. PICK id \in IF env.id = NULL
                              THEN EventId \ {v.id : v \in events} ELSE {env.id} :
                         call' = [at |-> "transact", env |-> env, id |-> id,
                                  row |-> row, ok |-> FALSE]
                BY <3>2
            <4>2. /\ id \in EventIds
                  /\ \/ env.id # NULL /\ id = env.id
                     \/ env.id = NULL /\ \A v \in events : v.id # id
                BY DEF EventIds
            <4>3. gate = "block" => Live(env.content) = {} /\ env.tag \in tags \cup {NULL}
                BY <2>2, <3>2 DEF GateRejects
            <4> QED
                BY <2>6, <4>1, <4>2, <4>3 DEF Begun
        <3> QED
            BY <2>1, <3>1, <3>2
    <2> QED
        BY <1>1, <2>4, <2>5, <2>7
<1> QED
    BY <1>2, <1>3

HIDE EnvelopeAssumption

\* A step in which a call begins, for a write of a client or a retry row.
Begins(env, row) ==
    /\ call = Idle /\ status # "down"
    /\ row # NULL => \E r \in retry : r.row = row /\ r.env = env
    /\ Begun(env, row)
    /\ Verifies(audit)'
    /\ writeQueue' \in Seq(Envelope) /\ Len(writeQueue') <= WriteQueueLimit
    /\ tagCache' \in [Tag -> BOOLEAN \cup {NULL}]
    /\ \A t \in Tag : tagCache'[t] = TRUE => t \in tags
    /\ UNCHANGED <<status, config, loop, stream, streamCounter, events, observations,
                   vectors, retry, tags, acked>>

\* The three ways a call begins: directly, from the write queue, from the retry loop.
LEMMA Beginnings ==
    ASSUME CallInv, GateInv, ChainInv, NEW connected \in BOOLEAN,
           \/ \E env \in Envelope : RecordEvent(env, connected)
           \/ DrainWriteQueue(connected)
           \/ RetryNext(connected)
    PROVE  \E env \in Envelope, row \in Nat \cup {NULL} : Begins(env, row)
<1>1. ASSUME NEW env \in Envelope, RecordEvent(env, connected)
      PROVE  Begins(env, NULL)
    <2>1. Begin(env, NULL, connected) /\ status = "up" /\ call = Idle
          /\ UNCHANGED <<writeQueue, loop>>
        BY <1>1 DEF RecordEvent
    <2>2. writeQueue' \in Seq(Envelope) /\ Len(writeQueue') <= WriteQueueLimit
        BY <2>1 DEF CallInv
    <2> QED
        BY <2>1, <2>2, Beginning DEF Begins, ChainInv
<1>2. ASSUME DrainWriteQueue(connected)
      PROVE  Head(writeQueue) \in Envelope /\ Begins(Head(writeQueue), NULL)
    <2>1. /\ Begin(Head(writeQueue), NULL, connected) /\ status = "up" /\ call = Idle
          /\ writeQueue # <<>> /\ writeQueue' = Tail(writeQueue) /\ UNCHANGED loop
        BY <1>2 DEF DrainWriteQueue
    <2>2. /\ Head(writeQueue) \in Envelope
          /\ writeQueue' \in Seq(Envelope) /\ Len(writeQueue') <= WriteQueueLimit
        BY <2>1, EnvelopeAssumption DEF CallInv
    <2> QED
        BY <2>1, <2>2, Beginning DEF Begins, ChainInv
<1>3. ASSUME RetryNext(connected)
      PROVE  \E r \in retry : r.env \in Envelope /\ r.row \in Nat /\ Begins(r.env, r.row)
    <2>1. PICK r \in retry : r.row \in loop /\ Begin(r.env, r.row, connected)
        BY <1>3 DEF RetryNext
    <2>2. call = Idle /\ UNCHANGED <<writeQueue, loop>>
        BY <1>3 DEF RetryNext
    <2>3. r.env \in Envelope /\ r.row \in Nat
        BY EnvelopeAssumption DEF CallInv, RetryRow
    <2>4. status # "down"
        BY <2>1 DEF CallInv
    <2>5. writeQueue' \in Seq(Envelope) /\ Len(writeQueue') <= WriteQueueLimit
        BY <2>2 DEF CallInv
    <2>6. Begins(r.env, r.row)
        BY <2>1, <2>2, <2>3, <2>4, <2>5, Beginning DEF Begins, ChainInv
    <2> QED
        BY <2>3, <2>6
<1> QED
    BY <1>1, <1>2, <1>3

\* The steps of the recorder, with the three beginnings as one.
LEMMA Steps ==
    ASSUME CallInv, GateInv, ChainInv, [Next]_vars
    PROVE  \/ \E env \in Envelope, row \in Nat \cup {NULL} : Begins(env, row)
           \/ \E env \in Envelope : RecordEventQueued(env)
           \/ TransactKnown \/ TransactSameContent \/ TransactInsert \/ TransactThrow
           \/ Announce \/ RetryTick \/ RetrySettle \/ RetryAbort
           \/ \E row \in 1 .. MaxRetryRows : BackoffEnds(row)
           \/ Shutdown \/ Close \/ Crash \/ Boot \/ Archive \/ CreateTag
           \/ UNCHANGED vars
<1>1. CASE \E connected \in BOOLEAN : \/ \E env \in Envelope : RecordEvent(env, connected)
                                      \/ DrainWriteQueue(connected)
                                      \/ RetryNext(connected)
    BY <1>1, Beginnings
<1> QED
    BY <1>1, Zenon DEF Next

\* What a step may do to the call that is in progress besides beginning it.
LEMMA Answered ==
    ASSUME NEW ok \in BOOLEAN, Return(call.env, call.row, ok), CallInv, call.at # "idle"
    PROVE  \/ call.row = NULL /\ call' = Idle
           \/ /\ call.row \in Nat
              /\ call' = [at |-> "settle", env |-> call.env, id |-> NULL,
                          row |-> call.row, ok |-> ok]
BY DEF Return, CallInv, Calls

\* The row a write is queued under is behind every other row.
LEMMA QueuedBehind ==
    ASSUME CallInv
    PROVE  LastRow \in Nat /\ \A r \in retry : r.row <= LastRow
<1> DEFINE R == {0} \cup RetryRows
<1>1. R \in SUBSET Nat /\ R # {} /\ \A n \in R : n <= MaxRetryRows
    BY EnvelopeAssumption DEF CallInv, RetryRows, RetryRow
<1>2. \E m \in R : \A n \in R : n <= m
    BY <1>1, EnvelopeAssumption, GreatestExists
<1>3. \E m \in R : \A n \in RetryRows : n <= m
    BY <1>2
<1>4. LastRow \in R /\ \A n \in RetryRows : n <= LastRow
    BY <1>3 DEF LastRow
<1> QED
    BY <1>1, <1>4 DEF RetryRows

\* The states a call goes through are the ones CallInv describes.
LEMMA CallStates ==
    ASSUME CallInv, retry' = retry, loop' = loop, status' = status, gate' = gate,
           capture' = capture, writeQueue' = writeQueue, call.at # "idle",
           \E ok \in BOOLEAN : Return(call.env, call.row, ok)
    PROVE  CallInv'
<1>1. PICK ok \in BOOLEAN : Return(call.env, call.row, ok)
    OBVIOUS
<1>2. CASE call.row = NULL /\ call' = Idle
    BY <1>2, EnvelopeAssumption DEF CallInv, Idle, Calls, RetryRow, RetryRows
<1>3. CASE call.row \in Nat /\ call' = [at |-> "settle", env |-> call.env, id |-> NULL,
                                        row |-> call.row, ok |-> ok]
    BY <1>3 DEF CallInv, Idle, Calls, RetryRows
<1> QED
    BY <1>1, <1>2, <1>3, Answered

\* The call in progress, the write queue and the retry queue.
LEMMA CallStep ==
    ASSUME CallInv, GateInv, ChainInv, [Next]_vars
    PROVE  CallInv'
<1>1. ASSUME NEW env \in Envelope, NEW row \in Nat \cup {NULL}, Begins(env, row)
      PROVE  CallInv'
    <2>1. /\ UNCHANGED <<status, gate, capture, loop, retry>>
          /\ status # "down" /\ call = Idle
          /\ writeQueue' \in Seq(Envelope) /\ Len(writeQueue') <= WriteQueueLimit
        BY <1>1 DEF Begins, config
    <2>2. CASE call' = Idle
        BY <2>1, <2>2 DEF CallInv, RetryRows
    <2>3. CASE /\ row # NULL
               /\ \E ok \in BOOLEAN : call' = [at |-> "settle", env |-> env, id |-> NULL,
                                               row |-> row, ok |-> ok]
        <3>1. PICK r \in retry : r.row = row /\ r.env = env
            BY <1>1, <2>3 DEF Begins
        <3>2. call' \in Calls
            BY <2>3 DEF Calls
        <3> QED
            BY <2>1, <2>3, <3>1, <3>2 DEF CallInv, RetryRows
    <2>4. CASE \E id \in EventIds :
                  /\ call' = [at |-> "transact", env |-> env, id |-> id, row |-> row,
                              ok |-> FALSE]
                  /\ Admissible(env)
        <3>1. call' \in Calls
            BY <2>4 DEF Calls
        <3>2. \A r \in retry : r.row = row => r.env = env
            BY <1>1, EnvelopeAssumption DEF Begins, CallInv, RetryRow
        <3> QED
            BY <2>1, <2>4, <3>1, <3>2 DEF CallInv, RetryRows, Admissible
    <2> QED
        BY <1>1, <2>2, <2>3, <2>4 DEF Begins, Begun
<1>2. ASSUME NEW env \in Envelope, RecordEventQueued(env) PROVE CallInv'
    <2>1. /\ UNCHANGED <<status, gate, capture, call, loop, retry>>
          /\ writeQueue' = Append(writeQueue, env) /\ Len(writeQueue) < WriteQueueLimit
        BY <1>2 DEF RecordEventQueued, config, disk
    <2>2. writeQueue' \in Seq(Envelope) /\ Len(writeQueue') <= WriteQueueLimit
        BY <2>1, EnvelopeAssumption DEF CallInv
    <2> QED
        BY <2>1, <2>2 DEF CallInv, RetryRows
<1>3. CASE TransactKnown \/ TransactSameContent
    BY <1>3, CallStates
       DEF TransactKnown, TransactSameContent, Succeed, config, memory, disk
<1>4. CASE TransactInsert
    <2>1. /\ UNCHANGED <<status, gate, capture, writeQueue, loop, retry>>
          /\ call' = [call EXCEPT !.at = "announce"] /\ call.at = "transact"
        BY <1>4 DEF TransactInsert, config, memory
    <2>2. call' \in Calls
        BY <2>1 DEF CallInv, Calls
    <2>3. call'.env = call.env /\ call'.id = call.id /\ call'.row = call.row
          /\ call'.at = "announce"
        BY <2>1 DEF CallInv, Calls
    <2> QED
        BY <2>1, <2>2, <2>3 DEF CallInv, RetryRows, Idle
<1>5. CASE TransactThrow
    <2>1. CASE call.row = NULL /\ EnqueueRetry(call.env)
        <3> DEFINE new == [row |-> LastRow + 1, env |-> call.env, due |-> TRUE]
        <3>1. /\ UNCHANGED <<status, gate, capture, writeQueue, loop>>
              /\ call' = Idle /\ call.at = "transact"
              /\ retry' = retry \cup {new} /\ LastRow < MaxRetryRows
            BY <1>5, <2>1 DEF TransactThrow, EnqueueRetry, Return, config, memory
        <3>2. new \in RetryRow /\ Admissible(new.env) /\ \A r \in retry : r.row # new.row
            BY <3>1, QueuedBehind, EnvelopeAssumption DEF CallInv, RetryRow
        <3> HIDE DEF new
        <3>3. \A r \in retry' : r.row # NULL
            BY <3>1, <3>2, EnvelopeAssumption DEF CallInv, RetryRow
        <3>4. call'.row = NULL /\ call' \in Calls
            BY <3>1 DEF Idle, Calls
        <3> QED
            BY <3>1, <3>2, <3>3, <3>4 DEF CallInv, RetryRows, Idle
    <2>2. CASE UNCHANGED retry
        BY <1>5, <2>2, CallStates DEF TransactThrow, config, memory
    <2> QED
        BY <1>5, <2>1, <2>2 DEF TransactThrow
<1>6. CASE Announce
    BY <1>6, CallStates DEF Announce, Succeed, config, disk
<1>7. CASE RetryTick \/ Shutdown
    <2>1. /\ UNCHANGED <<gate, capture, writeQueue, call, retry>>
          /\ status' \in {"up", "stopping"} /\ loop' = FirstDue
        BY <1>7 DEF RetryTick, Shutdown, config, memory, disk
    <2>2. FirstDue \subseteq RetryRows
        BY DEF FirstDue, DueRows, RetryRows
    <2> QED
        BY <2>1, <2>2 DEF CallInv, RetryRows
<1>8. CASE RetrySettle
    <2>1. /\ UNCHANGED <<status, gate, capture, writeQueue>>
          /\ call' = Idle /\ loop' = loop \ {call.row} /\ call.at = "settle"
        BY <1>8 DEF RetrySettle, config, memory
    <2>2. call'.row = NULL /\ call' \in Calls
        BY <2>1 DEF Idle, Calls
    <2>3. CASE call.ok
        <3>1. retry' = {r \in retry : r.row # call.row}
            BY <1>8, <2>3 DEF RetrySettle
        <3> QED
            BY <2>1, <2>2, <3>1, EnvelopeAssumption DEF CallInv, RetryRows, RetryRow, Idle
    <2>4. CASE ~call.ok
        <3> DEFINE Later(r) == IF r.row = call.row THEN [r EXCEPT !.due = FALSE] ELSE r
        <3>1. retry' = {Later(r) : r \in retry}
            BY <1>8, <2>4 DEF RetrySettle
        <3>2. \A r \in retry : Later(r) \in RetryRow /\ Later(r).row = r.row
                               /\ Later(r).env = r.env
            BY DEF CallInv, RetryRow
        <3> HIDE DEF Later
        <3>3. retry' \subseteq RetryRow /\ RetryRows' = RetryRows
            BY <3>1, <3>2 DEF RetryRows
        <3>4. \A r, q \in retry' : r.row = q.row => r = q
            BY <3>1, <3>2 DEF CallInv
        <3>5. \A r \in retry' : Admissible(r.env) /\ r.row # NULL
            BY <3>1, <3>2, EnvelopeAssumption DEF CallInv, RetryRow
        <3> QED
            BY <2>1, <2>2, <3>3, <3>4, <3>5 DEF CallInv, Idle
    <2> QED
        BY <2>3, <2>4
<1>9. CASE RetryAbort
    <2>1. /\ UNCHANGED <<status, gate, capture, writeQueue, retry>>
          /\ call' = Idle /\ loop' = {}
        BY <1>9 DEF RetryAbort, config, memory, disk
    <2> QED
        BY <2>1, EnvelopeAssumption DEF CallInv, Idle, Calls, RetryRow, RetryRows
<1>10. ASSUME NEW row \in 1 .. MaxRetryRows, BackoffEnds(row) PROVE CallInv'
    <2>1. PICK r \in retry : retry' = (retry \ {r}) \cup {[r EXCEPT !.due = TRUE]}
        BY <1>10 DEF BackoffEnds
    <2>2. UNCHANGED <<status, gate, capture, writeQueue, call, loop>>
        BY <1>10 DEF BackoffEnds, config, memory
    <2> DEFINE q == [r EXCEPT !.due = TRUE]
    <2>3. q \in RetryRow /\ q.row = r.row /\ q.env = r.env
        BY DEF CallInv, RetryRow
    <2>4. retry' = (retry \ {r}) \cup {q}
        BY <2>1
    <2> HIDE DEF q
    <2>5. RetryRows' = RetryRows
        BY <2>3, <2>4 DEF RetryRows
    <2> QED
        BY <2>2, <2>3, <2>4, <2>5 DEF CallInv
<1>11. CASE Close \/ Crash
    <2>1. /\ UNCHANGED <<gate, capture, retry>>
          /\ status' = "down" /\ call' = Idle /\ loop' = {} /\ writeQueue' = <<>>
        BY <1>11 DEF Close, Crash, Forget, config, disk
    <2>2. writeQueue' \in Seq(Envelope) /\ Len(writeQueue') <= WriteQueueLimit
        BY <2>1, EnvelopeAssumption
    <2>3. \A r \in retry : r.row # NULL
        BY EnvelopeAssumption DEF CallInv, RetryRow
    <2>4. call' \in Calls /\ call'.row = NULL
        BY <2>1 DEF Idle, Calls
    <2> QED
        BY <2>1, <2>2, <2>3, <2>4 DEF CallInv, RetryRows, Idle
<1>12. CASE Boot
    BY <1>12 DEF Boot, CallInv, RetryRows, memory, disk
<1>13. CASE Archive \/ CreateTag \/ UNCHANGED vars
    BY <1>13 DEF Archive, CreateTag, vars, CallInv, RetryRows, config, memory, disk
<1> QED
    BY <1>1, <1>2, <1>3, <1>4, <1>5, <1>6, <1>7, <1>8, <1>9, <1>10, <1>11, <1>12, <1>13,
       Steps

------------------------------------------------------------------------------
(* The tables *)

\* A step that leaves the tables alone keeps what they promise, if the call it
\* leaves in progress is sound.
LEMMA TablesAlone ==
    ASSUME TablesInv, UNCHANGED <<events, observations, vectors>>,
           acked' \subseteq Envelope, \A e \in acked' : Stored(e),
           call'.at = "transact" => \/ call'.env.id # NULL /\ call'.id = call'.env.id
                                    \/ call'.env.id = NULL /\ \A v \in events : v.id # call'.id,
           call'.at = "announce" => Stored(call'.env) /\ \E v \in events : v.id = call'.id,
           call'.at = "settle" /\ call'.ok => Stored(call'.env) \/ ~capture'
    PROVE  TablesInv'
BY DEF TablesInv, NoDuplicates, EventsHaveObservations, VectorsComplete, AckedStored, Stored

\* The transaction answers: its event is known, or it stored the event.
LEMMA TablesAnswered ==
    ASSUME CallInv, TablesInv, Succeed, call.at # "idle", events \subseteq events',
           NEW w \in events',
           w.env.hash = call.env.hash \/ (call.env.id # NULL /\ w.id = call.env.id)
    PROVE  /\ acked' \subseteq Envelope
           /\ \A e \in acked' : Stored(e)'
           /\ call'.at \notin {"transact", "announce"}
           /\ (call.at = "settle" /\ call.ok => Stored(call.env))'
<1>1. /\ Return(call.env, call.row, TRUE)
      /\ acked' = IF call.row = NULL THEN acked \cup {call.env} ELSE acked
    BY DEF Succeed
<1>2. acked' \subseteq Envelope
    BY <1>1 DEF CallInv, TablesInv
<1>3. \A e \in acked' : e \in acked \/ e = call.env
    BY <1>1
<1>4. ASSUME NEW e \in acked' PROVE Stored(e)'
    <2>1. CASE e \in acked
        BY <2>1 DEF TablesInv, AckedStored, Stored
    <2>2. CASE e = call.env
        BY <2>2 DEF Stored
    <2> QED
        BY <1>3, <2>1, <2>2
<1>5. \/ call' = Idle
      \/ call'.at = "settle" /\ call'.env = call.env
    BY <1>1 DEF Return
<1>6. call'.at \notin {"transact", "announce"}
    BY <1>5 DEF Idle
<1>7. CASE call'.at = "settle"
    <2>1. call'.env = call.env
        BY <1>5, <1>7 DEF Idle
    <2>2. Stored(call.env)'
        BY <2>1 DEF Stored
    <2> QED
        BY <1>2, <1>4, <1>6, <2>2
<1> QED
    BY <1>2, <1>4, <1>6, <1>7

\* The transaction keeps an event and folds it into a live observation.
LEMMA SameContentStep ==
    ASSUME CallInv, TablesInv, TransactSameContent
    PROVE  TablesInv'
<1>1. PICK o \in Live(call.env.content) :
         events' = events \cup {[id |-> call.id, env |-> call.env, obs |-> o.id]}
    BY DEF TransactSameContent
<1> DEFINE new == [id |-> call.id, env |-> call.env, obs |-> o.id]
<1>2. /\ UNCHANGED <<observations, vectors>> /\ Succeed
      /\ call.at = "transact" /\ ~Known(call.env, call.id)
    BY DEF TransactSameContent
<1>3. o \in observations /\ o.env.content = call.env.content
    BY DEF Live
<1>4. /\ events' = events \cup {new} /\ new \in EventRow
      /\ new.env = call.env /\ new.obs = o.id
      /\ \A v \in events : v.id # new.id /\ v.env.hash # new.env.hash
    BY <1>1, <1>2, <1>3 DEF Known, CallInv, TablesInv, EventRow, ObservationRow
<1> HIDE DEF new
<1>5. PICK w \in events' : w.env.hash = call.env.hash
    BY <1>4
<1>6. call.at # "idle" /\ events \subseteq events'
    BY <1>2, <1>4
<1>7. /\ acked' \subseteq Envelope /\ \A e \in acked' : Stored(e)'
      /\ call'.at \notin {"transact", "announce"}
      /\ (call.at = "settle" /\ call.ok => Stored(call.env))'
    BY <1>2, <1>5, <1>6, TablesAnswered
<1>8. NoDuplicates'
    BY <1>2, <1>4 DEF TablesInv, NoDuplicates
<1>9. EventsHaveObservations'
    BY <1>2, <1>3, <1>4 DEF TablesInv, EventsHaveObservations
<1>10. VectorsComplete' /\ AckedStored'
    BY <1>2, <1>7 DEF TablesInv, VectorsComplete, AckedStored
<1>11. /\ events' \subseteq EventRow /\ observations' \subseteq ObservationRow
       /\ vectors' \subseteq EventIds
       /\ \A p \in observations' : \E v \in events' : v.id = p.id
    BY <1>2, <1>4 DEF TablesInv
<1> QED
    BY <1>7, <1>8, <1>9, <1>10, <1>11 DEF TablesInv

\* The transaction keeps an event with an observation of its own.
LEMMA InsertStep ==
    ASSUME CallInv, TablesInv, TransactInsert
    PROVE  TablesInv'
<1> DEFINE new == [id |-> call.id, env |-> call.env, obs |-> call.id]
           fresh == [id |-> call.id, env |-> call.env, archived |-> FALSE]
<1>1. /\ call.at = "transact" /\ ~Known(call.env, call.id) /\ Live(call.env.content) = {}
      /\ events' = events \cup {new}
      /\ call' = [call EXCEPT !.at = "announce"] /\ UNCHANGED acked
    BY DEF TransactInsert
<1>2. /\ new \in EventRow /\ fresh \in ObservationRow
      /\ \A v \in events : v.id # call.id /\ v.env.hash # call.env.hash
    BY <1>1 DEF Known, CallInv, EventRow, ObservationRow
<1>3. \A o \in observations : o.id # call.id
    BY <1>2 DEF TablesInv
<1>4. observations' = observations \cup {fresh}
    <2>1. {o \in observations : o.id # call.id} = observations
        BY <1>3
    <2>2. (\E o \in observations : o.id = call.id /\ o.archived) = FALSE
        BY <1>3
    <2>3. observations' = {o \in observations : o.id # call.id}
                       \cup {[id |-> call.id, env |-> call.env,
                              archived |-> \E o \in observations : o.id = call.id /\ o.archived]}
        BY DEF TransactInsert
    <2> QED
        BY <2>1, <2>2, <2>3
<1>5. /\ vectors \subseteq vectors' /\ vectors' \subseteq EventIds
      /\ fresh.id \in vectors' \/ fresh.env.checkpoint
    BY DEF TransactInsert, TablesInv, CallInv
<1>6. /\ new.id = call.id /\ new.env = call.env /\ new.obs = call.id
      /\ fresh.id = call.id /\ fresh.env = call.env /\ fresh.archived = FALSE
    OBVIOUS
<1>7. /\ call'.at = "announce" /\ call'.env = call.env /\ call'.id = call.id
    BY <1>1 DEF CallInv, Calls
<1>8. \A o \in observations :
         ~o.archived /\ call.env.content # NULL => o.env.content # call.env.content
    BY <1>1 DEF Live
<1> HIDE DEF new, fresh
<1>9. NoDuplicates'
    <2>1. \A v, w \in events' : v # w => v.id # w.id /\ v.env.hash # w.env.hash
        BY <1>1, <1>2, <1>6 DEF TablesInv, NoDuplicates
    <2>2. \A o, p \in observations' : o # p => o.id # p.id
        BY <1>3, <1>4, <1>6 DEF TablesInv, NoDuplicates
    <2>3. \A o, p \in observations' :
            o # p /\ ~o.archived /\ ~p.archived /\ o.env.content # NULL
            => o.env.content # p.env.content
        BY <1>4, <1>6, <1>8 DEF TablesInv, NoDuplicates
    <2> QED
        BY <2>1, <2>2, <2>3 DEF NoDuplicates
<1>10. EventsHaveObservations'
    BY <1>1, <1>4, <1>6 DEF TablesInv, EventsHaveObservations
<1>11. VectorsComplete'
    BY <1>4, <1>5 DEF TablesInv, VectorsComplete
<1>12. AckedStored'
    BY <1>1 DEF TablesInv, AckedStored, Stored
<1>13. (call.at = "announce" => Stored(call.env) /\ \E v \in events : v.id = call.id)'
    BY <1>1, <1>6, <1>7 DEF Stored
<1>14. /\ events' \subseteq EventRow /\ observations' \subseteq ObservationRow
       /\ acked' \subseteq Envelope
       /\ \A o \in observations' : \E v \in events' : v.id = o.id
    BY <1>1, <1>2, <1>4, <1>6 DEF TablesInv
<1> QED
    BY <1>5, <1>7, <1>9, <1>10, <1>11, <1>12, <1>13, <1>14 DEF TablesInv

\* An observation is archived: it stays where it is.
LEMMA ArchiveStep ==
    ASSUME TablesInv, Archive
    PROVE  TablesInv'
<1>1. PICK o \in observations :
         ~o.archived /\ observations' = (observations \ {o}) \cup {[o EXCEPT !.archived = TRUE]}
    BY DEF Archive
<1> DEFINE p == [o EXCEPT !.archived = TRUE]
<1>2. p \in ObservationRow /\ p.id = o.id /\ p.env = o.env /\ p.archived = TRUE
    BY DEF TablesInv, ObservationRow
<1>3. observations' = (observations \ {o}) \cup {p}
    BY <1>1
<1> HIDE DEF p
<1>4. UNCHANGED <<capture, call, events, vectors, acked>>
    BY DEF Archive, config
<1>5. NoDuplicates'
    BY <1>2, <1>3, <1>4 DEF TablesInv, NoDuplicates
<1>6. EventsHaveObservations'
    <2>1. ASSUME NEW v \in events
          PROVE  \E q \in observations' :
                    q.id = v.obs /\ (q.env = v.env \/ q.env.content = v.env.content)
        <3>1. PICK q \in observations :
                 q.id = v.obs /\ (q.env = v.env \/ q.env.content = v.env.content)
            BY DEF TablesInv, EventsHaveObservations
        <3>2. CASE q = o
            BY <1>2, <1>3, <3>1, <3>2
        <3>3. CASE q # o
            BY <1>3, <3>1, <3>3
        <3> QED
            BY <3>2, <3>3
    <2> QED
        BY <1>4, <2>1 DEF EventsHaveObservations
<1>7. VectorsComplete' /\ AckedStored'
    BY <1>2, <1>3, <1>4 DEF TablesInv, VectorsComplete, AckedStored, Stored
<1>8. /\ observations' \subseteq ObservationRow
      /\ \A q \in observations' : \E v \in events : v.id = q.id
    BY <1>2, <1>3 DEF TablesInv
<1> QED
    BY <1>4, <1>5, <1>6, <1>7, <1>8 DEF TablesInv, Stored

\* The tables in every step.
LEMMA TablesStep ==
    ASSUME CallInv, TablesInv, GateInv, ChainInv, [Next]_vars
    PROVE  TablesInv'
<1>0. acked \subseteq Envelope /\ \A e \in acked : Stored(e)
    BY DEF TablesInv, AckedStored
<1>1. ASSUME NEW env \in Envelope, NEW row \in Nat \cup {NULL}, Begins(env, row)
      PROVE  TablesInv'
    <2>1. /\ UNCHANGED <<capture, events, observations, vectors, retry, acked>>
        BY <1>1 DEF Begins, config
    <2>2. CASE call' = Idle
        BY <1>0, <2>1, <2>2, TablesAlone DEF Idle
    <2>3. CASE /\ row # NULL
               /\ \E ok \in BOOLEAN :
                    /\ call' = [at |-> "settle", env |-> env, id |-> NULL, row |-> row,
                                ok |-> ok]
                    /\ ok => ~capture \/ ~Admissible(env)
        <3>1. Admissible(env)
            BY <1>1, <2>3 DEF Begins, CallInv
        <3>2. call'.at = "settle" /\ (call'.ok => ~capture)
            BY <2>3, <3>1
        <3> QED
            BY <1>0, <2>1, <3>2, TablesAlone
    <2>4. CASE \E id \in EventIds :
                  /\ call' = [at |-> "transact", env |-> env, id |-> id, row |-> row,
                              ok |-> FALSE]
                  /\ \/ env.id # NULL /\ id = env.id
                     \/ env.id = NULL /\ \A v \in events : v.id # id
        <3>1. /\ call'.at = "transact"
              /\ \/ call'.env.id # NULL /\ call'.id = call'.env.id
                 \/ call'.env.id = NULL /\ \A v \in events : v.id # call'.id
            BY <2>4
        <3> QED
            BY <1>0, <2>1, <3>1, TablesAlone
    <2> QED
        BY <1>1, <2>2, <2>3, <2>4 DEF Begins, Begun
<1>2. CASE TransactKnown
    <2>1. /\ UNCHANGED <<capture, events, observations, vectors>> /\ Succeed
          /\ call.at = "transact" /\ Known(call.env, call.id)
        BY <1>2 DEF TransactKnown, config, disk
    <2>2. PICK w \in events : w.id = call.id \/ w.env.hash = call.env.hash
        BY <2>1 DEF Known
    <2>3. w.env.hash = call.env.hash \/ (call.env.id # NULL /\ w.id = call.env.id)
        BY <2>1, <2>2 DEF TablesInv
    <2>4. w \in events' /\ events \subseteq events' /\ call.at # "idle"
        BY <2>1
    <2>5. /\ acked' \subseteq Envelope /\ \A e \in acked' : Stored(e)'
          /\ call'.at \notin {"transact", "announce"}
          /\ (call.at = "settle" /\ call.ok => Stored(call.env))'
        BY <2>1, <2>3, <2>4, TablesAnswered
    <2>6. (NoDuplicates /\ EventsHaveObservations /\ VectorsComplete)'
        BY <2>1 DEF TablesInv, NoDuplicates, EventsHaveObservations, VectorsComplete
    <2> QED
        BY <2>1, <2>5, <2>6 DEF TablesInv, AckedStored
<1>3. CASE TransactSameContent
    BY <1>3, SameContentStep
<1>4. CASE TransactInsert
    BY <1>4, InsertStep
<1>5. CASE Announce
    <2>1. /\ UNCHANGED <<capture, events, observations, vectors>> /\ Succeed
          /\ call.at = "announce"
        BY <1>5 DEF Announce, config, disk
    <2>2. PICK w \in events :
             w.env.hash = call.env.hash \/ (call.env.id # NULL /\ w.id = call.env.id)
        BY <2>1 DEF TablesInv, Stored
    <2>3. w \in events' /\ events \subseteq events' /\ call.at # "idle"
        BY <2>1
    <2>4. /\ acked' \subseteq Envelope /\ \A e \in acked' : Stored(e)'
          /\ call'.at \notin {"transact", "announce"}
          /\ (call.at = "settle" /\ call.ok => Stored(call.env))'
        BY <2>1, <2>2, <2>3, TablesAnswered
    <2>5. (NoDuplicates /\ EventsHaveObservations /\ VectorsComplete)'
        BY <2>1 DEF TablesInv, NoDuplicates, EventsHaveObservations, VectorsComplete
    <2> QED
        BY <2>1, <2>4, <2>5 DEF TablesInv, AckedStored
<1>6. CASE TransactThrow
    <2>1. /\ UNCHANGED <<events, observations, vectors, acked>>
          /\ Return(call.env, call.row, FALSE)
        BY <1>6 DEF TransactThrow
    <2>2. call'.at = "idle" \/ (call'.at = "settle" /\ ~call'.ok)
        BY <2>1 DEF Return, Idle
    <2> QED
        BY <1>0, <2>1, <2>2, TablesAlone
<1>7. CASE RetrySettle \/ RetryAbort \/ Close \/ Crash
    <2>1. UNCHANGED <<events, observations, vectors, acked>> /\ call'.at = "idle"
        BY <1>7 DEF RetrySettle, RetryAbort, Close, Crash, Forget, Idle, disk
    <2> QED
        BY <1>0, <2>1, TablesAlone
<1>8. CASE Boot
    <2>1. UNCHANGED <<events, observations, vectors, acked>> /\ call'.at = "idle"
        BY <1>8 DEF Boot, CallInv, Idle, disk
    <2> QED
        BY <1>0, <2>1, TablesAlone
<1>9. CASE \/ \E env \in Envelope : RecordEventQueued(env)
           \/ RetryTick \/ \E row \in 1 .. MaxRetryRows : BackoffEnds(row)
           \/ Shutdown \/ CreateTag \/ UNCHANGED vars
    <2>1. UNCHANGED <<capture, call, events, observations, vectors, acked>>
        BY <1>9 DEF RecordEventQueued, RetryTick, BackoffEnds, Shutdown, CreateTag, vars,
                    disk, config
    <2> QED
        BY <2>1 DEF TablesInv, NoDuplicates, EventsHaveObservations, VectorsComplete,
                    AckedStored, Stored
<1>10. CASE Archive
    BY <1>10, ArchiveStep
<1> QED
    BY <1>1, <1>2, <1>3, <1>4, <1>5, <1>6, <1>7, <1>8, <1>9, <1>10, Steps

------------------------------------------------------------------------------
(* The feed, the gate and the audit chain *)

\* The next event of the feed: the oldest falls off at the limit.
LEMMA Appending ==
    ASSUME StreamInv, NEW obs \in EventIds, AppendStreamEvent(obs),
           \A i \in 1..Len(stream) : stream[i].obs # obs
    PROVE  /\ streamCounter' \in Nat /\ stream' \in Seq(StreamEvent)
           /\ \A i \in 1..Len(stream') : stream'[i].id + Len(stream') = streamCounter' + i
           /\ \A i, j \in 1..Len(stream') : i # j => stream'[i].obs # stream'[j].obs
           /\ \A i \in 1..Len(stream') :
                \/ stream'[i].obs = obs
                \/ \E k \in 1..Len(stream) : stream'[i].obs = stream[k].obs
<1> DEFINE new == [id |-> streamCounter + 1, obs |-> obs]
           grown == Append(stream, new)
           first == IF Len(grown) > Retention THEN Len(grown) - Retention + 1 ELSE 1
<1>1. /\ streamCounter' = streamCounter + 1
      /\ stream' = SubSeq(grown, first, Len(grown))
    BY DEF AppendStreamEvent
<1>2. /\ streamCounter \in Nat /\ stream \in Seq(StreamEvent) /\ Len(stream) \in Nat
      /\ new \in StreamEvent /\ new.id = streamCounter + 1 /\ new.obs = obs
    BY DEF StreamInv, StreamEvent
<1> HIDE DEF new
<1>3. /\ grown \in Seq(StreamEvent) /\ Len(grown) = Len(stream) + 1
      /\ \A i \in 1..Len(stream) : grown[i] = stream[i]
      /\ grown[Len(stream) + 1] = new
    BY <1>2
<1>4. first \in 1..Len(grown)
    BY <1>2, <1>3, EnvelopeAssumption
<1> HIDE DEF grown, first
<1>5. /\ stream' \in Seq(StreamEvent) /\ Len(stream') = Len(grown) - first + 1
      /\ \A i \in 1..Len(stream') : stream'[i] = grown[first + i - 1]
    BY <1>1, <1>3, <1>4
<1>6. ASSUME NEW i \in 1..Len(grown)
      PROVE  grown[i].id \in Nat /\ grown[i].id + Len(grown) = streamCounter + 1 + i
    <2>1. CASE i \in 1..Len(stream)
        <3>1. stream[i] \in StreamEvent /\ grown[i] = stream[i]
            BY <1>2, <1>3, <2>1
        <3>2. stream[i].id \in Nat /\ stream[i].id + Len(stream) = streamCounter + i
            BY <2>1, <3>1 DEF StreamInv, StreamEvent
        <3>3. grown[i].id = stream[i].id
            BY <3>1, Zenon
        <3>4. Len(grown) = Len(stream) + 1 /\ i \in Nat
              /\ Len(stream) \in Nat /\ streamCounter \in Nat
            BY <1>2, <1>3, <2>1
        <3> QED
            BY <3>2, <3>3, <3>4
    <2>2. CASE i = Len(stream) + 1
        <3>1. grown[i].id = streamCounter + 1
            BY <1>2, <1>3, <2>2
        <3>2. Len(grown) = Len(stream) + 1 /\ i = Len(stream) + 1
              /\ Len(stream) \in Nat /\ streamCounter \in Nat
            BY <1>2, <1>3, <2>2
        <3> QED
            BY <3>1, <3>2
    <2> QED
        BY <1>2, <1>3, <2>1, <2>2
<1>7. \A i, j \in 1..Len(grown) : i # j => grown[i].obs # grown[j].obs
    BY <1>2, <1>3, SMTT(60) DEF StreamInv
<1>8. ASSUME NEW i \in 1..Len(stream')
      PROVE  first + i - 1 \in 1..Len(grown) /\ stream'[i] = grown[first + i - 1]
    BY <1>2, <1>3, <1>4, <1>5
<1>9. ASSUME NEW i \in 1..Len(stream')
      PROVE  stream'[i].id + Len(stream') = streamCounter' + i
    <2> DEFINE k == first + i - 1
    <2>1. k \in 1..Len(grown) /\ stream'[i] = grown[k]
        BY <1>8
    <2>2. grown[k].id \in Nat /\ grown[k].id + Len(grown) = streamCounter + 1 + k
        BY <1>6, <2>1
    <2>3. /\ Len(grown) \in Nat /\ first \in Nat /\ i \in Nat /\ streamCounter \in Nat
          /\ Len(stream') = Len(grown) - first + 1 /\ streamCounter' = streamCounter + 1
        BY <1>1, <1>2, <1>3, <1>4, <1>5
    <2>4. stream'[i].id \in Nat /\ stream'[i].id + Len(grown) = streamCounter + first + i
        BY <2>1, <2>2, <2>3
    <2> HIDE DEF k
    <2>5. stream'[i].id + (Len(grown) - first + 1) = streamCounter + 1 + i
        BY <2>3, <2>4
    <2> QED
        BY <2>3, <2>5, Zenon
<1>10. ASSUME NEW i \in 1..Len(stream'), NEW j \in 1..Len(stream'), i # j
       PROVE  stream'[i].obs # stream'[j].obs
    <2>1. first + i - 1 # first + j - 1
        BY <1>3, <1>4, <1>10, <1>2
    <2> QED
        BY <1>7, <1>8, <2>1, ZenonT(60)
<1>11. ASSUME NEW i \in 1..Len(stream')
       PROVE  \/ stream'[i].obs = obs
              \/ \E k \in 1..Len(stream) : stream'[i].obs = stream[k].obs
    <2> DEFINE k == first + i - 1
    <2>1. k \in 1..Len(grown) /\ stream'[i] = grown[k]
        BY <1>8
    <2> HIDE DEF k
    <2>2. CASE k \in 1..Len(stream)
        BY <1>3, <2>1, <2>2
    <2>3. CASE k = Len(stream) + 1
        BY <1>2, <1>3, <2>1, <2>3
    <2> QED
        BY <1>2, <1>3, <2>1, <2>2, <2>3
<1> QED
    <2>1. streamCounter' \in Nat
        BY <1>1, <1>2
    <2> QED
        BY <2>1, <1>5, <1>9, <1>10, <1>11, Zenon

\* The feed in every step.
LEMMA StreamStep ==
    ASSUME CallInv, TablesInv, StreamInv, GateInv, ChainInv, [Next]_vars
    PROVE  StreamInv'
<1>1. ASSUME UNCHANGED <<stream, streamCounter>>, events \subseteq events',
             call'.at = "announce" => call' = call
      PROVE  StreamInv'
    BY <1>1 DEF StreamInv
<1>2. ASSUME NEW env \in Envelope, NEW row \in Nat \cup {NULL}, Begins(env, row)
      PROVE  StreamInv'
    BY <1>1, <1>2 DEF Begins, Begun, Idle
<1>3. CASE TransactKnown \/ TransactSameContent \/ TransactThrow
    <2>1. /\ UNCHANGED <<stream, streamCounter>> /\ events \subseteq events'
          /\ \E ok : Return(call.env, call.row, ok)
        BY <1>3 DEF TransactKnown, TransactSameContent, TransactThrow, Succeed, memory, disk
    <2>2. call'.at # "announce"
        BY <2>1 DEF Return, Idle
    <2> QED
        BY <1>1, <2>1, <2>2
<1>4. CASE TransactInsert
    <2>1. /\ UNCHANGED <<stream, streamCounter>> /\ events \subseteq events'
          /\ call' = [call EXCEPT !.at = "announce"] /\ ~Known(call.env, call.id)
        BY <1>4 DEF TransactInsert, memory
    <2>2. call'.id = call.id
        BY <2>1 DEF CallInv, Calls
    <2>3. \A i \in 1..Len(stream) : stream[i].obs # call.id
        BY <2>1 DEF Known, StreamInv
    <2> QED
        BY <2>1, <2>2, <2>3 DEF StreamInv
<1>5. CASE Announce
    <2>1. /\ call.at = "announce" /\ AppendStreamEvent(call.id) /\ UNCHANGED events
          /\ Return(call.env, call.row, TRUE)
        BY <1>5 DEF Announce, Succeed, disk
    <2>2. call.id \in EventIds /\ \A i \in 1..Len(stream) : stream[i].obs # call.id
        BY <2>1 DEF CallInv, StreamInv
    <2>3. /\ streamCounter' \in Nat /\ stream' \in Seq(StreamEvent)
          /\ \A i \in 1..Len(stream') : stream'[i].id + Len(stream') = streamCounter' + i
          /\ \A i, j \in 1..Len(stream') : i # j => stream'[i].obs # stream'[j].obs
          /\ \A i \in 1..Len(stream') :
               \/ stream'[i].obs = call.id
               \/ \E k \in 1..Len(stream) : stream'[i].obs = stream[k].obs
        BY <2>1, <2>2, Appending
    <2>4. \A i \in 1..Len(stream') : \E v \in events : v.id = stream'[i].obs
        <3>1. \E v \in events : v.id = call.id
            BY <2>1 DEF TablesInv
        <3>2. \A k \in 1..Len(stream) : \E v \in events : v.id = stream[k].obs
            BY DEF StreamInv
        <3> QED
            BY <2>3, <3>1, <3>2
    <2>5. call'.at # "announce"
        BY <2>1 DEF Return, Idle
    <2> QED
        BY <2>1, <2>3, <2>4, <2>5, Zenon DEF StreamInv
<1>6. CASE RetrySettle \/ RetryAbort
    BY <1>1, <1>6 DEF RetrySettle, RetryAbort, Idle, memory, disk
<1>7. CASE Close \/ Crash
    <2>1. stream' = <<>> /\ streamCounter' = 0 /\ call' = Idle
        BY <1>7 DEF Close, Crash, Forget
    <2> QED
        BY <2>1 DEF StreamInv, Idle
<1>8. CASE \/ \E env \in Envelope : RecordEventQueued(env)
           \/ RetryTick \/ \E row \in 1 .. MaxRetryRows : BackoffEnds(row)
           \/ Shutdown \/ Boot \/ Archive \/ CreateTag \/ UNCHANGED vars
    BY <1>1, <1>8 DEF RecordEventQueued, RetryTick, BackoffEnds, Shutdown, Boot, Archive,
                      CreateTag, vars, memory, disk
<1> QED
    BY <1>2, <1>3, <1>4, <1>5, <1>6, <1>7, <1>8, Steps

\* The gate and its cache in every step.
LEMMA GateStep ==
    ASSUME CallInv, GateInv, ChainInv, [Next]_vars
    PROVE  GateInv'
<1>1. ASSUME NEW env \in Envelope, NEW row \in Nat \cup {NULL}, Begins(env, row)
      PROVE  GateInv'
    <2>1. /\ UNCHANGED <<gate, observations, tags>>
          /\ tagCache' \in [Tag -> BOOLEAN \cup {NULL}]
          /\ \A t \in Tag : tagCache'[t] = TRUE => t \in tags
          /\ Begun(env, row)
        BY <1>1 DEF Begins, config
    <2>2. call'.at = "transact" /\ gate = "block" =>
             /\ {o \in observations : call'.env.content # NULL
                                      /\ o.env.content = call'.env.content /\ ~o.archived} = {}
             /\ call'.env.tag \in tags \cup {NULL}
        BY <2>1 DEF Begun, Idle, Live
    <2> QED
        BY <2>1, <2>2 DEF GateInv, Live
<1>2. CASE \/ TransactKnown \/ TransactSameContent \/ TransactInsert \/ TransactThrow
           \/ Announce \/ RetrySettle \/ RetryAbort
    <2>1. /\ UNCHANGED <<tags, tagCache>> /\ call'.at # "transact"
        BY <1>2 DEF TransactKnown, TransactSameContent, TransactInsert, TransactThrow, Announce,
                    Succeed, Return, RetrySettle, RetryAbort, Idle, CallInv, Calls, memory
    <2> QED
        BY <2>1 DEF GateInv
<1>3. CASE Close \/ Crash
    <2>1. UNCHANGED tags /\ tagCache' = [t \in Tag |-> NULL] /\ call'.at # "transact"
        BY <1>3 DEF Close, Crash, Forget, Idle
    <2> QED
        BY <2>1, EnvelopeAssumption DEF GateInv
<1>4. CASE Boot \/ Archive
    <2>1. UNCHANGED <<tags, tagCache, call>> /\ call = Idle
        BY <1>4 DEF Boot, Archive, CallInv, memory
    <2> QED
        BY <2>1 DEF GateInv, Idle
<1>5. CASE CreateTag
    BY <1>5 DEF CreateTag, GateInv, Live, memory, config, disk
<1>6. CASE \/ \E env \in Envelope : RecordEventQueued(env)
           \/ RetryTick \/ \E row \in 1 .. MaxRetryRows : BackoffEnds(row)
           \/ Shutdown \/ UNCHANGED vars
    <2>1. UNCHANGED <<gate, call, observations, tags, tagCache>>
        BY <1>6 DEF RecordEventQueued, RetryTick, BackoffEnds, Shutdown, vars, memory, config,
                    disk
    <2> QED
        BY <2>1 DEF GateInv, Live
<1> QED
    BY <1>1, <1>2, <1>3, <1>4, <1>5, <1>6, Steps

\* The audit log in every step.
LEMMA ChainStep ==
    ASSUME CallInv, GateInv, ChainInv, [Next]_vars
    PROVE  ChainInv'
<1>1. ASSUME NEW env \in Envelope, NEW row \in Nat \cup {NULL}, Begins(env, row)
      PROVE  ChainInv'
    BY <1>1 DEF Begins, ChainInv
<1>2. CASE TransactInsert
    <2>1. audit' = AppendPlain(audit, "privacy_filter") \/ audit' = audit
        BY <1>2 DEF TransactInsert
    <2> QED
        BY <2>1, AuditVerifies DEF ChainInv
<1>3. CASE UNCHANGED audit
    BY <1>3 DEF ChainInv, Verifies
<1>4. CASE \/ \E env \in Envelope : RecordEventQueued(env)
           \/ TransactKnown \/ TransactSameContent \/ TransactThrow
           \/ Announce \/ RetryTick \/ RetrySettle \/ RetryAbort
           \/ \E row \in 1 .. MaxRetryRows : BackoffEnds(row)
           \/ Shutdown \/ Close \/ Crash \/ Boot \/ Archive \/ CreateTag
           \/ UNCHANGED vars
    BY <1>3, <1>4
       DEF RecordEventQueued, TransactKnown, TransactSameContent, TransactThrow, Announce,
           RetryTick, RetrySettle, RetryAbort, BackoffEnds, Shutdown, Close, Crash, Forget,
           Boot, Archive, CreateTag, vars, disk
<1> QED
    BY <1>1, <1>2, <1>4, Steps

------------------------------------------------------------------------------
(* What holds in every behaviour *)

IInv == CallInv /\ TablesInv /\ StreamInv /\ GateInv /\ ChainInv

LEMMA InitInv == Init => IInv
<1> SUFFICES ASSUME Init PROVE IInv
    OBVIOUS
<1>1. /\ status = "up" /\ gate \in Gates /\ capture \in Captures
      /\ writeQueue = <<>> /\ call = Idle /\ loop = {}
      /\ events = {} /\ observations = {} /\ vectors = {} /\ retry = {} /\ audit = <<>>
      /\ stream = <<>> /\ streamCounter = 0
      /\ tags = {} /\ tagCache = [t \in Tag |-> NULL]
      /\ acked = {}
    BY DEF Init
<1>2. CallInv
    <2>1. writeQueue \in Seq(Envelope) /\ Len(writeQueue) <= WriteQueueLimit
        BY <1>1, EnvelopeAssumption
    <2>2. call \in Calls
        BY <1>1 DEF Idle, Calls
    <2> QED
        BY <1>1, <2>1, <2>2 DEF CallInv, Idle
<1>3. TablesInv
    BY <1>1 DEF TablesInv, NoDuplicates, EventsHaveObservations, VectorsComplete, AckedStored,
                Idle
<1>4. StreamInv
    BY <1>1 DEF StreamInv, Idle
<1>5. GateInv
    BY <1>1, EnvelopeAssumption DEF GateInv, Idle
<1>6. ChainInv
    <2>1. \E S : audit \in Seq(S)
        BY <1>1
    <2>2. Mismatches(audit, 1) = {}
        BY <1>1 DEF Mismatches, ChainedRows
    <2> QED
        BY <2>1, <2>2 DEF ChainInv, Verifies
<1> QED
    BY <1>2, <1>3, <1>4, <1>5, <1>6 DEF IInv

LEMMA StepInv == IInv /\ [Next]_vars => IInv'
BY CallStep, TablesStep, StreamStep, GateStep, ChainStep, Zenon DEF IInv

\* What the inductive invariant says of the tables.
LEMMA InvSound == IInv => RecorderConsistent
<1> SUFFICES ASSUME IInv PROVE RecorderConsistent
    OBVIOUS
<1>1. TypeOK
    <2>1. /\ \A v \in events : DOMAIN v = {"id", "env", "obs"} /\ v.env \in Envelope
          /\ \A o \in observations : DOMAIN o = {"id", "env", "archived"} /\ o.archived \in BOOLEAN
        BY DEF IInv, TablesInv, EventRow, ObservationRow
    <2>2. \A r \in retry : DOMAIN r = {"row", "env", "due"} /\ r.row \in Nat
        BY EnvelopeAssumption DEF IInv, CallInv, RetryRow
    <2> QED
        BY <2>1, <2>2 DEF IInv, CallInv, TablesInv, GateInv, TypeOK, RetryRows
<1>2. AnnouncedOnce
    <2>1. DOMAIN stream = 1..Len(stream) /\ Len(stream) \in Nat /\ streamCounter \in Nat
        BY DEF IInv, StreamInv
    <2>2. \A i \in 1..Len(stream) :
             stream[i].id \in Nat /\ stream[i].id + Len(stream) = streamCounter + i
        <3>1. \A i \in 1..Len(stream) : stream[i] \in StreamEvent
            BY DEF IInv, StreamInv
        <3> QED
            BY <3>1 DEF IInv, StreamInv, StreamEvent
    <2>3. ASSUME NEW i \in DOMAIN stream, NEW j \in DOMAIN stream, i < j
          PROVE  stream[j].id = stream[i].id + (j - i) /\ stream[i].obs # stream[j].obs
        <3>1. stream[j].id = stream[i].id + (j - i)
            <4>1. i \in 1..Len(stream) /\ j \in 1..Len(stream) /\ i \in Nat /\ j \in Nat
                BY <2>1
            <4>2. /\ stream[i].id \in Nat /\ stream[i].id + Len(stream) = streamCounter + i
                  /\ stream[j].id \in Nat /\ stream[j].id + Len(stream) = streamCounter + j
                BY <2>2, <4>1
            <4> QED
                BY <2>1, <4>1, <4>2, SMTT(60)
        <3>2. stream[i].obs # stream[j].obs
            BY <2>1, <2>3 DEF IInv, StreamInv
        <3> QED
            BY <3>1, <3>2
    <2> QED
        BY <2>3 DEF AnnouncedOnce
<1>3. ChainIntact
    BY DEF IInv, ChainInv, Verifies, ChainIntact, BrokenAt
<1> QED
    BY <1>1, <1>2, <1>3 DEF IInv, TablesInv, RecorderConsistent

\* In every state, between any two commits and after any crash, recordEvent's
\* tables fit together: no event or live content twice, every event with its
\* observation, a vector unless a checkpoint went without, everything that was
\* acknowledged in the log, the feed announcing each observation once, the audit
\* chain verifying, the write queue within its limit.
THEOREM TablesAlwaysConsistent == Spec => []RecorderConsistent
BY InitInv, StepInv, InvSound, PTL DEF Spec

\* The retry loop deletes a row of mem_retry_queue only when its event is in
\* mem_events, or the process runs with capture off.
THEOREM RowsKeptUntilStored == Spec => QueuedUntilStored
<1>1. IInv /\ [Next]_vars =>
         [\A r \in retry : \/ r.row \in {s.row : s \in retry'}
                           \/ Stored(r.env)'
                           \/ ~capture]_vars
    <2> SUFFICES ASSUME IInv, [Next]_vars, NEW r \in retry
                 PROVE  \/ r.row \in {s.row : s \in retry'}
                        \/ Stored(r.env)'
                        \/ ~capture
        OBVIOUS
    <2>1. CASE retry \subseteq retry'
        BY <2>1
    <2>2. CASE RetrySettle
        <3>1. CASE call.ok /\ r.row = call.row
            <4>1. r.env = call.env
                BY <3>1 DEF IInv, CallInv
            <4>2. Stored(r.env) \/ ~capture
                BY <2>2, <3>1, <4>1 DEF RetrySettle, IInv, TablesInv
            <4>3. UNCHANGED events
                BY <2>2 DEF RetrySettle
            <4> QED
                BY <4>2, <4>3 DEF Stored
        <3>2. CASE call.ok /\ r.row # call.row
            BY <2>2, <3>2 DEF RetrySettle
        <3>3. CASE ~call.ok
            <4> DEFINE Later(q) == IF q.row = call.row THEN [q EXCEPT !.due = FALSE] ELSE q
            <4>1. retry' = {Later(q) : q \in retry}
                BY <2>2, <3>3 DEF RetrySettle
            <4>2. Later(r).row = r.row
                BY DEF IInv, CallInv, RetryRow
            <4> HIDE DEF Later
            <4> QED
                BY <4>1, <4>2
        <3> QED
            BY <3>1, <3>2, <3>3
    <2>3. ASSUME NEW row \in 1 .. MaxRetryRows, BackoffEnds(row)
          PROVE  r.row \in {s.row : s \in retry'}
        <3>1. PICK p \in retry : retry' = (retry \ {p}) \cup {[p EXCEPT !.due = TRUE]}
            BY <2>3 DEF BackoffEnds
        <3>2. [p EXCEPT !.due = TRUE].row = p.row
            BY DEF IInv, CallInv, RetryRow
        <3> QED
            BY <3>1, <3>2
    <2>4. ASSUME NEW env \in Envelope, NEW row \in Nat \cup {NULL}, Begins(env, row)
          PROVE  retry \subseteq retry'
        BY <2>4 DEF Begins
    <2>5. CASE \/ \E env \in Envelope : RecordEventQueued(env)
               \/ TransactKnown \/ TransactSameContent \/ TransactInsert \/ TransactThrow
               \/ Announce \/ RetryTick \/ RetryAbort
               \/ Shutdown \/ Close \/ Crash \/ Boot \/ Archive \/ CreateTag
               \/ UNCHANGED vars
        BY <2>1, <2>5
           DEF RecordEventQueued, TransactKnown, TransactSameContent, TransactInsert,
               TransactThrow, EnqueueRetry, Announce, RetryTick, RetryAbort, Shutdown, Close,
               Crash, Forget, Boot, Archive, CreateTag, vars, disk
    <2> QED
        BY <2>1, <2>2, <2>3, <2>4, <2>5, Steps DEF IInv
<1> QED
    BY <1>1, InitInv, StepInv, PTL DEF Spec, QueuedUntilStored

\* Whatever modes earlier processes ran in and whatever they queued or cached: in
\* block mode evaluateGate lets no event in that shares another one's observation
\* or names a closure tag git does not have.
THEOREM GateNeverLetsIn == Spec => GateHolds
<1>1. IInv /\ [Next]_vars =>
         [\A v \in events' \ events : gate = "block" =>
              /\ \A w \in events : w.obs # v.obs
              /\ v.env.tag \in tags \cup {NULL}]_vars
    <2> SUFFICES ASSUME IInv, [Next]_vars, NEW v \in events' \ events, gate = "block"
                 PROVE  (\A w \in events : w.obs # v.obs) /\ v.env.tag \in tags \cup {NULL}
        OBVIOUS
    <2>1. CASE TransactSameContent
        BY <2>1 DEF TransactSameContent, IInv, GateInv
    <2>2. CASE TransactInsert
        <3>1. call.at = "transact" /\ ~Known(call.env, call.id)
              /\ v = [id |-> call.id, env |-> call.env, obs |-> call.id]
            BY <2>2 DEF TransactInsert
        <3>2. v.env.tag \in tags \cup {NULL}
            BY <3>1 DEF IInv, GateInv
        <3>3. ASSUME NEW w \in events PROVE w.obs # v.obs
            <4>1. \E u \in events : u.id = w.obs
                BY DEF IInv, TablesInv, EventsHaveObservations
            <4>2. \A u \in events : u.id # v.obs
                BY <3>1 DEF Known
            <4> QED
                BY <4>1, <4>2
        <3> QED
            BY <3>2, <3>3
    <2>3. ASSUME NEW env \in Envelope, NEW row \in Nat \cup {NULL}, Begins(env, row)
          PROVE  UNCHANGED events
        BY <2>3 DEF Begins
    <2>4. CASE \/ \E env \in Envelope : RecordEventQueued(env)
               \/ TransactKnown \/ TransactThrow \/ Announce
               \/ RetryTick \/ RetrySettle \/ RetryAbort
               \/ \E row \in 1 .. MaxRetryRows : BackoffEnds(row)
               \/ Shutdown \/ Close \/ Crash \/ Boot \/ Archive \/ CreateTag
               \/ UNCHANGED vars
        <3>1. UNCHANGED events
            BY <2>4 DEF RecordEventQueued, TransactKnown, TransactThrow, Announce, RetryTick,
                        RetrySettle, RetryAbort, BackoffEnds, Shutdown, Close, Crash, Forget,
                        Boot, Archive, CreateTag, vars, disk
        <3> QED
            BY <3>1
    <2> QED
        BY <2>1, <2>2, <2>3, <2>4, Steps DEF IInv
<1> QED
    BY <1>1, InitInv, StepInv, PTL DEF Spec, GateHolds
==============================================================================
