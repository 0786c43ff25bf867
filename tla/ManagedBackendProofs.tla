------------------------- MODULE ManagedBackendProofs -------------------------
(***************************************************************************)
(* Proofs about ManagedBackend: what the replication queue keeps, in which *)
(* order and within which bound, and that the counters account for every   *)
(* write, for every size of the queue and of the batches and any number of *)
(* events, failures, reads and processes.                                  *)
(***************************************************************************)
EXTENDS ManagedBackend, SequenceTheorems, FiniteSetTheorems, TLAPS

Sorted(s) == \A i, j \in DOMAIN s : i < j => s[i] < s[j]

Flushes == [at : {"idle", "append", "project"}, batch : Seq(Event)]

\* The last event that was handed to replicateEvent.
Handed == IF pending THEN local - 1 ELSE local

\* The line of a queue q, a flush f and the events d pushed out of the queue, all
\* of them handed over up to event `top`: in order, the batch before the queue,
\* and while a batch is appended the queue is within its maximum, so that the
\* batch may come back.
Line(q, f, d, top) ==
    /\ q \in Seq(Event) /\ f \in Flushes /\ d \subseteq 1..top
    /\ Elements(q) \subseteq 1..top /\ Elements(f.batch) \subseteq 1..top
    /\ Sorted(q) /\ Sorted(f.batch)
    /\ Len(q) <= MaxQueue + BatchSize /\ Len(f.batch) <= BatchSize
    /\ f.at = "idle" <=> f.batch = <<>>
    /\ d \cap Elements(q) = {}
    /\ f.at = "append" =>
         /\ \A x \in Elements(f.batch), y \in Elements(q) : x < y
         /\ Len(q) <= MaxQueue
         /\ d \cap Elements(f.batch) = {}

\* How many events wait to be appended.
Waiting(q, f) == Len(q) + (IF f.at = "append" THEN Len(f.batch) ELSE 0)

TypeInv ==
    /\ up \in BOOLEAN /\ store \in BOOLEAN /\ reading \in BOOLEAN /\ pending \in BOOLEAN
    /\ conn \in {"connecting", "connected", "degraded", "disconnected"}
    /\ local \in 0..MaxEvents /\ (pending => local > 0)
    /\ metrics \in Metrics /\ phase \in Phases /\ exits \in Nat
    /\ pgEvents \subseteq Event /\ pgObs \subseteq Event
    /\ lost \subseteq Event

\* What the steps keep besides the types: the line, the books, the batch that is
\* projected is in PostgreSQL, and every event is somewhere.
Kept ==
    /\ Line(queue, flush, dropped, Handed)
    /\ IsFiniteSet(dropped)
    /\ metrics.writes = metrics.replicated + Waiting(queue, flush) + Cardinality(dropped)
    /\ flush.at = "project" => Elements(flush.batch) \subseteq pgEvents
    /\ NothingForgotten

\* The invariant that the properties of the replication rest on.
IInv == TypeInv /\ Kept

------------------------------------------------------------------------------
(* What the operations on queues do to sorted sequences of events. *)

\* Events are numbered from 1 on in the order the recorder commits them; the
\* limits are positive.
LEMMA EventsAreNumbers == Event \subseteq Nat \ {0} /\ MaxQueue \in Nat \ {0}
                          /\ BatchSize \in Nat \ {0} /\ MaxEvents \in Nat
BY BackendAssumption DEF Event

\* enqueue() at the back of the queue, of an event newer than all that wait.
LEMMA AppendSorted ==
    ASSUME NEW s \in Seq(Event), NEW e \in Event, Sorted(s), \A x \in Elements(s) : x < e
    PROVE  /\ Append(s, e) \in Seq(Event) /\ Len(Append(s, e)) = Len(s) + 1
           /\ Sorted(Append(s, e))
           /\ Elements(Append(s, e)) = Elements(s) \cup {e}
<1> DEFINE r == Append(s, e)
<1>1. /\ r \in Seq(Event) /\ Len(s) \in Nat /\ Len(r) = Len(s) + 1
      /\ DOMAIN s = 1..Len(s) /\ DOMAIN r = 1..Len(s) + 1
      /\ \A i \in 1..Len(s) : r[i] = s[i]
      /\ r[Len(s) + 1] = e
    OBVIOUS
<1> HIDE DEF r
<1>2. Elements(r) = Elements(s) \cup {e}
    BY <1>1 DEF Elements
<1>3. \A i \in 1..Len(s) : s[i] < e
    BY <1>1 DEF Elements
<1>4. Sorted(r)
    <2> SUFFICES ASSUME NEW i \in 1..Len(s) + 1, NEW j \in 1..Len(s) + 1, i < j
                 PROVE  r[i] < r[j]
        BY <1>1 DEF Sorted
    <2>1. i \in 1..Len(s) /\ r[i] = s[i]
        BY <1>1
    <2>2. CASE j = Len(s) + 1
        BY <1>1, <1>3, <2>1, <2>2
    <2>3. CASE j \in 1..Len(s)
        BY <1>1, <2>1, <2>3 DEF Sorted
    <2> QED
        BY <1>1, <2>2, <2>3
<1> QED
    BY <1>1, <1>2, <1>4 DEF r

\* replicationQueue.shift() of a full queue takes the oldest event out.
LEMMA TailSorted ==
    ASSUME NEW s \in Seq(Event), Sorted(s), s # <<>>
    PROVE  /\ Tail(s) \in Seq(Event) /\ Len(Tail(s)) = Len(s) - 1
           /\ Sorted(Tail(s))
           /\ Head(s) \in Elements(s)
           /\ Elements(Tail(s)) = Elements(s) \ {Head(s)}
<1> DEFINE t == Tail(s)
<1>1. /\ t \in Seq(Event) /\ Len(s) \in Nat \ {0} /\ Len(t) = Len(s) - 1
      /\ DOMAIN s = 1..Len(s) /\ DOMAIN t = 1..Len(s) - 1
      /\ \A i \in 1..Len(s) - 1 : t[i] = s[i + 1]
      /\ Head(s) = s[1]
    OBVIOUS
<1>2. \A i \in 1..Len(s) : s[i] \in Nat
    <2>1. \A i \in 1..Len(s) : s[i] \in Event
        OBVIOUS
    <2> QED
        BY <2>1, EventsAreNumbers
<1> HIDE DEF t
<1>3. Sorted(t)
    <2> SUFFICES ASSUME NEW i \in 1..Len(s) - 1, NEW j \in 1..Len(s) - 1, i < j
                 PROVE  t[i] < t[j]
        BY <1>1 DEF Sorted
    <2>1. i + 1 \in 1..Len(s) /\ j + 1 \in 1..Len(s) /\ i + 1 < j + 1
        BY <1>1
    <2> QED
        BY <1>1, <2>1 DEF Sorted
<1>4. Head(s) \in Elements(s)
    BY <1>1 DEF Elements
<1>5. \A i \in 2..Len(s) : s[1] < s[i]
    BY <1>1 DEF Sorted
<1>6. \A x \in Elements(t) : x \in Elements(s) /\ x # s[1]
    <2> SUFFICES ASSUME NEW i \in 1..Len(s) - 1
                 PROVE  t[i] \in Elements(s) /\ t[i] # s[1]
        BY <1>1 DEF Elements
    <2>1. t[i] = s[i + 1] /\ i + 1 \in 2..Len(s)
        BY <1>1
    <2> QED
        BY <1>1, <1>2, <1>5, <2>1 DEF Elements
<1>7. ASSUME NEW x \in Elements(s), x # s[1] PROVE x \in Elements(t)
    <2>1. PICK i \in 1..Len(s) : x = s[i]
        BY <1>1 DEF Elements
    <2>2. i - 1 \in 1..Len(s) - 1 /\ t[i - 1] = s[i]
        BY <1>1, <1>7, <2>1
    <2> QED
        BY <1>1, <2>1, <2>2 DEF Elements
<1>8. Elements(t) = Elements(s) \ {Head(s)}
    BY <1>1, <1>6, <1>7
<1> QED
    BY <1>1, <1>3, <1>4, <1>8 DEF t

\* replicationQueue.unshift(...batch) after a failed append.
LEMMA ConcatSorted ==
    ASSUME NEW b \in Seq(Event), NEW s \in Seq(Event), Sorted(b), Sorted(s),
           \A x \in Elements(b), y \in Elements(s) : x < y
    PROVE  /\ b \o s \in Seq(Event) /\ Len(b \o s) = Len(b) + Len(s)
           /\ Sorted(b \o s)
           /\ Elements(b \o s) = Elements(b) \cup Elements(s)
<1> DEFINE r == b \o s
<1>1. /\ r \in Seq(Event) /\ Len(b) \in Nat /\ Len(s) \in Nat /\ Len(r) = Len(b) + Len(s)
      /\ DOMAIN b = 1..Len(b) /\ DOMAIN s = 1..Len(s) /\ DOMAIN r = 1..Len(b) + Len(s)
      /\ \A i \in 1..Len(b) : r[i] = b[i]
      /\ \A i \in Len(b) + 1..Len(b) + Len(s) : r[i] = s[i - Len(b)]
    OBVIOUS
<1> HIDE DEF r
<1>2. \A i \in 1..Len(s) : Len(b) + i \in Len(b) + 1..Len(b) + Len(s) /\ r[Len(b) + i] = s[i]
    <2> SUFFICES ASSUME NEW i \in 1..Len(s)
                 PROVE  Len(b) + i \in Len(b) + 1..Len(b) + Len(s) /\ r[Len(b) + i] = s[i]
        OBVIOUS
    <2>1. Len(b) + i \in Len(b) + 1..Len(b) + Len(s) /\ (Len(b) + i) - Len(b) = i
        BY <1>1
    <2> QED
        BY <1>1, <2>1
<1>3. Elements(r) = Elements(b) \cup Elements(s)
    <2>1. \A x \in Elements(r) : x \in Elements(b) \cup Elements(s)
        <3> SUFFICES ASSUME NEW i \in 1..Len(b) + Len(s)
                     PROVE  r[i] \in Elements(b) \cup Elements(s)
            BY <1>1 DEF Elements
        <3>1. CASE i <= Len(b)
            BY <1>1, <3>1, SMTT(60) DEF Elements
        <3>2. CASE i > Len(b)
            <4>1. i - Len(b) \in 1..Len(s) /\ r[i] = s[i - Len(b)]
                BY <1>1, <3>2
            <4> QED
                BY <1>1, <4>1 DEF Elements
        <3> QED
            BY <1>1, <3>1, <3>2
    <2>2. \A x \in Elements(b) : x \in Elements(r)
        BY <1>1 DEF Elements
    <2>3. \A x \in Elements(s) : x \in Elements(r)
        <3> SUFFICES ASSUME NEW i \in 1..Len(s) PROVE s[i] \in Elements(r)
            BY <1>1 DEF Elements
        <3>1. Len(b) + i \in 1..Len(b) + Len(s) /\ r[Len(b) + i] = s[i]
            BY <1>1, <1>2
        <3> QED
            BY <1>1, <3>1 DEF Elements
    <2> QED
        BY <2>1, <2>2, <2>3
<1>4. Sorted(r)
    <2> SUFFICES ASSUME NEW i \in 1..Len(b) + Len(s), NEW j \in 1..Len(b) + Len(s), i < j
                 PROVE  r[i] < r[j]
        BY <1>1 DEF Sorted
    <2>1. CASE j <= Len(b)
        <3>1. i \in 1..Len(b) /\ j \in 1..Len(b)
            BY <1>1, <2>1
        <3> QED
            BY <1>1, <3>1 DEF Sorted
    <2>2. CASE i > Len(b)
        <3>1. /\ i - Len(b) \in 1..Len(s) /\ j - Len(b) \in 1..Len(s)
              /\ i - Len(b) < j - Len(b)
              /\ r[i] = s[i - Len(b)] /\ r[j] = s[j - Len(b)]
            BY <1>1, <2>2
        <3> QED
            BY <1>1, <3>1 DEF Sorted
    <2>3. CASE i <= Len(b) /\ j > Len(b)
        <3>1. i \in 1..Len(b) /\ j - Len(b) \in 1..Len(s)
              /\ r[i] = b[i] /\ r[j] = s[j - Len(b)]
            BY <1>1, <2>3
        <3>2. r[i] \in Elements(b) /\ r[j] \in Elements(s)
            BY <1>1, <3>1 DEF Elements
        <3> QED
            BY <3>2
    <2> QED
        BY <1>1, <2>1, <2>2, <2>3
<1> QED
    BY <1>1, <1>3, <1>4 DEF r

\* splice: the front of the queue and what stays.
LEMMA SplitSorted ==
    ASSUME NEW s \in Seq(Event), Sorted(s), s # <<>>
    PROVE  /\ Taken(s) \in Seq(Event) /\ Left(s) \in Seq(Event)
           /\ Taken(s) # <<>> /\ Len(Taken(s)) <= BatchSize
           /\ Len(Taken(s)) + Len(Left(s)) = Len(s)
           /\ Len(Left(s)) > 0 => Len(Taken(s)) = BatchSize
           /\ Sorted(Taken(s)) /\ Sorted(Left(s))
           /\ Elements(Taken(s)) \cup Elements(Left(s)) = Elements(s)
           /\ \A x \in Elements(Taken(s)), y \in Elements(Left(s)) : x < y
<1> DEFINE k == IF Len(s) < BatchSize THEN Len(s) ELSE BatchSize
           t == Taken(s)
           l == Left(s)
<1>1. /\ Len(s) \in Nat \ {0} /\ DOMAIN s = 1..Len(s)
      /\ k \in Nat \ {0} /\ k <= Len(s) /\ k <= BatchSize /\ (k < Len(s) => k = BatchSize)
    BY EventsAreNumbers
<1> HIDE DEF k
<1>2. t = SubSeq(s, 1, k)
    BY DEF Taken, k
<1>3. /\ t \in Seq(Event) /\ Len(t) = k /\ DOMAIN t = 1..k
      /\ \A i \in 1..k : t[i] = s[i]
    BY <1>1, <1>2
<1>4. l = SubSeq(s, k + 1, Len(s))
    BY <1>3 DEF Left
<1>5. /\ l \in Seq(Event) /\ Len(l) = Len(s) - k /\ DOMAIN l = 1..Len(s) - k
      /\ \A i \in 1..Len(s) - k : l[i] = s[k + i]
    <2>1. k + 1 \in Int /\ Len(s) \in Int /\ \A i \in k + 1..Len(s) : s[i] \in Event
        BY <1>1
    <2>2. /\ SubSeq(s, k + 1, Len(s)) \in Seq(Event)
          /\ Len(SubSeq(s, k + 1, Len(s))) = IF k + 1 <= Len(s) THEN Len(s) - (k + 1) + 1 ELSE 0
          /\ \A i \in 1..Len(s) - (k + 1) + 1 : SubSeq(s, k + 1, Len(s))[i] = s[(k + 1) + i - 1]
        BY <2>1, SubSeqProperties
    <2> HIDE DEF t, l
    <2>3. /\ l \in Seq(Event)
          /\ Len(l) = IF k + 1 <= Len(s) THEN Len(s) - (k + 1) + 1 ELSE 0
          /\ \A i \in 1..Len(s) - (k + 1) + 1 : l[i] = s[(k + 1) + i - 1]
        BY <1>4, <2>2, Zenon
    <2>4. Len(s) - (k + 1) + 1 = Len(s) - k /\ Len(l) = Len(s) - k
        <3>1. CASE k + 1 <= Len(s)
            <4>1. Len(l) = Len(s) - (k + 1) + 1
                BY <2>3, <3>1, Zenon
            <4> QED
                BY <1>1, <4>1
        <3>2. CASE ~(k + 1 <= Len(s))
            <4>1. Len(l) = 0
                BY <2>3, <3>2, Zenon
            <4>2. k = Len(s)
                <5>1. k \in Nat /\ Len(s) \in Nat /\ k <= Len(s)
                    BY <1>1
                <5>2. k >= Len(s)
                    BY <3>2, <5>1
                <5> QED
                    BY <5>1, <5>2
            <4>3. Len(s) - k = 0 /\ Len(s) - (k + 1) + 1 = 0
                BY <1>1, <4>2
            <4> QED
                BY <4>1, <4>3
        <3> QED
            BY <3>1, <3>2
    <2>5. ASSUME NEW i \in 1..Len(s) - k PROVE l[i] = s[k + i]
        <3>1. i \in 1..Len(s) - (k + 1) + 1 /\ (k + 1) + i - 1 = k + i
            BY <1>1
        <3> QED
            BY <2>3, <3>1
    <2>6. DOMAIN l = 1..Len(s) - k
        <3>1. DOMAIN l = 1..Len(l)
            BY <2>3, LenProperties
        <3> QED
            BY <2>4, <3>1, Zenon
    <2> QED
        BY <2>3, <2>4, <2>5, <2>6, Zenon
<1> HIDE DEF t, l
<1>6. Sorted(t)
    BY <1>1, <1>3 DEF Sorted
<1>7. Sorted(l)
    <2> SUFFICES ASSUME NEW i \in 1..Len(s) - k, NEW j \in 1..Len(s) - k, i < j
                 PROVE  l[i] < l[j]
        BY <1>5 DEF Sorted
    <2>1. k + i \in 1..Len(s) /\ k + j \in 1..Len(s) /\ k + i < k + j
        BY <1>1
    <2> QED
        BY <1>1, <1>5, <2>1 DEF Sorted
<1>8. \A x \in Elements(t), y \in Elements(l) : x < y
    <2> SUFFICES ASSUME NEW i \in 1..k, NEW j \in 1..Len(s) - k
                 PROVE  t[i] < l[j]
        BY <1>3, <1>5 DEF Elements
    <2>1. i \in 1..Len(s) /\ k + j \in 1..Len(s) /\ i < k + j
        BY <1>1
    <2> QED
        BY <1>1, <1>3, <1>5, <2>1 DEF Sorted
<1>9. Elements(t) \cup Elements(l) = Elements(s)
    <2>1. \A x \in Elements(t) : x \in Elements(s)
        BY <1>1, <1>3 DEF Elements
    <2>2. \A x \in Elements(l) : x \in Elements(s)
        <3> SUFFICES ASSUME NEW i \in 1..Len(s) - k PROVE l[i] \in Elements(s)
            BY <1>5 DEF Elements
        <3>1. k + i \in 1..Len(s) /\ l[i] = s[k + i]
            BY <1>1, <1>5
        <3> QED
            BY <1>1, <3>1 DEF Elements
    <2>3. \A x \in Elements(s) : x \in Elements(t) \cup Elements(l)
        <3> SUFFICES ASSUME NEW i \in 1..Len(s) PROVE s[i] \in Elements(t) \cup Elements(l)
            BY <1>1 DEF Elements
        <3>1. CASE i <= k
            BY <1>1, <1>3, <3>1 DEF Elements
        <3>2. CASE i > k
            <4>1. i - k \in 1..Len(s) - k /\ k + (i - k) = i
                BY <1>1, <3>2
            <4>2. l[i - k] = s[i]
                BY <1>5, <4>1
            <4> QED
                BY <1>5, <4>1, <4>2 DEF Elements
        <3> QED
            BY <1>1, <3>1, <3>2
    <2> QED
        BY <2>1, <2>2, <2>3
<1>10. t # <<>>
    BY <1>1, <1>3
<1> QED
    BY <1>1, <1>3, <1>5, <1>6, <1>7, <1>8, <1>9, <1>10 DEF t, l

\* enqueueForRetry: the new event is last, and a full queue loses its first.
LEMMA Enqueued ==
    ASSUME NEW q \in Seq(Event), NEW e \in Event, Sorted(q), \A x \in Elements(q) : x < e
    PROVE  LET r == EnqueueForRetry(q, e)
               gone == Elements(q) \ Elements(r)
           IN  /\ r \in Seq(Event) /\ Sorted(r) /\ r # <<>>
               /\ Elements(r) \subseteq Elements(q) \cup {e} /\ e \in Elements(r)
               /\ \/ /\ Len(q) < MaxQueue /\ Len(r) = Len(q) + 1
                     /\ gone = {}
                  \/ /\ Len(q) >= MaxQueue /\ Len(r) = Len(q)
                     /\ \E h \in Elements(q) : gone = {h}
<1> DEFINE r == EnqueueForRetry(q, e)
<1>1. Len(q) \in Nat /\ MaxQueue \in Nat \ {0} /\ Elements(q) \subseteq Event
      /\ Event \subseteq Nat
    <2>1. Elements(q) \subseteq Event
        BY DEF Elements
    <2> QED
        BY <2>1, EventsAreNumbers
<1>2. e \notin Elements(q)
    BY <1>1
<1>3. CASE Len(q) < MaxQueue
    <2>1. r = Append(q, e)
        BY <1>1, <1>3 DEF EnqueueForRetry
    <2>2. r \in Seq(Event) /\ Len(r) = Len(q) + 1 /\ Sorted(r) /\ Elements(r) = Elements(q) \cup {e}
        BY <2>1, AppendSorted
    <2>3. r # <<>>
        BY <1>1, <2>2
    <2> QED
        BY <1>3, <2>2, <2>3
<1>4. CASE Len(q) >= MaxQueue
    <2> DEFINE t == Tail(q)
    <2>1. r = Append(t, e)
        BY <1>4 DEF EnqueueForRetry
    <2>2. q # <<>>
        BY <1>1, <1>4
    <2>3. /\ t \in Seq(Event) /\ Len(t) = Len(q) - 1 /\ Sorted(t)
          /\ Head(q) \in Elements(q) /\ Elements(t) = Elements(q) \ {Head(q)}
        BY <2>2, TailSorted
    <2> HIDE DEF t
    <2>4. \A x \in Elements(t) : x < e
        BY <2>3
    <2>5. r \in Seq(Event) /\ Len(r) = Len(t) + 1 /\ Sorted(r) /\ Elements(r) = Elements(t) \cup {e}
        BY <2>1, <2>3, <2>4, AppendSorted
    <2> HIDE DEF r
    <2>6. Len(r) = Len(q) /\ r # <<>>
        BY <1>1, <1>4, <2>3, <2>5
    <2>7. Elements(q) \ Elements(r) = {Head(q)}
        BY <1>2, <2>3, <2>5
    <2> QED
        BY <1>4, <2>3, <2>5, <2>6, <2>7 DEF r
<1> QED
    BY <1>1, <1>3, <1>4

------------------------------------------------------------------------------
(* What the steps do to the line. *)

\* The types that the line carries.
LEMMA LineTypes ==
    ASSUME NEW q, NEW f, NEW d, NEW top, Line(q, f, d, top)
    PROVE  /\ q \in Seq(Event) /\ f.batch \in Seq(Event)
           /\ f.at \in {"idle", "append", "project"}
           /\ Len(q) \in Nat /\ Len(f.batch) \in Nat
BY DEF Line, Flushes

\* flushReplicationQueue up to its first await moves the front of the queue into
\* the batch, or does nothing.
LEMMA FlushStarts ==
    ASSUME NEW q, NEW d, NEW top, Line(q, flush, d, top), StartFlush(q)
    PROVE  /\ Line(queue', flush', d, top)
           /\ Waiting(queue', flush') = Waiting(q, flush)
           /\ Elements(queue') \cup Elements(flush'.batch) = Elements(q) \cup Elements(flush.batch)
           /\ flush'.at = "project" => flush' = flush
<1>1. CASE ~Takes(q)
    <2>1. queue' = q /\ flush' = flush
        BY <1>1 DEF StartFlush
    <2> QED
        BY <2>1
<1>2. CASE Takes(q)
    <2>1. /\ queue' = Left(q) /\ flush' = [at |-> "append", batch |-> Taken(q)]
          /\ q # <<>> /\ flush.at = "idle"
        BY <1>2 DEF StartFlush, Takes
    <2>2. /\ q \in Seq(Event) /\ Sorted(q) /\ Len(q) \in Nat /\ flush.batch = <<>>
          /\ Len(q) <= MaxQueue + BatchSize /\ d \subseteq 1..top
          /\ Elements(q) \subseteq 1..top /\ d \cap Elements(q) = {}
        BY <2>1 DEF Line
    <2>3. /\ Taken(q) \in Seq(Event) /\ Left(q) \in Seq(Event)
          /\ Taken(q) # <<>> /\ Len(Taken(q)) <= BatchSize
          /\ Len(Taken(q)) + Len(Left(q)) = Len(q)
          /\ Len(Left(q)) > 0 => Len(Taken(q)) = BatchSize
          /\ Sorted(Taken(q)) /\ Sorted(Left(q))
          /\ Elements(Taken(q)) \cup Elements(Left(q)) = Elements(q)
          /\ \A x \in Elements(Taken(q)), y \in Elements(Left(q)) : x < y
        BY <2>1, <2>2, SplitSorted
    <2>4. /\ Len(Taken(q)) \in Nat /\ Len(Left(q)) \in Nat
          /\ Len(Left(q)) <= MaxQueue /\ Len(Left(q)) <= MaxQueue + BatchSize
        BY <2>2, <2>3, EventsAreNumbers
    <2>5. /\ flush' \in Flushes /\ flush'.at = "append" /\ flush'.batch = Taken(q)
        BY <2>1, <2>3 DEF Flushes
    <2>6. Line(queue', flush', d, top)
        BY <2>1, <2>2, <2>3, <2>4, <2>5 DEF Line
    <2>7. Elements(flush.batch) = {}
        BY <2>2 DEF Elements
    <2>8. Waiting(queue', flush') = Waiting(q, flush)
        BY <2>1, <2>2, <2>3, <2>4, <2>5 DEF Waiting
    <2> QED
        BY <2>1, <2>3, <2>5, <2>6, <2>7, <2>8
<1> QED
    BY <1>1, <1>2

\* What the counters do: each of them counts one thing.
LEMMA Counting ==
    ASSUME NEW m \in Metrics, NEW n \in Nat
    PROVE  /\ RecordPrimaryWrite(m) \in Metrics
           /\ RecordPrimaryWrite(m).writes = m.writes + 1
           /\ RecordPrimaryWrite(m).replicated = m.replicated
           /\ RecordReplication(m, TRUE, n) \in Metrics
           /\ RecordReplication(m, TRUE, n).writes = m.writes
           /\ RecordReplication(m, TRUE, n).replicated = m.replicated + n
           /\ RecordReplication(m, FALSE, n) \in Metrics
           /\ RecordReplication(m, FALSE, n).writes = m.writes
           /\ RecordReplication(m, FALSE, n).replicated = m.replicated
BY DEF Metrics, RecordPrimaryWrite, RecordReplication

\* Counting a shadow read leaves the counters of writes alone.
LEMMA CountingReads ==
    ASSUME NEW m \in Metrics, NEW matched
    PROVE  /\ RecordShadowRead(m, matched) \in Metrics
           /\ RecordShadowRead(m, matched).writes = m.writes
           /\ RecordShadowRead(m, matched).replicated = m.replicated
<1> DEFINE n == IF matched THEN m.matches + 1 ELSE m.matches
<1>1. n \in Nat
    BY DEF Metrics
<1>2. RecordShadowRead(m, matched) = [m EXCEPT !.reads = m.reads + 1, !.matches = n]
    BY DEF RecordShadowRead
<1> HIDE DEF n
<1>3. m.reads + 1 \in Nat
    BY DEF Metrics
<1> DEFINE r == m.reads + 1
<1> HIDE DEF r
<1>4. [m EXCEPT !.reads = r, !.matches = n] \in Metrics
      /\ [m EXCEPT !.reads = r, !.matches = n].writes = m.writes
      /\ [m EXCEPT !.reads = r, !.matches = n].replicated = m.replicated
    BY <1>1, <1>3 DEF Metrics, r
<1> QED
    BY <1>2, <1>4 DEF r

\* Every step of the backend keeps the types.
LEMMA TypeStep ==
    ASSUME TypeInv, Line(queue, flush, dropped, Handed), [Next]_vars
    PROVE  TypeInv'
<1> USE DEF TypeInv
<1>1. Elements(queue) \subseteq Event /\ Elements(flush.batch) \subseteq Event
      /\ dropped \subseteq Event /\ Len(flush.batch) \in Nat
      /\ (pending => local \in Event)
    <2>1. /\ queue \in Seq(Event) /\ flush.batch \in Seq(Event) /\ Len(flush.batch) \in Nat
          /\ dropped \subseteq 1..Handed
        BY LineTypes DEF Line
    <2>2. Elements(queue) \subseteq Event /\ Elements(flush.batch) \subseteq Event
        BY <2>1 DEF Elements
    <2>3. /\ MaxEvents \in Nat /\ local \in Nat /\ local <= MaxEvents
          /\ Handed \in Int /\ Handed <= local
        BY EventsAreNumbers DEF Handed
    <2>4. dropped \subseteq Event
        BY <2>1, <2>3 DEF Event
    <2>5. pending => local \in Event
        BY <2>3 DEF Event
    <2> QED
        BY <2>1, <2>2, <2>4, <2>5
<1>2. CASE Initialize
    BY <1>2 DEF Initialize, AdvancePhase, Phases, postgres, history
<1>3. CASE RecordLocal
    BY <1>3, EventsAreNumbers DEF RecordLocal, postgres, history
<1>4. CASE ReplicateEvent
    <2>1. /\ up' = up /\ conn' = conn /\ store' = store /\ reading' = reading
          /\ phase' = phase /\ local' = local /\ pgEvents' = pgEvents /\ pgObs' = pgObs
          /\ exits' = exits /\ lost' = lost /\ pending' = FALSE
          /\ \/ metrics' = RecordPrimaryWrite(metrics)
             \/ metrics' = RecordReplication(RecordPrimaryWrite(metrics), FALSE, 1)
        BY <1>4 DEF ReplicateEvent, postgres
    <2>2. metrics' \in Metrics
        <3>1. RecordPrimaryWrite(metrics) \in Metrics
            BY Counting
        <3>2. RecordReplication(RecordPrimaryWrite(metrics), FALSE, 1) \in Metrics
            BY <3>1, Counting
        <3> QED
            BY <2>1, <3>1, <3>2
    <2> QED
        BY <2>1, <2>2
<1>5. CASE FlushTimer
    BY <1>5 DEF FlushTimer, postgres, history
<1>6. CASE AppendDone
    BY <1>1, <1>6, Counting DEF AppendDone, history
<1>7. CASE AppendFailed
    BY <1>1, <1>7, Counting DEF AppendFailed, history
<1>8. CASE ProjectDone
    BY <1>1, <1>8 DEF ProjectDone, history
<1>9. CASE ShadowRead
    BY <1>9 DEF ShadowRead, postgres, history
<1>10. CASE ShadowReadDone
    BY <1>10, CountingReads DEF ShadowReadDone, postgres, history
<1>11. CASE AttemptPromotion
    BY <1>11 DEF AttemptPromotion, AdvancePhase, Phases, postgres, history
<1>12. CASE Rollback
    BY <1>12 DEF Rollback, Phases, postgres, history
<1>13. CASE Exit
    <2>1. Unsent \subseteq Event
        BY <1>1 DEF Unsent
    <2>2. NoMetrics \in Metrics /\ FirstPhase \in Phases
        BY DEF NoMetrics, Metrics, FirstPhase, Phases
    <2>3. pgEvents' \subseteq Event
        BY <1>1, <1>13 DEF Exit
    <2>4. pgObs' \subseteq Event
        BY <1>1, <1>13 DEF Exit
    <2>5. lost' \subseteq Event
        BY <1>1, <1>13, <2>1 DEF Exit
    <2>6. /\ up' = FALSE /\ conn' = "disconnected" /\ store' = FALSE /\ pending' = FALSE
          /\ reading' = FALSE /\ metrics' = NoMetrics /\ phase' = FirstPhase
          /\ exits' = exits + 1 /\ local' = local
        BY <1>13 DEF Exit
    <2>7. /\ up' \in BOOLEAN /\ store' \in BOOLEAN /\ reading' \in BOOLEAN
          /\ pending' \in BOOLEAN /\ ~pending'
          /\ conn' \in {"connecting", "connected", "degraded", "disconnected"}
        BY <2>6
    <2>8. local' \in 0..MaxEvents /\ exits' \in Nat
        BY <2>6
    <2>9. metrics' \in Metrics /\ phase' \in Phases
        BY <2>2, <2>6
    <2> QED
        BY <2>3, <2>4, <2>5, <2>7, <2>8, <2>9
<1>14. CASE Boot
    BY <1>14 DEF Boot, postgres, history
<1>15. CASE UNCHANGED vars
    BY <1>15 DEF vars, process, postgres, history
<1> QED
    BY <1>2, <1>3, <1>4, <1>5, <1>6, <1>7, <1>8, <1>9, <1>10, <1>11, <1>12, <1>13, <1>14, <1>15
       DEF Next, Shutdown, Crash

\* A step that leaves the line and PostgreSQL's events alone; it may commit an
\* event that is still to be handed over.
LEMMA QuietStep ==
    ASSUME IInv, UNCHANGED <<queue, flush, dropped, lost, pgEvents>>, Handed' = Handed,
           metrics'.writes = metrics.writes, metrics'.replicated = metrics.replicated,
           \/ local' = local /\ pending' = pending
           \/ local' = local + 1 /\ pending' = TRUE /\ pending = FALSE
    PROVE  Kept'
<1>1. Line(queue, flush, dropped, Handed)' /\ Waiting(queue, flush)' = Waiting(queue, flush)
    <2>1. Line(queue', flush', dropped', Handed') /\ Waiting(queue', flush') = Waiting(queue, flush)
        BY Zenon DEF IInv, Kept
    <2> QED
        BY <2>1 DEF Line, Waiting, Sorted, Elements
<1>2. NothingForgotten'
    <2>1. NothingForgotten /\ local \in Nat
        BY DEF IInv, Kept, TypeInv
    <2>2. CASE local' = local /\ pending' = pending
        BY <2>1, <2>2 DEF NothingForgotten, Recorded, Unsent, Elements
    <2>3. CASE local' = local + 1 /\ pending' = TRUE /\ pending = FALSE
        <3>1. Unsent' = Unsent \cup {local'}
            BY <2>3 DEF Unsent, Elements
        <3>2. Recorded' = Recorded \cup {local'}
            BY <2>1, <2>3 DEF Recorded
        <3> QED
            BY <2>1, <3>1, <3>2 DEF NothingForgotten
    <2> QED
        BY <2>2, <2>3
<1> QED
    BY <1>1, <1>2 DEF IInv, Kept

\* replicateEvent puts the event last and drops the first of a full queue.
LEMMA ReplicateStep ==
    ASSUME IInv, ReplicateEvent
    PROVE  Kept'
<1> DEFINE r    == EnqueueForRetry(queue, local)
           gone == Elements(queue) \ Elements(r)
           d    == dropped \cup gone
<1>1. /\ pending = TRUE /\ pending' = FALSE /\ local' = local
      /\ pgEvents' = pgEvents /\ lost' = lost /\ dropped' = d
      /\ \/ StartFlush(r) \/ (queue' = r /\ flush' = flush)
      /\ \/ metrics' = RecordPrimaryWrite(metrics)
         \/ metrics' = RecordReplication(RecordPrimaryWrite(metrics), FALSE, 1)
    BY DEF ReplicateEvent, postgres
<1>2. /\ local \in Nat /\ local \in Event /\ Handed = local - 1 /\ Handed' = local
    BY <1>1, EventsAreNumbers DEF IInv, TypeInv, Handed, Event
<1>3. /\ queue \in Seq(Event) /\ Sorted(queue) /\ Elements(queue) \subseteq 1..local - 1
      /\ flush \in Flushes /\ Sorted(flush.batch) /\ Elements(flush.batch) \subseteq 1..local - 1
      /\ dropped \subseteq 1..local - 1
      /\ Len(queue) \in Nat /\ Len(queue) <= MaxQueue + BatchSize
      /\ Len(flush.batch) \in Nat /\ Len(flush.batch) <= BatchSize
      /\ (flush.at = "idle" <=> flush.batch = <<>>)
      /\ dropped \cap Elements(queue) = {}
      /\ flush.at = "append" =>
           /\ \A x \in Elements(flush.batch), y \in Elements(queue) : x < y
           /\ Len(queue) <= MaxQueue
           /\ dropped \cap Elements(flush.batch) = {}
    BY <1>2, LineTypes DEF IInv, Kept, Line
<1>4. \A x \in Elements(queue) : x < local
    BY <1>2, <1>3
<1>5. /\ r \in Seq(Event) /\ Sorted(r) /\ r # <<>>
      /\ Elements(r) \subseteq Elements(queue) \cup {local} /\ local \in Elements(r)
      /\ \/ Len(queue) < MaxQueue /\ Len(r) = Len(queue) + 1 /\ gone = {}
         \/ /\ Len(queue) >= MaxQueue /\ Len(r) = Len(queue)
            /\ \E h \in Elements(queue) : gone = {h}
    BY <1>2, <1>3, <1>4, Enqueued
<1> HIDE DEF r
<1>6. gone \subseteq Elements(queue) /\ gone \cap Elements(r) = {}
      /\ Elements(queue) \subseteq Elements(r) \cup gone
    OBVIOUS
<1> HIDE DEF gone
<1>7. Len(r) \in Nat /\ Len(r) <= MaxQueue + BatchSize
      /\ (flush.at = "append" => Len(r) <= MaxQueue)
    BY <1>3, <1>5, EventsAreNumbers
<1>8. Line(r, flush, d, local)
    <2>1. d \subseteq 1..local /\ Elements(r) \subseteq 1..local
          /\ Elements(flush.batch) \subseteq 1..local
        <3>1. 1..local - 1 \subseteq 1..local /\ local \in 1..local
            BY <1>2 DEF Event
        <3> HIDE DEF d
        <3>2. d \subseteq dropped \cup Elements(queue)
            BY <1>6 DEF d
        <3> QED
            BY <1>3, <1>5, <3>1, <3>2, Zenon
    <2>2. d \cap Elements(r) = {}
        <3>1. local \notin dropped
            BY <1>2, <1>3
        <3> QED
            BY <1>3, <1>5, <1>6, <3>1
    <2>3. ASSUME flush.at = "append"
          PROVE  /\ \A x \in Elements(flush.batch), y \in Elements(r) : x < y
                 /\ d \cap Elements(flush.batch) = {}
        <3>1. \A x \in Elements(flush.batch) : x < local
            BY <1>2, <1>3
        <3>2. \A x \in Elements(flush.batch), y \in Elements(queue) : x < y
            BY <1>3, <2>3
        <3>3. \A x \in Elements(flush.batch), y \in Elements(r) : x < y
            BY <1>5, <3>1, <3>2
        <3>4. gone \cap Elements(flush.batch) = {}
            <4>1. \A x \in Elements(flush.batch) : x \in Int
                BY <1>3
            <4> QED
                BY <1>6, <3>2, <4>1
        <3>5. dropped \cap Elements(flush.batch) = {}
            BY <1>3, <2>3
        <3> QED
            BY <3>3, <3>4, <3>5
    <2> QED
        BY <1>3, <1>5, <1>7, <2>1, <2>2, <2>3 DEF Line
<1>9. IsFiniteSet(d) /\ Len(r) + Cardinality(d) = Len(queue) + Cardinality(dropped) + 1
    <2>1. IsFiniteSet(dropped) /\ Cardinality(dropped) \in Nat
        BY FS_CardinalityType DEF IInv, Kept
    <2>2. CASE Len(r) = Len(queue) + 1 /\ gone = {}
        BY <1>3, <2>1, <2>2
    <2>3. CASE Len(r) = Len(queue) /\ \E h \in Elements(queue) : gone = {h}
        <3>1. PICK h \in Elements(queue) : gone = {h}
            BY <2>3
        <3>2. h \notin dropped
            BY <1>3
        <3>3. IsFiniteSet(dropped \cup {h})
              /\ Cardinality(dropped \cup {h}) = Cardinality(dropped) + 1
            BY <2>1, <3>2, FS_AddElement
        <3>4. IsFiniteSet(d) /\ Cardinality(d) = Cardinality(dropped) + 1
            BY <3>1, <3>3
        <3> HIDE DEF d
        <3> QED
            BY <1>3, <2>1, <2>3, <3>4
    <2> QED
        BY <1>5, <2>2, <2>3
<1>10. /\ Line(queue', flush', d, local)
       /\ Waiting(queue', flush') = Waiting(r, flush)
       /\ Elements(queue') \cup Elements(flush'.batch) = Elements(r) \cup Elements(flush.batch)
       /\ flush'.at = "project" => flush' = flush
    BY <1>1, <1>8, FlushStarts
<1>11. metrics'.writes = metrics.writes + 1 /\ metrics'.replicated = metrics.replicated
    <2>1. metrics \in Metrics
        BY DEF IInv, TypeInv
    <2>2. RecordPrimaryWrite(metrics) \in Metrics
        BY <2>1, Counting
    <2>3. /\ RecordPrimaryWrite(metrics).writes = metrics.writes + 1
          /\ RecordPrimaryWrite(metrics).replicated = metrics.replicated
        BY <2>1, Counting
    <2>4. /\ RecordReplication(RecordPrimaryWrite(metrics), FALSE, 1).writes = metrics.writes + 1
          /\ RecordReplication(RecordPrimaryWrite(metrics), FALSE, 1).replicated
             = metrics.replicated
        BY <2>2, <2>3, Counting
    <2> QED
        BY <1>1, <2>3, <2>4
<1>12. metrics'.writes = metrics'.replicated + Waiting(queue', flush') + Cardinality(dropped')
    <2>1. metrics.writes = metrics.replicated + Waiting(queue, flush) + Cardinality(dropped)
          /\ metrics.replicated \in Nat
        BY DEF IInv, Kept, TypeInv, Metrics
    <2>2. Waiting(r, flush) + Cardinality(d) = Waiting(queue, flush) + Cardinality(dropped) + 1
        <3>1. Cardinality(d) \in Nat /\ Cardinality(dropped) \in Nat
            BY <1>9, FS_CardinalityType DEF IInv, Kept
        <3> HIDE DEF d
        <3>2. CASE flush.at = "append"
            <4>1. /\ Waiting(r, flush) = Len(r) + Len(flush.batch)
                  /\ Waiting(queue, flush) = Len(queue) + Len(flush.batch)
                BY <3>2 DEF Waiting
            <4>2. Len(r) \in Nat /\ Len(queue) \in Nat /\ Len(flush.batch) \in Nat
                BY <1>3, <1>7
            <4> QED
                BY <1>9, <3>1, <4>1, <4>2, SMTT(60)
        <3>3. CASE flush.at # "append"
            <4>1. Waiting(r, flush) = Len(r) /\ Waiting(queue, flush) = Len(queue)
                BY <1>3, <1>7, <3>3 DEF Waiting
            <4> QED
                BY <1>9, <4>1
        <3> QED
            BY <3>2, <3>3
    <2>3. Waiting(r, flush) \in Nat /\ Waiting(queue, flush) \in Nat
          /\ Cardinality(d) \in Nat /\ Cardinality(dropped) \in Nat
        BY <1>3, <1>7, <1>9, FS_CardinalityType DEF Waiting, IInv, Kept
    <2> QED
        BY <1>1, <1>10, <1>11, <2>1, <2>2, <2>3
<1>13. flush'.at = "project" => Elements(flush'.batch) \subseteq pgEvents'
    BY <1>1, <1>10 DEF IInv, Kept
<1>14. NothingForgotten'
    <2>1. Recorded \subseteq pgEvents \cup Unsent \cup dropped \cup lost
        BY DEF IInv, Kept, NothingForgotten
    <2>2. Unsent \subseteq Elements(queue') \cup Elements(flush'.batch) \cup d
        BY <1>5, <1>6, <1>10 DEF Unsent
    <2>3. Unsent' = Elements(queue') \cup Elements(flush'.batch)
        BY <1>1 DEF Unsent, Elements
    <2>4. Recorded' = Recorded
        BY <1>1 DEF Recorded
    <2> QED
        BY <1>1, <2>1, <2>2, <2>3, <2>4 DEF NothingForgotten
<1>15. Line(queue, flush, dropped, Handed)' /\ IsFiniteSet(dropped')
    BY <1>1, <1>2, <1>9, <1>10 DEF Line, Sorted, Elements
<1> QED
    BY <1>12, <1>13, <1>14, <1>15 DEF Kept, Waiting

\* The timer moves the front of the queue into a batch.
LEMMA TimerStep ==
    ASSUME IInv, FlushTimer
    PROVE  Kept'
<1>1. /\ StartFlush(queue)
      /\ UNCHANGED <<pending, local, metrics, pgEvents, dropped, lost>>
    BY DEF FlushTimer, postgres, history
<1>2. /\ Line(queue', flush', dropped, Handed)
      /\ Waiting(queue', flush') = Waiting(queue, flush)
      /\ Elements(queue') \cup Elements(flush'.batch) = Elements(queue) \cup Elements(flush.batch)
      /\ flush'.at = "project" => flush' = flush
    BY <1>1, FlushStarts DEF IInv, Kept
<1>3. Handed' = Handed
    BY <1>1 DEF Handed
<1>4. Line(queue, flush, dropped, Handed)'
    BY <1>1, <1>2, <1>3 DEF Line, Sorted, Elements
<1>5. metrics'.writes = metrics'.replicated + Waiting(queue', flush') + Cardinality(dropped')
    BY <1>1, <1>2 DEF IInv, Kept
<1>6. flush'.at = "project" => Elements(flush'.batch) \subseteq pgEvents'
    BY <1>1, <1>2 DEF IInv, Kept
<1>7. NothingForgotten'
    <2>1. Unsent' = Unsent
        BY <1>1, <1>2 DEF Unsent, Elements
    <2> QED
        BY <1>1, <2>1 DEF IInv, Kept, NothingForgotten, Recorded
<1> QED
    BY <1>1, <1>4, <1>5, <1>6, <1>7 DEF IInv, Kept, Waiting

\* append() succeeded.
LEMMA AppendDoneStep ==
    ASSUME IInv, AppendDone
    PROVE  Kept'
<1>1. /\ flush.at = "append"
      /\ pgEvents' = pgEvents \cup Elements(flush.batch)
      /\ metrics' = RecordReplication(metrics, TRUE, Len(flush.batch))
      /\ flush' = NoFlush \/ flush' = [flush EXCEPT !.at = "project"]
      /\ UNCHANGED <<pending, queue, local, dropped, lost>>
    BY DEF AppendDone, history
<1>2. Line(queue, flush, dropped, Handed) /\ flush \in Flushes /\ Len(flush.batch) \in Nat
      /\ Len(queue) \in Nat /\ flush.batch # <<>>
    BY <1>1, LineTypes DEF IInv, Kept, Line
<1>3. /\ flush' \in Flushes /\ flush'.at # "append"
      /\ (flush'.at = "idle" /\ flush'.batch = <<>>)
         \/ (flush'.at = "project" /\ flush'.batch = flush.batch)
    <2>1. CASE flush' = NoFlush
        BY <2>1 DEF Flushes, NoFlush
    <2>2. CASE flush' = [flush EXCEPT !.at = "project"]
        <3>1. flush' \in Flushes /\ flush'.at = "project" /\ flush'.batch = flush.batch
            BY <1>2, <2>2 DEF Flushes
        <3> QED
            BY <3>1
    <2> QED
        BY <1>1, <2>1, <2>2
<1>4. Handed' = Handed
    BY <1>1 DEF Handed
<1>5. Line(queue', flush', dropped', Handed')
    <2>1. CASE flush'.at = "idle"
        <3>1. Elements(flush'.batch) = {} /\ Sorted(flush'.batch) /\ Len(flush'.batch) = 0
            BY <1>3, <2>1 DEF Elements, Sorted
        <3> QED
            BY <1>1, <1>2, <1>3, <1>4, <2>1, <3>1, EventsAreNumbers DEF Line
    <2>2. CASE flush'.at = "project"
        BY <1>1, <1>2, <1>3, <1>4, <2>2 DEF Line
    <2> QED
        BY <1>3, <2>1, <2>2
<1>6. metrics'.writes = metrics'.replicated + Waiting(queue', flush') + Cardinality(dropped')
    <2>1. metrics \in Metrics /\ metrics.replicated \in Nat
        BY DEF IInv, TypeInv, Metrics
    <2>2. metrics'.writes = metrics.writes
          /\ metrics'.replicated = metrics.replicated + Len(flush.batch)
        BY <1>1, <1>2, <2>1, Counting
    <2>3. Waiting(queue, flush) = Len(queue) + Len(flush.batch)
          /\ Waiting(queue', flush') = Len(queue)
        BY <1>1, <1>2, <1>3 DEF Waiting
    <2>4. Cardinality(dropped) \in Nat /\ dropped' = dropped
          /\ Len(queue) \in Nat /\ Len(flush.batch) \in Nat
        BY <1>1, <1>2, FS_CardinalityType DEF IInv, Kept
    <2>5. metrics.writes = metrics.replicated + Waiting(queue, flush) + Cardinality(dropped)
        BY DEF IInv, Kept
    <2>6. metrics.writes = metrics.replicated + (Len(queue) + Len(flush.batch))
                           + Cardinality(dropped)
        BY <2>3, <2>5
    <2>7. metrics.writes = (metrics.replicated + Len(flush.batch)) + Len(queue)
                           + Cardinality(dropped)
        BY <2>1, <2>4, <2>6
    <2> QED
        BY <2>2, <2>3, <2>4, <2>7
<1>7. flush'.at = "project" => Elements(flush'.batch) \subseteq pgEvents'
    BY <1>1, <1>3
<1>8. NothingForgotten'
    <2>1. Unsent \subseteq pgEvents' \cup Unsent'
        BY <1>1 DEF Unsent, Elements
    <2> QED
        BY <1>1, <2>1 DEF IInv, Kept, NothingForgotten, Recorded
<1> QED
    BY <1>1, <1>5, <1>6, <1>7, <1>8 DEF IInv, Kept, Waiting, Line, Sorted, Elements

\* append() threw: the batch is again where it came from.
LEMMA AppendFailedStep ==
    ASSUME IInv, AppendFailed
    PROVE  Kept'
<1>1. /\ flush.at = "append"
      /\ pgEvents \subseteq pgEvents'
      /\ queue' = flush.batch \o queue
      /\ metrics' = RecordReplication(metrics, FALSE, Len(flush.batch))
      /\ flush' = NoFlush
      /\ UNCHANGED <<pending, local, dropped, lost>>
    BY DEF AppendFailed, history
<1>2. Line(queue, flush, dropped, Handed) /\ flush.batch \in Seq(Event) /\ queue \in Seq(Event)
      /\ Len(flush.batch) \in Nat /\ Len(queue) \in Nat
      /\ Sorted(flush.batch) /\ Sorted(queue)
      /\ \A x \in Elements(flush.batch), y \in Elements(queue) : x < y
      /\ Len(queue) <= MaxQueue /\ Len(flush.batch) <= BatchSize
    BY <1>1, LineTypes DEF IInv, Kept, Line
<1>3. /\ queue' \in Seq(Event) /\ Len(queue') = Len(flush.batch) + Len(queue)
      /\ Sorted(queue') /\ Elements(queue') = Elements(flush.batch) \cup Elements(queue)
    BY <1>1, <1>2, ConcatSorted
<1>4. /\ flush' \in Flushes /\ flush'.at = "idle" /\ flush'.batch = <<>>
      /\ Elements(flush'.batch) = {} /\ Sorted(flush'.batch) /\ Len(flush'.batch) = 0
    <2>1. flush' \in Flushes /\ flush'.at = "idle" /\ flush'.batch = <<>>
        BY <1>1 DEF Flushes, NoFlush
    <2> QED
        BY <2>1 DEF Elements, Sorted
<1>5. Handed' = Handed
    BY <1>1 DEF Handed
<1>6. Len(queue') <= MaxQueue + BatchSize /\ Len(queue') \in Nat
    <2>1. MaxQueue \in Nat /\ BatchSize \in Nat
        BY EventsAreNumbers
    <2>2. Len(queue) \in Nat /\ Len(flush.batch) \in Nat
        BY <1>2
    <2>3. Len(queue) <= MaxQueue /\ Len(flush.batch) <= BatchSize
        BY <1>1 DEF IInv, Kept, Line
    <2>4. Len(queue') = Len(flush.batch) + Len(queue)
        BY <1>3
    <2> QED
        BY <2>1, <2>2, <2>3, <2>4
<1>7. /\ dropped \subseteq 1..Handed /\ Elements(queue) \subseteq 1..Handed
      /\ Elements(flush.batch) \subseteq 1..Handed
      /\ dropped \cap Elements(queue) = {} /\ dropped \cap Elements(flush.batch) = {}
    BY <1>1, <1>2 DEF Line
<1>8. dropped \cap Elements(queue') = {} /\ Elements(queue') \subseteq 1..Handed
    BY <1>3, <1>7
<1>9. Line(queue', flush', dropped', Handed')
    BY <1>1, <1>3, <1>4, <1>5, <1>6, <1>7, <1>8, EventsAreNumbers DEF Line
<1>10. metrics'.writes = metrics'.replicated + Waiting(queue', flush') + Cardinality(dropped')
    <2>1. metrics \in Metrics
        BY DEF IInv, TypeInv
    <2>2. metrics'.writes = metrics.writes /\ metrics'.replicated = metrics.replicated
        BY <1>1, <1>2, <2>1, Counting
    <2>3. Waiting(queue, flush) = Len(queue) + Len(flush.batch)
          /\ Waiting(queue', flush') = Len(queue')
        BY <1>1, <1>4, <1>6 DEF Waiting
    <2>4. Waiting(queue', flush') = Waiting(queue, flush)
        BY <1>2, <1>3, <2>3
    <2>5. metrics.writes = metrics.replicated + Waiting(queue, flush) + Cardinality(dropped)
        BY DEF IInv, Kept
    <2> QED
        BY <1>1, <2>2, <2>4, <2>5
<1>11. NothingForgotten'
    <2>1. Unsent' = Unsent
        BY <1>1, <1>3, <1>4 DEF Unsent, Elements
    <2> QED
        BY <1>1, <2>1 DEF IInv, Kept, NothingForgotten, Recorded
<1> QED
    BY <1>1, <1>4, <1>9, <1>10, <1>11 DEF IInv, Kept, Waiting, Line, Sorted, Elements

\* project() ended, with any part of the batch projected.
LEMMA ProjectDoneStep ==
    ASSUME IInv, ProjectDone
    PROVE  Kept'
<1>1. /\ flush.at = "project" /\ flush' = NoFlush
      /\ UNCHANGED <<pending, queue, local, metrics, pgEvents, dropped, lost>>
    BY DEF ProjectDone, history
<1>2. Line(queue, flush, dropped, Handed) /\ Len(queue) \in Nat
    BY LineTypes DEF IInv, Kept
<1>3. /\ flush' \in Flushes /\ flush'.at = "idle" /\ flush'.batch = <<>>
      /\ Elements(flush'.batch) = {} /\ Sorted(flush'.batch) /\ Len(flush'.batch) = 0
    <2>1. flush' \in Flushes /\ flush'.at = "idle" /\ flush'.batch = <<>>
        BY <1>1 DEF Flushes, NoFlush
    <2> QED
        BY <2>1 DEF Elements, Sorted
<1>4. Handed' = Handed
    BY <1>1 DEF Handed
<1>5. Line(queue', flush', dropped', Handed')
    BY <1>1, <1>2, <1>3, <1>4, EventsAreNumbers DEF Line
<1>6. Waiting(queue', flush') = Waiting(queue, flush)
    BY <1>1, <1>2, <1>3 DEF Waiting
<1>7. metrics'.writes = metrics'.replicated + Waiting(queue', flush') + Cardinality(dropped')
    BY <1>1, <1>6 DEF IInv, Kept
<1>8. NothingForgotten'
    <2>1. Elements(flush.batch) \subseteq pgEvents
        BY <1>1 DEF IInv, Kept
    <2>2. Unsent \subseteq pgEvents' \cup Unsent'
        BY <1>1, <2>1 DEF Unsent, Elements
    <2> QED
        BY <1>1, <2>2 DEF IInv, Kept, NothingForgotten, Recorded
<1> QED
    BY <1>1, <1>3, <1>5, <1>7, <1>8 DEF IInv, Kept, Waiting, Line, Sorted, Elements

\* A process ends, at any moment: what it had not delivered is lost.
LEMMA ExitStep ==
    ASSUME IInv, Exit
    PROVE  Kept'
<1>1. /\ pending' = FALSE /\ queue' = <<>> /\ flush' = NoFlush /\ metrics' = NoMetrics
      /\ dropped' = {} /\ local' = local /\ pgEvents \subseteq pgEvents'
      /\ lost' = lost \cup dropped \cup (Unsent \ pgEvents')
    BY DEF Exit
<1>2. /\ flush' \in Flushes /\ flush'.at = "idle" /\ flush'.batch = <<>>
      /\ Elements(flush'.batch) = {} /\ Sorted(flush'.batch) /\ Len(flush'.batch) = 0
    <2>1. flush' \in Flushes /\ flush'.at = "idle" /\ flush'.batch = <<>>
        BY <1>1 DEF Flushes, NoFlush
    <2> QED
        BY <2>1 DEF Elements, Sorted
<1>3. /\ queue' \in Seq(Event) /\ Elements(queue') = {} /\ Sorted(queue') /\ Len(queue') = 0
    BY <1>1 DEF Elements, Sorted
<1>4. Line(queue', flush', dropped', Handed')
    <2>1. 0 <= MaxQueue + BatchSize /\ 0 <= BatchSize
        BY EventsAreNumbers
    <2> QED
        BY <1>1, <1>2, <1>3, <2>1 DEF Line
<1>5. IsFiniteSet(dropped') /\ Cardinality(dropped') = 0
    BY <1>1, FS_EmptySet
<1>6. metrics'.writes = metrics'.replicated + Waiting(queue', flush') + Cardinality(dropped')
    <2>1. metrics'.writes = 0 /\ metrics'.replicated = 0
        BY <1>1 DEF NoMetrics
    <2>2. Waiting(queue', flush') = 0
        BY <1>2, <1>3 DEF Waiting
    <2> QED
        BY <1>5, <2>1, <2>2
<1>7. NothingForgotten'
    <2>1. Recorded \subseteq pgEvents \cup Unsent \cup dropped \cup lost
        BY DEF IInv, Kept, NothingForgotten
    <2>2. Recorded' = Recorded
        BY <1>1 DEF Recorded
    <2>3. Recorded' \subseteq pgEvents' \cup lost'
        BY <1>1, <2>1, <2>2
    <2> QED
        BY <2>3 DEF NothingForgotten
<1> QED
    BY <1>2, <1>4, <1>5, <1>6, <1>7 DEF Kept, Waiting, Line, Sorted, Elements

\* Every step of the backend keeps the line, the books and every event
\* accounted for.
LEMMA KeptStep == IInv /\ [Next]_vars => Kept'
<1> SUFFICES ASSUME IInv, [Next]_vars PROVE Kept'
    OBVIOUS
<1>1. ASSUME UNCHANGED <<queue, flush, dropped, lost, pgEvents, local, pending>>,
             metrics'.writes = metrics.writes, metrics'.replicated = metrics.replicated
      PROVE  Kept'
    <2>1. Handed' = Handed
        BY <1>1 DEF Handed
    <2> QED
        BY <1>1, <2>1, QuietStep
<1>2. CASE Initialize
    BY <1>1, <1>2 DEF Initialize, postgres, history
<1>3. CASE RecordLocal
    <2>1. /\ UNCHANGED <<queue, flush, dropped, lost, pgEvents, metrics>>
          /\ local' = local + 1 /\ pending' = TRUE /\ pending = FALSE
        BY <1>3 DEF RecordLocal, postgres, history, IInv, TypeInv
    <2>2. Handed' = Handed
        BY <2>1 DEF Handed, IInv, TypeInv
    <2> QED
        BY <2>1, <2>2, QuietStep
<1>4. CASE ReplicateEvent
    BY <1>4, ReplicateStep
<1>5. CASE FlushTimer
    BY <1>5, TimerStep
<1>6. CASE AppendDone
    BY <1>6, AppendDoneStep
<1>7. CASE AppendFailed
    BY <1>7, AppendFailedStep
<1>8. CASE ProjectDone
    BY <1>8, ProjectDoneStep
<1>9. CASE ShadowRead
    BY <1>1, <1>9 DEF ShadowRead, postgres, history
<1>10. CASE ShadowReadDone
    <2>1. metrics'.writes = metrics.writes /\ metrics'.replicated = metrics.replicated
        BY <1>10, CountingReads DEF ShadowReadDone, IInv, TypeInv
    <2> QED
        BY <1>1, <1>10, <2>1 DEF ShadowReadDone, postgres, history
<1>11. CASE AttemptPromotion
    BY <1>1, <1>11 DEF AttemptPromotion, postgres, history
<1>12. CASE Rollback
    BY <1>1, <1>12 DEF Rollback, postgres, history
<1>13. CASE Exit
    BY <1>13, ExitStep
<1>14. CASE Boot
    BY <1>1, <1>14 DEF Boot, postgres, history
<1>15. CASE UNCHANGED vars
    BY <1>1, <1>15 DEF vars, process, postgres, history
<1> QED
    BY <1>2, <1>3, <1>4, <1>5, <1>6, <1>7, <1>8, <1>9, <1>10, <1>11, <1>12, <1>13, <1>14, <1>15
       DEF Next, Shutdown, Crash

\* The invariant holds from the start and through every step, whatever fails.
LEMMA ReplicationInvariant == Spec => []IInv
<1>1. Init => IInv
    <2> SUFFICES ASSUME Init PROVE IInv
        OBVIOUS
    <2>1. TypeInv
        <3>1. metrics \in Metrics
            BY DEF Init, NoMetrics, Metrics
        <3>2. phase \in Phases
            BY DEF Init, FirstPhase, Phases
        <3>3. local \in 0..MaxEvents /\ exits \in Nat
            BY EventsAreNumbers DEF Init
        <3>4. /\ up \in BOOLEAN /\ store \in BOOLEAN /\ reading \in BOOLEAN
              /\ pending \in BOOLEAN /\ ~pending /\ conn = "connecting"
            BY Zenon DEF Init
        <3>5. pgEvents = {} /\ pgObs = {} /\ lost = {}
            BY DEF Init
        <3> QED
            BY <3>1, <3>2, <3>3, <3>4, <3>5, Zenon DEF TypeInv
    <2>2. /\ flush \in Flushes /\ flush.at = "idle" /\ flush.batch = <<>>
        BY DEF Init, Flushes, NoFlush
    <2>3. /\ Elements(flush.batch) = {} /\ Sorted(flush.batch) /\ Len(flush.batch) = 0
          /\ queue \in Seq(Event) /\ Elements(queue) = {} /\ Sorted(queue) /\ Len(queue) = 0
        BY <2>2 DEF Init, Elements, Sorted
    <2>4. Line(queue, flush, dropped, Handed)
        <3>1. 0 <= MaxQueue + BatchSize /\ 0 <= BatchSize /\ dropped = {}
            BY EventsAreNumbers DEF Init
        <3> QED
            BY <2>2, <2>3, <3>1 DEF Line
    <2>5. IsFiniteSet(dropped) /\ Cardinality(dropped) = 0
        BY FS_EmptySet DEF Init
    <2>6. metrics.writes = metrics.replicated + Waiting(queue, flush) + Cardinality(dropped)
        BY <2>2, <2>3, <2>5 DEF Init, NoMetrics, Waiting
    <2>7. NothingForgotten
        BY DEF Init, NothingForgotten, Recorded
    <2> QED
        BY <2>1, <2>2, <2>4, <2>5, <2>6, <2>7 DEF IInv, Kept
<1>2. IInv /\ [Next]_vars => IInv'
    BY KeptStep, TypeStep DEF IInv, Kept
<1> QED
    BY <1>1, <1>2, PTL DEF Spec

\* While a process lives, every event that SQLite holds is in PostgreSQL, on its
\* way there, or was pushed out of a full queue; a process that ends takes along
\* only what it had not delivered.
THEOREM EveryEventAccountedFor == Spec => []NothingForgotten
<1>1. IInv => NothingForgotten
    BY DEF IInv, Kept
<1> QED
    BY <1>1, ReplicationInvariant, PTL

\* The writes a process counts are the events replicated, waiting or pushed out:
\* retries, duplicates and lost answers never count twice.
THEOREM CountersAccountForWrites == Spec => []WritesAccounted
<1>1. IInv => WritesAccounted
    <2> SUFFICES ASSUME IInv PROVE WritesAccounted
        OBVIOUS
    <2>1. /\ metrics.writes = metrics.replicated + Waiting(queue, flush) + Cardinality(dropped)
          /\ metrics.replicated \in Nat /\ Len(queue) \in Nat /\ Len(flush.batch) \in Nat
          /\ Cardinality(dropped) \in Nat
        BY LineTypes, FS_CardinalityType DEF IInv, Kept, TypeInv, Metrics
    <2>2. CASE flush.at = "append"
        BY <2>1, <2>2 DEF Waiting, WritesAccounted
    <2>3. CASE flush.at # "append"
        BY <2>1, <2>3 DEF Waiting, WritesAccounted
    <2> QED
        BY <2>2, <2>3
<1> QED
    BY <1>1, ReplicationInvariant, PTL

\* The events still to be sent stay in the order they were recorded and within
\* one batch of the queue's maximum, whatever fails, returns or is pushed out.
THEOREM QueueStaysSound == Spec => []QueueSound
<1>1. IInv => QueueSound
    <2> SUFFICES ASSUME IInv PROVE QueueSound
        OBVIOUS
    <2>1. /\ Line(queue, flush, dropped, Handed) /\ TypeInv
          /\ queue \in Seq(Event) /\ Sorted(queue)
          /\ flush.batch \in Seq(Event) /\ Sorted(flush.batch)
          /\ flush.at \in {"idle", "append", "project"}
          /\ (flush.at = "idle" <=> flush.batch = <<>>)
          /\ Len(queue) <= MaxQueue + BatchSize
          /\ flush.at = "append" => \A x \in Elements(flush.batch), y \in Elements(queue) : x < y
        BY LineTypes DEF IInv, Kept, Line
    <2>2. dropped \subseteq Event
        <3>1. dropped \subseteq 1..Handed
            BY <2>1 DEF Line
        <3>2. Handed \in Int /\ Handed <= MaxEvents /\ MaxEvents \in Nat
            BY <2>1, EventsAreNumbers DEF Handed, TypeInv
        <3> QED
            BY <3>1, <3>2 DEF Event
    <2>3. TypeOK
        BY <2>1, <2>2 DEF TypeOK, TypeInv
    <2>4. SentInOrder
        <3> DEFINE front == IF flush.at = "append" THEN flush.batch ELSE <<>>
        <3>1. /\ front \in Seq(Event) /\ Sorted(front)
              /\ \A x \in Elements(front), y \in Elements(queue) : x < y
            <4>1. CASE flush.at = "append"
                BY <2>1, <4>1
            <4>2. CASE flush.at # "append"
                <5>1. front = <<>>
                    BY <4>2
                <5>2. <<>> \in Seq(Event) /\ Len(<<>>) = 0
                    OBVIOUS
                <5>3. Elements(<<>>) = {} /\ Sorted(<<>>)
                    BY <5>2 DEF Elements, Sorted
                <5> HIDE DEF front
                <5> QED
                    BY <5>1, <5>2, <5>3, Zenon
            <4> QED
                BY <4>1, <4>2
        <3> HIDE DEF front
        <3>2. Sorted(front \o queue)
            BY <2>1, <3>1, ConcatSorted
        <3> QED
            BY <3>2 DEF SentInOrder, Sorted, front
    <2> QED
        BY <2>1, <2>3, <2>4 DEF QueueSound, QueueBounded
<1> QED
    BY <1>1, ReplicationInvariant, PTL
==============================================================================
