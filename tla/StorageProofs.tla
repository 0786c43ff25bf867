---------------------------- MODULE StorageProofs -----------------------------
(***************************************************************************)
(* Proofs about the database file: the chain of the audit log binds every  *)
(* chained row to what was written at its position, for every set of       *)
(* details and every length of the log; and what a start of the daemon     *)
(* serves from is whole, for every number of observations, whatever        *)
(* columns earlier releases left, and wherever earlier starts died; and    *)
(* imports can be repeated and their reports relied on, for any sources.   *)
(***************************************************************************)
EXTENDS AuditChain, SchemaMigration, Imports, OrderLemmas, SequenceTheorems,
        FiniteSetTheorems

------------------------------------------------------------------------------
(* The audit log *)

\* The log and its history are sequences of one length.
Shape ==
    /\ \E R : log \in Seq(R)
    /\ \E D : written \in Seq(D)
    /\ Len(log) = Len(written)

IInv == Shape /\ ChainBinds

\* t is s with x behind it.
Extends(t, s, x) ==
    /\ \E S : t \in Seq(S)
    /\ Len(s) \in Nat
    /\ Len(t) = Len(s) + 1
    /\ DOMAIN s = 1 .. Len(s)
    /\ DOMAIN t = 1 .. Len(s) + 1
    /\ \A i \in 1 .. Len(s) : t[i] = s[i]
    /\ t[Len(s) + 1] = x

\* What Append does, for an element of any kind.
LEMMA AppendFacts ==
    ASSUME NEW s, NEW x, \E S : s \in Seq(S)
    PROVE  Extends(Append(s, x), s, x)
<1> PICK S : s \in Seq(S)
    OBVIOUS
<1> DEFINE T == S \cup {x}
<1>1. s \in Seq(T) /\ x \in T
    OBVIOUS
<1> HIDE DEF T
<1>2. Append(s, x) \in Seq(T)
    BY <1>1
<1>3. Len(s) \in Nat /\ Len(Append(s, x)) = Len(s) + 1
    BY <1>1
<1>4. \A i \in 1 .. Len(s) : Append(s, x)[i] = s[i]
    BY <1>1
<1>5. Append(s, x)[Len(s) + 1] = x
    BY <1>1
<1>6. DOMAIN s = 1 .. Len(s) /\ DOMAIN Append(s, x) = 1 .. Len(s) + 1
    BY <1>1, <1>2, <1>3
<1> QED
    BY <1>2, <1>3, <1>4, <1>5, <1>6 DEF Extends

\* The hash a row is linked to depends only on the rows before it.
LEMMA PrevHashFrame ==
    ASSUME NEW s, NEW t, NEW i,
           \A j : j < i => (j \in DOMAIN s <=> j \in DOMAIN t),
           \A j \in DOMAIN s : j < i => t[j].chained = s[j].chained /\ t[j].hash = s[j].hash
    PROVE  PrevHash(t, 1, i) = PrevHash(s, 1, i)
<1>1. ChainedRows(t, 1, i) = ChainedRows(s, 1, i)
    BY Zenon DEF ChainedRows
<1>2. \A j \in ChainedRows(s, 1, i) : t[j].hash = s[j].hash
    BY Zenon DEF ChainedRows
<1>3. Nearest(t, 1, i) = Nearest(s, 1, i)
    BY <1>1, <1>2, Zenon DEF Nearest
<1> QED
    BY <1>3 DEF PrevHash

\* An insert, chained or not, leaves the rows before it as they are.
LEMMA AppendKeepsChain ==
    ASSUME Shape, ChainBinds, NEW detail, NEW row,
           log' = Append(log, row), written' = Append(written, detail),
           row.chained => row.hash = ChainHash(PrevHash(log, 1, Len(log) + 1), detail)
    PROVE  IInv'
<1>1. /\ Len(log) \in Nat /\ Len(log') = Len(log) + 1
      /\ DOMAIN log = 1 .. Len(log) /\ DOMAIN log' = 1 .. Len(log) + 1
      /\ \A i \in 1 .. Len(log) : log'[i] = log[i]
      /\ log'[Len(log) + 1] = row
      /\ \E R : log' \in Seq(R)
  <2>1. \E R : log \in Seq(R)
    BY Zenon DEF Shape
  <2>2. Extends(Append(log, row), log, row)
    BY <2>1, AppendFacts, Zenon
  <2>3. Extends(log', log, row)
    BY <2>2
  <2> QED
    BY <2>3, Zenon DEF Extends
<1>2. /\ Len(written') = Len(log) + 1
      /\ \A i \in 1 .. Len(log) : written'[i] = written[i]
      /\ written'[Len(log) + 1] = detail
      /\ \E D : written' \in Seq(D)
  <2>1. (\E D : written \in Seq(D)) /\ Len(log) = Len(written)
    BY Zenon DEF Shape
  <2>2. /\ Len(written') = Len(written) + 1
        /\ \A i \in 1 .. Len(written) : written'[i] = written[i]
        /\ written'[Len(written) + 1] = detail
        /\ \E D : written' \in Seq(D)
    <3>1. Extends(Append(written, detail), written, detail)
      BY <2>1, AppendFacts, Zenon
    <3>2. Extends(written', written, detail)
      BY <3>1
    <3> QED
      BY <3>2, Zenon DEF Extends
  <2> QED
    BY <2>1, <2>2, Zenon
<1>3. Shape'
    BY <1>1, <1>2 DEF Shape
<1>4. ASSUME NEW i \in 1 .. Len(log) + 1
      PROVE  PrevHash(log', 1, i) = PrevHash(log, 1, i)
  <2>1. \A j : j < i => (j \in DOMAIN log <=> j \in DOMAIN log')
    BY <1>1
  <2>2. \A j \in DOMAIN log : j < i => log'[j].chained = log[j].chained
                                      /\ log'[j].hash = log[j].hash
    BY <1>1
  <2> QED
    BY <2>1, <2>2, PrevHashFrame
<1>5. ASSUME NEW i \in DOMAIN log', log'[i].chained
      PROVE  log'[i].hash = ChainHash(PrevHash(log', 1, i), written'[i])
  <2>1. CASE i \in 1 .. Len(log)
    <3>1. log[i].hash = ChainHash(PrevHash(log, 1, i), written[i])
      BY <1>1, <1>5, <2>1 DEF ChainBinds
    <3> QED
      BY <1>1, <1>2, <1>4, <2>1, <3>1
  <2>2. CASE i = Len(log) + 1
    <3>1. PrevHash(log', 1, i) = PrevHash(log, 1, i)
      BY <1>1, <1>4
    <3>2. log'[i] = row /\ written'[i] = detail
      BY <1>1, <1>2, <2>2
    <3>3. row.chained
      BY <1>5, <3>2
    <3> QED
      BY <2>2, <3>1, <3>2, <3>3
  <2>3. i \in 1 .. Len(log) \/ i = Len(log) + 1
    BY <1>1
  <2> QED
    BY <2>1, <2>2, <2>3, Zenon
<1> QED
    BY <1>3, <1>5 DEF IInv, ChainBinds

\* Rewriting what a row says leaves its hash and its link alone.
LEMMA EditKeepsChain ==
    ASSUME IInv, NEW i \in DOMAIN log, NEW detail, Edit(i, detail)
    PROVE  IInv'
<1>1. /\ DOMAIN log' = DOMAIN log
      /\ \A j \in DOMAIN log : log'[j].chained = log[j].chained /\ log'[j].hash = log[j].hash
    BY DEF Edit
<1>2. written' = written
    BY DEF Edit
<1>3. Shape'
  <2>1. PICK R : log \in Seq(R)
    BY DEF IInv, Shape
  <2>2. log' \in Seq(R \cup {log'[i]}) /\ Len(log') = Len(log)
    BY <2>1 DEF Edit
  <2> QED
    BY <1>2, <2>2 DEF IInv, Shape
<1>4. \A j : PrevHash(log', 1, j) = PrevHash(log, 1, j)
    BY <1>1, PrevHashFrame
<1> QED
    BY <1>1, <1>2, <1>3, <1>4 DEF IInv, ChainBinds

\* The invariant holds initially and every writer and every edit preserves it.
LEMMA ChainInvariant == Spec => []IInv
<1>1. Init => IInv
    BY DEF Init, IInv, Shape, ChainBinds
<1>2. IInv /\ [Next]_vars => IInv'
  <2> SUFFICES ASSUME IInv, [Next]_vars PROVE IInv'
    OBVIOUS
  <2>1. ASSUME NEW detail \in Detail, AppendAuditChain(detail) PROVE IInv'
    BY <2>1, AppendKeepsChain DEF AppendAuditChain, AppendChained, LastPrevHash, IInv
  <2>2. ASSUME NEW detail \in Detail, WriteAuditLog(detail) PROVE IInv'
    BY <2>2, AppendKeepsChain DEF WriteAuditLog, AppendPlain, IInv
  <2>3. ASSUME NEW i \in DOMAIN log, NEW detail \in Detail, Edit(i, detail) PROVE IInv'
    BY <2>3, EditKeepsChain
  <2>4. CASE UNCHANGED vars
    <3>1. log' = log /\ written' = written
      BY <2>4 DEF vars
    <3>2. Shape'
      BY <3>1 DEF IInv, Shape
    <3>3. \A i : PrevHash(log', 1, i) = PrevHash(log, 1, i)
      BY <3>1, PrevHashFrame
    <3> QED
      BY <3>1, <3>2, <3>3 DEF IInv, ChainBinds
  <2> QED
    BY <2>1, <2>2, <2>3, <2>4 DEF Next
<1> QED
    BY <1>1, <1>2, PTL DEF Spec

\* Every chained row carries the hash of its nearest chained predecessor and of
\* what was written, whatever was inserted and edited since.
THEOREM ChainBindsAlways == Spec => []ChainBinds
<1>1. IInv => ChainBinds
    BY DEF IInv
<1> QED
    BY <1>1, ChainInvariant, PTL

\* The rows at which verifyAuditChain from the first row finds a wrong hash are
\* exactly the chained rows that no longer say what was written: no false alarm
\* from unchained rows in between, and no edit hidden by later inserts.
THEOREM MismatchesAreEdits ==
    Spec => [](Mismatches(log, 1) = {i \in Edited : log[i].chained})
<1>1. ASSUME IInv PROVE Mismatches(log, 1) = {i \in Edited : log[i].chained}
  <2>1. Len(log) \in Nat /\ DOMAIN log = 1 .. Len(log)
    BY <1>1 DEF IInv, Shape
  <2>2. ChainedRows(log, 1, Len(log) + 1) = {i \in DOMAIN log : log[i].chained}
    BY <2>1 DEF ChainedRows
  <2>3. \A i \in DOMAIN log : log[i].chained =>
            (log[i].hash # ChainHash(PrevHash(log, 1, i), log[i].detail)
             <=> log[i].detail # written[i])
    BY <1>1 DEF IInv, ChainBinds, ChainHash
  <2> QED
    BY <2>2, <2>3 DEF Mismatches, Edited
<1> QED
    BY <1>1, ChainInvariant, PTL

------------------------------------------------------------------------------
\* A walk that has a chained row of its window behind it looks at the same
\* predecessor as the walk from the first row.
LEMMA NearestInWindow ==
    ASSUME Shape, NEW from \in Nat, from >= 1, NEW i \in Nat,
           ChainedRows(log, from, i) # {}
    PROVE  PrevHash(log, from, i) = PrevHash(log, 1, i)
<1> DEFINE here == ChainedRows(log, from, i)
           all  == ChainedRows(log, 1, i)
<1>1. DOMAIN log \subseteq Nat
    BY DEF Shape
<1>2. here = {k \in all : from <= k}
    BY <1>1 DEF ChainedRows
<1>3. PICK r \in here : TRUE
    OBVIOUS
<1>4. all \subseteq Nat
    BY <1>1 DEF ChainedRows
<1>5. {j \in here : \A k \in here : k <= j} = {j \in all : \A k \in all : k <= j}
  <2> HIDE DEF here, all
  <2>1. ASSUME NEW j \in here, \A k \in here : k <= j, NEW k \in all PROVE k <= j
    <3>1. CASE from <= k
      BY <1>2, <2>1, <3>1
    <3>2. CASE ~(from <= k)
      <4>1. from <= j /\ j \in Nat /\ k \in Nat
        BY <1>2, <1>4
      <4> QED
        BY <3>2, <4>1
    <3> QED
      BY <3>1, <3>2
  <2>2. ASSUME NEW j \in all, \A k \in all : k <= j PROVE j \in here
    <3>1. r \in all /\ from <= r /\ r \in Nat /\ j \in Nat
      BY <1>2, <1>3, <1>4
    <3>2. r <= j
      BY <2>2, <3>1
    <3> QED
      BY <1>2, <3>1, <3>2
  <2>3. here \subseteq all
    BY <1>2
  <2> QED
    BY <2>1, <2>2, <2>3, Zenon
<1>6. Nearest(log, from, i) = Nearest(log, 1, i)
    BY <1>5, Zenon DEF Nearest
<1> QED
    BY <1>6 DEF PrevHash

\* The chain starts at a row exactly when no chained row precedes it.
LEMMA GenesisOnlyFirst ==
    ASSUME IInv, NEW i \in Nat
    PROVE  PrevHash(log, 1, i) = Genesis <=> ChainedRows(log, 1, i) = {}
<1> DEFINE before == ChainedRows(log, 1, i)
<1>1. before \in SUBSET Nat /\ \A j \in before : j <= i
    BY DEF ChainedRows, IInv, Shape
<1>2. CASE before = {}
  <2>1. Nearest(log, 1, i) = {}
    BY <1>2, Zenon DEF Nearest
  <2> QED
    BY <1>2, <2>1 DEF PrevHash
<1>3. CASE before # {}
  <2>1. \E m \in before : \A n \in before : n <= m
    <3> HIDE DEF before
    <3> QED
      BY <1>1, <1>3, GreatestExists, Zenon
  <2>2. Nearest(log, 1, i) # {}
    BY <2>1, Zenon DEF Nearest
  <2>3. PrevHash(log, 1, i) \in Nearest(log, 1, i)
    BY <2>2, Zenon DEF PrevHash, TheElement
  <2>4. PICK j \in before : PrevHash(log, 1, i) = log[j].hash
    BY <2>3, Zenon DEF Nearest
  <2>5. log[j].hash = ChainHash(PrevHash(log, 1, j), written[j])
    BY DEF ChainedRows, IInv, ChainBinds
  <2>6. ChainHash(PrevHash(log, 1, j), written[j]) # Genesis
    BY DEF ChainHash, Genesis
  <2> QED
    BY <1>3, <2>4, <2>5, <2>6
<1> QED
    BY <1>2, <1>3

\* The rows at which a walk finds a hash it did not expect, from any row.
LEMMA MismatchesReportable ==
    ASSUME IInv, NEW from \in Nat, from >= 1
    PROVE  Mismatches(log, from) = Reportable(from)
<1> DEFINE W == ChainedRows(log, from, Len(log) + 1)
<1>1. Len(log) \in Nat /\ DOMAIN log = 1 .. Len(log)
    BY DEF IInv, Shape
<1>2. ASSUME NEW i \in W
      PROVE  (log[i].hash # ChainHash(PrevHash(log, from, i), log[i].detail)
              <=> \/ i \in Edited
                  \/ (\A j \in W : i <= j) /\ ChainedRows(log, 1, from) # {})
  <2>1. i \in Nat /\ i \in DOMAIN log /\ from <= i /\ i <= Len(log) /\ log[i].chained
    BY <1>1 DEF ChainedRows
  <2>2. log[i].hash = ChainHash(PrevHash(log, 1, i), written[i])
    BY <2>1 DEF IInv, ChainBinds
  <2>3. log[i].hash # ChainHash(PrevHash(log, from, i), log[i].detail)
        <=> PrevHash(log, 1, i) # PrevHash(log, from, i) \/ i \in Edited
    BY <2>1, <2>2 DEF ChainHash, Edited
  <2>4. (\A j \in W : i <= j) <=> ChainedRows(log, from, i) = {}
    BY <1>1, <2>1 DEF ChainedRows
  <2>5. CASE ChainedRows(log, from, i) # {}
    <3>1. PrevHash(log, from, i) = PrevHash(log, 1, i)
      BY <2>1, <2>5, NearestInWindow DEF IInv
    <3> QED
      BY <2>3, <2>4, <2>5, <3>1
  <2>6. CASE ChainedRows(log, from, i) = {}
    <3>1. Nearest(log, from, i) = {}
      BY <2>6, Zenon DEF Nearest
    <3>2. PrevHash(log, from, i) = Genesis
      BY <3>1 DEF PrevHash
    <3>3. ChainedRows(log, 1, i) = ChainedRows(log, 1, from)
      BY <1>1, <2>1, <2>6 DEF ChainedRows
    <3>4. PrevHash(log, 1, i) = Genesis <=> ChainedRows(log, 1, from) = {}
      BY <2>1, <3>3, GenesisOnlyFirst
    <3> QED
      BY <2>3, <2>4, <2>6, <3>2, <3>4
  <2> QED
    BY <2>5, <2>6
<1>3. Mismatches(log, from)
      = {i \in W : i \in Edited \/ ((\A j \in W : i <= j) /\ ChainedRows(log, 1, from) # {})}
    BY <1>2, Zenon DEF Mismatches
<1>4. Reportable(from)
      = {i \in W : i \in Edited \/ ((\A j \in W : i <= j) /\ ChainedRows(log, 1, from) # {})}
  <2> HIDE DEF W
  <2> QED
    BY Zenon DEF Reportable, W
<1> QED
    BY <1>3, <1>4

\* verifyAuditChain, started at any row, reports the first row edited since, or
\* the first chained row of its window when the chain began before the window,
\* whichever comes first, and nothing when there is neither.
THEOREM VerificationExact == Spec => []VerifyExact
<1>1. ASSUME IInv PROVE VerifyExact
  <2> SUFFICES ASSUME NEW from \in DOMAIN log \cup {1}
               PROVE  IF Reportable(from) = {} THEN BrokenAt(log, from) = 0
                      ELSE /\ BrokenAt(log, from) \in Reportable(from)
                           /\ \A i \in Reportable(from) : BrokenAt(log, from) <= i
    BY Zenon DEF VerifyExact
  <2>1. from \in Nat /\ from >= 1
    BY <1>1 DEF IInv, Shape
  <2>2. Mismatches(log, from) = Reportable(from)
    BY <1>1, <2>1, MismatchesReportable
  <2>3. Mismatches(log, from) \in SUBSET Nat
    BY <1>1 DEF IInv, Shape, Mismatches, ChainedRows
  <2>4. CASE Mismatches(log, from) = {}
    BY <2>2, <2>4 DEF BrokenAt
  <2>5. CASE Mismatches(log, from) # {}
    <3>1. \E i \in Mismatches(log, from) : \A k \in Mismatches(log, from) : i <= k
      BY <2>3, <2>5, LeastExists, Zenon
    <3>2. /\ BrokenAt(log, from) \in Mismatches(log, from)
          /\ \A k \in Mismatches(log, from) : BrokenAt(log, from) <= k
      BY <2>5, <3>1, Zenon DEF BrokenAt
    <3> QED
      BY <2>2, <2>5, <3>2, Zenon
  <2> QED
    BY <2>4, <2>5
<1> QED
    BY <1>1, ChainInvariant, PTL

------------------------------------------------------------------------------
(* The schema *)

\* s is a sequence of n entries.
Listing(s, n) == s \in Seq({s[i] : i \in 1..n}) /\ Len(s) = n

\* A function on 1..n is one.
LEMMA Listed ==
    ASSUME NEW n \in Nat, NEW s, DOMAIN s = 1..n, s = [i \in 1..n |-> s[i]]
    PROVE  Listing(s, n)
<1> DEFINE S == {s[i] : i \in 1..n}
<1>1. s \in [1..n -> S]
    OBVIOUS
<1>2. s \in Seq(S)
    BY <1>1, SeqDef
<1> HIDE DEF S
<1>3. Len(s) = n
    BY <1>1, <1>2
<1> QED BY <1>2, <1>3 DEF Listing, S

\* The concatenation, by a name of its own.
Then(s, t) == s \o t

\* The entries of two sequences of statements put together.
LEMMA Join ==
    ASSUME NEW n \in Nat, NEW m \in Nat, NEW s, NEW t, Listing(s, n), Listing(t, m)
    PROVE  /\ Listing(Then(s, t), n + m)
           /\ \A i \in 1..n : Then(s, t)[i] = s[i]
           /\ \A i \in 1..m : Then(s, t)[n + i] = t[i]
<1> DEFINE S == {s[i] : i \in 1..n} \cup {t[i] : i \in 1..m}
           u == s \o t
<1>1. s \in Seq(S) /\ t \in Seq(S) /\ Len(s) = n /\ Len(t) = m
    BY SeqMonotonic DEF Listing
<1> HIDE DEF S
<1>2. /\ u \in Seq(S) /\ Len(u) = n + m
      /\ \A i \in 1..(n + m) : u[i] = IF i <= n THEN s[i] ELSE t[i - n]
    BY <1>1, ConcatProperties
<1>3. /\ \A i \in 1..n : u[i] = s[i]
      /\ \A i \in 1..m : u[n + i] = t[i]
    <2> HIDE DEF u
    <2>1. ASSUME NEW i \in 1..n PROVE u[i] = s[i]
        <3>1. i \in 1..(n + m) /\ i <= n
            OBVIOUS
        <3> QED BY <1>2, <3>1
    <2>2. ASSUME NEW i \in 1..m PROVE u[n + i] = t[i]
        <3>1. n + i \in 1..(n + m) /\ ~(n + i <= n) /\ (n + i) - n = i
            OBVIOUS
        <3> QED BY <1>2, <3>1
    <2> QED BY <2>1, <2>2
<1>4. DOMAIN u = 1..(n + m) /\ u = [i \in 1..(n + m) |-> u[i]]
    BY <1>2, LenProperties
<1>5. Listing(u, n + m)
    <2>1. n + m \in Nat
        OBVIOUS
    <2> HIDE DEF u
    <2> QED BY <2>1, <1>4, Listed
<1>6. u = Then(s, t)
    BY DEF Then
<1> HIDE DEF u
<1> QED BY <1>3, <1>5, <1>6

\* What the step property needs to know of the i-th statement of a start.
Fits(st, i) ==
    /\ st.do \in CASE i < 25 -> {"table"}
                  [] i = 25 -> {"rename"}       [] i = 26 -> {"create"}
                  [] i = 27 -> {"copy"}         [] i = 28 -> {"drop"}
                  [] i = 50 -> {"dropIndex"}    [] i = 51 -> {"makeIndex"}
                  [] i = 60 -> {"backfill"}     [] i = 61 -> {"column"}
                  [] i = 62 -> {"table"}
                  [] i = 63 -> {"dropTriggers"} [] i = 64 -> {"makeTriggers"}
                  [] i = 65 -> {"fill"}         [] OTHER -> {"table", "column"}
    /\ i = 3 => st.on = "mem_observations"
    /\ i = 8 => st.on = "mem_vectors"
    /\ i = 61 => st.on = "archived_at"
    /\ i = 62 => st.on = "mem_observations_fts"

\* n statements that fit behind the first `from' ones.
Part(s, from, n) == Listing(s, n) /\ \A i \in 1..n : Fits(s[i], from + i)

\* Two blocks of statements that fit at their places fit together.
LEMMA JoinParts ==
    ASSUME NEW from \in Nat, NEW n \in Nat, NEW m \in Nat, NEW s, NEW t,
           NEW next, next = from + n, NEW k, k = n + m,
           Part(s, from, n), Part(t, next, m)
    PROVE  Part(Then(s, t), from, k)
<1>1. Listing(s, n) /\ Listing(t, m)
    BY DEF Part
<1>2. /\ Listing(Then(s, t), n + m)
      /\ \A i \in 1..n : Then(s, t)[i] = s[i]
      /\ \A i \in 1..m : Then(s, t)[n + i] = t[i]
    BY <1>1, Join
<1>3. ASSUME NEW i \in 1..k PROVE Fits(Then(s, t)[i], from + i)
    <2>1. CASE i <= n
        BY <1>2, <2>1 DEF Part
    <2>2. CASE i > n
        <3>1. i - n \in 1..m /\ n + (i - n) = i /\ next + (i - n) = from + i
            BY <2>2
        <3>2. Then(s, t)[i] = t[i - n]
            BY <1>2, <3>1
        <3> QED BY <3>1, <3>2 DEF Part
    <2> QED BY <2>1, <2>2
<1> QED BY <1>2, <1>3 DEF Part

\* A block fits where its entries do: CREATE TABLE statements ...
LEMMA CreatePart ==
    ASSUME NEW from \in Nat, NEW n \in Nat, NEW names, DOMAIN names = 1..n,
           \A i \in 1..n : Fits([do |-> "table", on |-> names[i]], from + i)
    PROVE  Part(Create(names), from, n)
<1>1. DOMAIN Create(names) = 1..n /\ Create(names) = [i \in 1..n |-> Create(names)[i]]
    BY DEF Create
<1>2. \A i \in 1..n : Create(names)[i] = [do |-> "table", on |-> names[i]]
    BY DEF Create
<1>3. Listing(Create(names), n)
    BY <1>1, Listed
<1> QED BY <1>2, <1>3 DEF Part

\* ... of ALTER TABLE statements ...
LEMMA AddPart ==
    ASSUME NEW from \in Nat, NEW n \in Nat, NEW names, DOMAIN names = 1..n,
           \A i \in 1..n : Fits([do |-> "column", on |-> names[i]], from + i)
    PROVE  Part(Add(names), from, n)
<1>1. DOMAIN Add(names) = 1..n /\ Add(names) = [i \in 1..n |-> Add(names)[i]]
    BY DEF Add
<1>2. \A i \in 1..n : Add(names)[i] = [do |-> "column", on |-> names[i]]
    BY DEF Add
<1>3. Listing(Add(names), n)
    BY <1>1, Listed
<1> QED BY <1>2, <1>3 DEF Part

\* ... and of the others.
LEMMA DoPart ==
    ASSUME NEW from \in Nat, NEW n \in Nat, NEW what, DOMAIN what = 1..n,
           \A i \in 1..n : Fits([do |-> what[i], on |-> ""], from + i)
    PROVE  Part(Do(what), from, n)
<1>1. DOMAIN Do(what) = 1..n /\ Do(what) = [i \in 1..n |-> Do(what)[i]]
    BY DEF Do
<1>2. \A i \in 1..n : Do(what)[i] = [do |-> what[i], on |-> ""]
    BY DEF Do
<1>3. Listing(Do(what), n)
    BY <1>1, Listed
<1> QED BY <1>2, <1>3 DEF Part

\* The statements of a start, block by block: their kinds at their places.
LEMMA Blocks ==
    /\ Part(RecordTables, 0, 6)
    /\ Part(DerivedTables, 6, 4)
    /\ Part(ServiceTables, 10, 9)
    /\ Part(CoordinationTables, 19, 5)
    /\ Part(VectorSteps, 24, 4)
    /\ Part(FirstColumns, 28, 3)
    /\ Part(FactAndUseColumns, 31, 6)
    /\ Part(AuditAndTypeColumns, 37, 4)
    /\ Part(TeamTablesAgain, 41, 3)
    /\ Part(TextColumns, 44, 2)
    /\ Part(NuggetTablesAgain, 46, 2)
    /\ Part(DedupeSteps, 48, 3)
    /\ Part(ScopeColumns, 51, 4)
    /\ Part(RelationTableAgain, 55, 1)
    /\ Part(TemporalSteps, 56, 4)
    /\ Part(ArchiveColumn, 60, 1)
    /\ Part(FtsSteps, 61, 4)
<1>1. Part(RecordTables, 0, 6)
    <2> DEFINE list == <<"mem_sessions", "mem_events", "mem_observations",
                       "mem_tags", "mem_entities", "mem_observation_entities">>
    <2>1. DOMAIN list = 1..6 /\ RecordTables = Create(list)
        BY DEF RecordTables
    <2>2. \A i \in 1..6 : Fits([do |-> "table", on |-> list[i]], 0 + i)
        BY DEF Fits
    <2> HIDE DEF list
    <2> QED BY <2>1, <2>2, CreatePart
<1>2. Part(DerivedTables, 6, 4)
    <2> DEFINE list == <<"mem_links", "mem_vectors", "mem_facts", "mem_relations">>
    <2>1. DOMAIN list = 1..4 /\ DerivedTables = Create(list)
        BY DEF DerivedTables
    <2>2. \A i \in 1..4 : Fits([do |-> "table", on |-> list[i]], 6 + i)
        BY DEF Fits
    <2> HIDE DEF list
    <2> QED BY <2>1, <2>2, CreatePart
<1>3. Part(ServiceTables, 10, 9)
    <2> DEFINE list == <<"mem_audit_log", "mem_consolidation_queue",
                       "mem_retry_queue", "mem_ingest_offsets", "mem_meta",
                       "mem_import_jobs", "mem_vectors_vec_map", "mem_nuggets",
                       "mem_nugget_vectors">>
    <2>1. DOMAIN list = 1..9 /\ ServiceTables = Create(list)
        BY DEF ServiceTables
    <2>2. \A i \in 1..9 : Fits([do |-> "table", on |-> list[i]], 10 + i)
        BY DEF Fits
    <2> HIDE DEF list
    <2> QED BY <2>1, <2>2, CreatePart
<1>4. Part(CoordinationTables, 19, 5)
    <2> DEFINE list == <<"mem_teams", "mem_team_members", "mem_team_invitations",
                       "mem_leases", "mem_signals">>
    <2>1. DOMAIN list = 1..5 /\ CoordinationTables = Create(list)
        BY DEF CoordinationTables
    <2>2. \A i \in 1..5 : Fits([do |-> "table", on |-> list[i]], 19 + i)
        BY DEF Fits
    <2> HIDE DEF list
    <2> QED BY <2>1, <2>2, CreatePart
<1>5. Part(VectorSteps, 24, 4)
    <2> DEFINE list == <<"rename", "create", "copy", "drop">>
    <2>1. DOMAIN list = 1..4 /\ VectorSteps = Do(list)
        BY DEF VectorSteps
    <2>2. \A i \in 1..4 : Fits([do |-> list[i], on |-> ""], 24 + i)
        BY DEF Fits
    <2> HIDE DEF list
    <2> QED BY <2>1, <2>2, DoPart
<1>6. Part(FirstColumns, 28, 3)
    <2> DEFINE list == <<"observation_type", "correlation_id", "tenant">>
    <2>1. DOMAIN list = 1..3 /\ FirstColumns = Add(list)
        BY DEF FirstColumns
    <2>2. \A i \in 1..3 : Fits([do |-> "column", on |-> list[i]], 28 + i)
        BY DEF Fits
    <2> HIDE DEF list
    <2> QED BY <2>1, <2>2, AddPart
<1>7. Part(FactAndUseColumns, 31, 6)
    <2> DEFINE list == <<"superseded_by", "fact_validity", "signal_score",
                       "access_count", "user_and_team", "cognitive_sector">>
    <2>1. DOMAIN list = 1..6 /\ FactAndUseColumns = Add(list)
        BY DEF FactAndUseColumns
    <2>2. \A i \in 1..6 : Fits([do |-> "column", on |-> list[i]], 31 + i)
        BY DEF Fits
    <2> HIDE DEF list
    <2> QED BY <2>1, <2>2, AddPart
<1>8. Part(AuditAndTypeColumns, 37, 4)
    <2> DEFINE A == <<"prev_hash", "memory_type">>
               B == <<"mem_sync_connections">>
               C == <<"workspace_uid">>
    <2>1. Part(Add(A), 37, 2)
        <3>1. DOMAIN A = 1..2
            OBVIOUS
        <3>2. \A i \in 1..2 : Fits([do |-> "column", on |-> A[i]], 37 + i)
            BY DEF Fits
        <3> HIDE DEF A
        <3> QED BY <3>1, <3>2, AddPart
    <2>2. Part(Create(B), 39, 1)
        <3>1. DOMAIN B = 1..1
            OBVIOUS
        <3>2. \A i \in 1..1 : Fits([do |-> "table", on |-> B[i]], 39 + i)
            BY DEF Fits
        <3> HIDE DEF B
        <3> QED BY <3>1, <3>2, CreatePart
    <2>3. Part(Add(C), 40, 1)
        <3>1. DOMAIN C = 1..1
            OBVIOUS
        <3>2. \A i \in 1..1 : Fits([do |-> "column", on |-> C[i]], 40 + i)
            BY DEF Fits
        <3> HIDE DEF C
        <3> QED BY <3>1, <3>2, AddPart
    <2>4. Part(Then(Add(A), Create(B)), 37, 3)
        BY <2>1, <2>2, JoinParts
    <2>5. Part(Then(Then(Add(A), Create(B)), Add(C)), 37, 4)
        BY <2>4, <2>3, JoinParts
    <2> QED BY <2>5 DEF AuditAndTypeColumns, Then
<1>9. Part(TeamTablesAgain, 41, 3)
    <2> DEFINE list == <<"mem_teams", "mem_team_members", "mem_team_invitations">>
    <2>1. DOMAIN list = 1..3 /\ TeamTablesAgain = Create(list)
        BY DEF TeamTablesAgain
    <2>2. \A i \in 1..3 : Fits([do |-> "table", on |-> list[i]], 41 + i)
        BY DEF Fits
    <2> HIDE DEF list
    <2> QED BY <2>1, <2>2, CreatePart
<1>10. Part(TextColumns, 44, 2)
    <2> DEFINE list == <<"title_fts", "content_fts">>
    <2>1. DOMAIN list = 1..2 /\ TextColumns = Add(list)
        BY DEF TextColumns
    <2>2. \A i \in 1..2 : Fits([do |-> "column", on |-> list[i]], 44 + i)
        BY DEF Fits
    <2> HIDE DEF list
    <2> QED BY <2>1, <2>2, AddPart
<1>11. Part(NuggetTablesAgain, 46, 2)
    <2> DEFINE list == <<"mem_nuggets", "mem_nugget_vectors">>
    <2>1. DOMAIN list = 1..2 /\ NuggetTablesAgain = Create(list)
        BY DEF NuggetTablesAgain
    <2>2. \A i \in 1..2 : Fits([do |-> "table", on |-> list[i]], 46 + i)
        BY DEF Fits
    <2> HIDE DEF list
    <2> QED BY <2>1, <2>2, CreatePart
<1>12. Part(DedupeSteps, 48, 3)
    <2> DEFINE A == <<"content_dedupe_hash">>
               B == <<"dropIndex", "makeIndex">>
    <2>1. Part(Add(A), 48, 1)
        <3>1. DOMAIN A = 1..1
            OBVIOUS
        <3>2. \A i \in 1..1 : Fits([do |-> "column", on |-> A[i]], 48 + i)
            BY DEF Fits
        <3> HIDE DEF A
        <3> QED BY <3>1, <3>2, AddPart
    <2>2. Part(Do(B), 49, 2)
        <3>1. DOMAIN B = 1..2
            OBVIOUS
        <3>2. \A i \in 1..2 : Fits([do |-> B[i], on |-> ""], 49 + i)
            BY DEF Fits
        <3> HIDE DEF B
        <3> QED BY <3>1, <3>2, DoPart
    <2>3. Part(Then(Add(A), Do(B)), 48, 3)
        BY <2>1, <2>2, JoinParts
    <2> QED BY <2>3 DEF DedupeSteps, Then
<1>13. Part(ScopeColumns, 51, 4)
    <2> DEFINE list == <<"raw_text", "thread_and_topic", "expires_at", "branch">>
    <2>1. DOMAIN list = 1..4 /\ ScopeColumns = Add(list)
        BY DEF ScopeColumns
    <2>2. \A i \in 1..4 : Fits([do |-> "column", on |-> list[i]], 51 + i)
        BY DEF Fits
    <2> HIDE DEF list
    <2> QED BY <2>1, <2>2, AddPart
<1>14. Part(RelationTableAgain, 55, 1)
    <2> DEFINE list == <<"mem_relations">>
    <2>1. DOMAIN list = 1..1 /\ RelationTableAgain = Create(list)
        BY DEF RelationTableAgain
    <2>2. \A i \in 1..1 : Fits([do |-> "table", on |-> list[i]], 55 + i)
        BY DEF Fits
    <2> HIDE DEF list
    <2> QED BY <2>1, <2>2, CreatePart
<1>15. Part(TemporalSteps, 56, 4)
    <2> DEFINE A == <<"event_time", "observed_at", "invalidated_at">>
               B == <<"backfill">>
    <2>1. Part(Add(A), 56, 3)
        <3>1. DOMAIN A = 1..3
            OBVIOUS
        <3>2. \A i \in 1..3 : Fits([do |-> "column", on |-> A[i]], 56 + i)
            BY DEF Fits
        <3> HIDE DEF A
        <3> QED BY <3>1, <3>2, AddPart
    <2>2. Part(Do(B), 59, 1)
        <3>1. DOMAIN B = 1..1
            OBVIOUS
        <3>2. \A i \in 1..1 : Fits([do |-> B[i], on |-> ""], 59 + i)
            BY DEF Fits
        <3> HIDE DEF B
        <3> QED BY <3>1, <3>2, DoPart
    <2>3. Part(Then(Add(A), Do(B)), 56, 4)
        BY <2>1, <2>2, JoinParts
    <2> QED BY <2>3 DEF TemporalSteps, Then
<1>16. Part(ArchiveColumn, 60, 1)
    <2> DEFINE list == <<"archived_at">>
    <2>1. DOMAIN list = 1..1 /\ ArchiveColumn = Add(list)
        BY DEF ArchiveColumn
    <2>2. \A i \in 1..1 : Fits([do |-> "column", on |-> list[i]], 60 + i)
        BY DEF Fits
    <2> HIDE DEF list
    <2> QED BY <2>1, <2>2, AddPart
<1>17. Part(FtsSteps, 61, 4)
    <2> DEFINE A == <<"mem_observations_fts">>
               B == <<"dropTriggers", "makeTriggers", "fill">>
    <2>1. Part(Create(A), 61, 1)
        <3>1. DOMAIN A = 1..1
            OBVIOUS
        <3>2. \A i \in 1..1 : Fits([do |-> "table", on |-> A[i]], 61 + i)
            BY DEF Fits
        <3> HIDE DEF A
        <3> QED BY <3>1, <3>2, CreatePart
    <2>2. Part(Do(B), 62, 3)
        <3>1. DOMAIN B = 1..3
            OBVIOUS
        <3>2. \A i \in 1..3 : Fits([do |-> B[i], on |-> ""], 62 + i)
            BY DEF Fits
        <3> HIDE DEF B
        <3> QED BY <3>1, <3>2, DoPart
    <2>3. Part(Then(Create(A), Do(B)), 61, 4)
        BY <2>1, <2>2, JoinParts
    <2> QED BY <2>3 DEF FtsSteps, Then
<1> QED BY <1>1, <1>2, <1>3, <1>4, <1>5, <1>6, <1>7, <1>8, <1>9, <1>10, <1>11, <1>12,
           <1>13, <1>14, <1>15, <1>16, <1>17

\* The list of a start has 65 statements, each of the kind of its place.
LEMMA PlanFits == PlanLength = 65 /\ \A i \in 1..65 : Fits(Plan[i], i)
<1> DEFINE P1 == RecordTables
           P2 == Then(P1, DerivedTables)
           P3 == Then(P2, ServiceTables)
           P4 == Then(P3, CoordinationTables)
           P5 == Then(P4, VectorSteps)
           P6 == Then(P5, FirstColumns)
           P7 == Then(P6, FactAndUseColumns)
           P8 == Then(P7, AuditAndTypeColumns)
           P9 == Then(P8, TeamTablesAgain)
           P10 == Then(P9, TextColumns)
           P11 == Then(P10, NuggetTablesAgain)
           P12 == Then(P11, DedupeSteps)
           P13 == Then(P12, ScopeColumns)
           P14 == Then(P13, RelationTableAgain)
           P15 == Then(P14, TemporalSteps)
           P16 == Then(P15, ArchiveColumn)
           P17 == Then(P16, FtsSteps)
<1>1. Plan = P17
    BY DEF Plan, Then
<1>2. Part(P1, 0, 6)
    BY Blocks
<1> HIDE DEF P1, P2, P3, P4, P5, P6, P7, P8, P9, P10, P11, P12, P13, P14, P15, P16, P17
<1>3. Part(P2, 0, 10)
    BY <1>2, Blocks, JoinParts DEF P2
<1>4. Part(P3, 0, 19)
    BY <1>3, Blocks, JoinParts DEF P3
<1>5. Part(P4, 0, 24)
    BY <1>4, Blocks, JoinParts DEF P4
<1>6. Part(P5, 0, 28)
    BY <1>5, Blocks, JoinParts DEF P5
<1>7. Part(P6, 0, 31)
    BY <1>6, Blocks, JoinParts DEF P6
<1>8. Part(P7, 0, 37)
    BY <1>7, Blocks, JoinParts DEF P7
<1>9. Part(P8, 0, 41)
    BY <1>8, Blocks, JoinParts DEF P8
<1>10. Part(P9, 0, 44)
    BY <1>9, Blocks, JoinParts DEF P9
<1>11. Part(P10, 0, 46)
    BY <1>10, Blocks, JoinParts DEF P10
<1>12. Part(P11, 0, 48)
    BY <1>11, Blocks, JoinParts DEF P11
<1>13. Part(P12, 0, 51)
    BY <1>12, Blocks, JoinParts DEF P12
<1>14. Part(P13, 0, 55)
    BY <1>13, Blocks, JoinParts DEF P13
<1>15. Part(P14, 0, 56)
    BY <1>14, Blocks, JoinParts DEF P14
<1>16. Part(P15, 0, 60)
    BY <1>15, Blocks, JoinParts DEF P15
<1>17. Part(P16, 0, 61)
    BY <1>16, Blocks, JoinParts DEF P16
<1>18. Part(P17, 0, 65)
    BY <1>17, Blocks, JoinParts DEF P17
<1> QED BY <1>1, <1>18 DEF PlanLength, Part, Listing

\* Which statement is at the i-th place, where the invariant tells places apart.
KindsAt(i) ==
    /\ i < 25 => Plan[i].do = "table"
    /\ i = 3 => Plan[i].on = "mem_observations"
    /\ i = 8 => Plan[i].on = "mem_vectors"
    /\ i = 61 => Plan[i].do = "column" /\ Plan[i].on = "archived_at"
    /\ i = 62 => Plan[i].do = "table" /\ Plan[i].on = "mem_observations_fts"
    /\ i = 25 <=> Plan[i].do = "rename"
    /\ i = 26 <=> Plan[i].do = "create"
    /\ i = 27 <=> Plan[i].do = "copy"
    /\ i = 28 <=> Plan[i].do = "drop"
    /\ i = 50 <=> Plan[i].do = "dropIndex"
    /\ i = 51 <=> Plan[i].do = "makeIndex"
    /\ i = 60 <=> Plan[i].do = "backfill"
    /\ i = 63 <=> Plan[i].do = "dropTriggers"
    /\ i = 64 <=> Plan[i].do = "makeTriggers"
    /\ i = 65 <=> Plan[i].do = "fill"

\* The same, place by place.
LEMMA PlanKinds == PlanLength = 65 /\ PlanLength' = 65 /\ \A i \in 1..65 : KindsAt(i)
<1>1. ASSUME NEW i \in 1..65 PROVE KindsAt(i)
    <2> DEFINE d == Plan[i].do
               o == Plan[i].on
    <2>1. /\ i = 3 => o = "mem_observations"
          /\ i = 8 => o = "mem_vectors"
          /\ i = 61 => o = "archived_at"
          /\ i = 62 => o = "mem_observations_fts"
          /\ d \in CASE i < 25 -> {"table"}
                  [] i = 25 -> {"rename"}       [] i = 26 -> {"create"}
                  [] i = 27 -> {"copy"}         [] i = 28 -> {"drop"}
                  [] i = 50 -> {"dropIndex"}    [] i = 51 -> {"makeIndex"}
                  [] i = 60 -> {"backfill"}     [] i = 61 -> {"column"}
                  [] i = 62 -> {"table"}
                  [] i = 63 -> {"dropTriggers"} [] i = 64 -> {"makeTriggers"}
                  [] i = 65 -> {"fill"}         [] OTHER -> {"table", "column"}
        BY PlanFits, Zenon DEF Fits
    <2> HIDE DEF d, o
    <2>2. /\ i < 25 => d = "table"
          /\ i = 25 <=> d = "rename"
          /\ i = 26 <=> d = "create"
          /\ i = 27 <=> d = "copy"
          /\ i = 28 <=> d = "drop"
          /\ i = 50 <=> d = "dropIndex"
          /\ i = 51 <=> d = "makeIndex"
          /\ i = 60 <=> d = "backfill"
          /\ i = 61 => d = "column"
          /\ i = 62 => d = "table"
          /\ i = 63 <=> d = "dropTriggers"
          /\ i = 64 <=> d = "makeTriggers"
          /\ i = 65 <=> d = "fill"
        BY <2>1
    <2> QED BY <2>1, <2>2 DEF d, o, KindsAt
<1>2. PlanLength' = 65
    BY PlanFits
<1> QED BY <1>1, <1>2, PlanFits

\* A new mem_observations has the column that the unique index needs.
LEMMA ArchivedIsBase ==
    /\ "archived_at" \in BaseColumns /\ BaseColumns \subseteq ColumnNames
<1>1. 61 \in 1..PlanLength /\ Plan[61].do = "column" /\ Plan[61].on = "archived_at"
    BY PlanKinds DEF KindsAt
<1>2. "archived_at" \in ColumnNames
    BY <1>1 DEF ColumnNames, Named
<1> QED BY <1>2 DEF BaseColumns

\* A table or column that a statement adds is one that this release uses.
LEMMA NamedIn ==
    ASSUME NEW i \in 1..PlanLength
    PROVE  /\ Plan[i].do = "table" => Plan[i].on \in TableNames
           /\ Plan[i].do = "column" => Plan[i].on \in ColumnNames
BY DEF TableNames, ColumnNames, Named

\* Every table and column that this release uses is added by a statement.
LEMMA NamedFrom ==
    /\ \A x \in TableNames : \E i \in 1..PlanLength : Plan[i].do = "table" /\ Plan[i].on = x
    /\ \A x \in ColumnNames : \E i \in 1..PlanLength : Plan[i].do = "column" /\ Plan[i].on = x
BY DEF TableNames, ColumnNames, Named

\* The tables of earlier releases are tables of this one.
LEMMA OldAreNamed == OldTables \subseteq TableNames
<1>1. Len(RecordTables \o DerivedTables) = 10
    <2>1. Part(Then(RecordTables, DerivedTables), 0, 10)
        <3>1. Part(RecordTables, 0, 6) /\ Part(DerivedTables, 6, 4)
            BY Blocks
        <3> QED BY <3>1, JoinParts
    <2> QED BY <2>1 DEF Part, Listing, Then
<1>2. \A i \in 1..10 : i \in 1..PlanLength /\ Plan[i].do = "table"
    BY PlanKinds DEF KindsAt
<1> QED BY <1>1, <1>2, NamedIn DEF OldTables
\* The types that the steps below rely on.
SchemaTyped ==
    /\ step \in 0..(PlanLength + 1) /\ starts \in Nat /\ completed \in Nat
    /\ tables \subseteq TableNames /\ columns \subseteq ColumnNames
    /\ vectors \subseteq Row /\ legacy \in (SUBSET Row) \cup {NoTable}
    /\ rows \in [DOMAIN rows -> [text : Text, observed : BOOLEAN]]

\* A statement that ran left what it creates, but for mem_vectors between its
\* renaming and its creation.
StatementsLast ==
    \A i \in 1..PlanLength : i < step =>
        /\ Plan[i].do = "table" => \/ Plan[i].on \in tables
                                   \/ Plan[i].on = "mem_vectors" /\ step = 26
        /\ Plan[i].do = "column" => Plan[i].on \in columns

\* The rows and their index, by how far the start has come.
TextsFollow ==
    /\ step > 60 => \A r \in DOMAIN rows : rows[r].observed
    /\ step > 64 => triggers
    /\ \/ fts = <<>> /\ step < PlanLength + 1
       \/ fts = [r \in DOMAIN rows |-> rows[r].text]

\* Every vector is in one of the two tables. Only between the renaming and the
\* copy are others in the renamed one than those of a rebuild that was cut off.
VectorsAccounted ==
    /\ embedded \subseteq vectors \cup (IF legacy = NoTable THEN {} ELSE legacy)
    /\ step \notin {26, 27} => embedded \ stranded \subseteq vectors

\* A legacy table is only there beside one with the new key, or with none.
VectorsFollow ==
    /\ VectorsAccounted
    /\ legacy # NoTable =>
           vectorKey = "observation and model" \/ "mem_vectors" \notin tables
    /\ step = 28 => legacy = NoTable \/ legacy \subseteq vectors

\* The index is missing where the start is between dropping and making it, and
\* where no start came to the column it is partial on.
IndexFollows ==
    /\ completed > 0 => "archived_at" \in columns
    /\ completed > 0 /\ step \in 52..PlanLength => dedupeIndex
    /\ DedupeIndexBack

\* The inductive invariant of SchemaMigration.
SchemaInv == SchemaTyped /\ StatementsLast /\ TextsFollow /\ VectorsFollow /\ IndexFollows

\* A statement that leaves what it is to create keeps all that ran before.
LEMMA StatementRan ==
    ASSUME SchemaInv, step \in 1..PlanLength, step # 25, step' = step + 1,
           tables \subseteq tables', columns \subseteq columns',
           Plan[step].do = "table" => Plan[step].on \in tables',
           Plan[step].do = "column" => Plan[step].on \in columns',
           step = 26 => "mem_vectors" \in tables'
    PROVE  StatementsLast'
<1>1. SUFFICES ASSUME NEW i \in 1..PlanLength, i < step'
               PROVE  /\ Plan[i].do = "table" => Plan[i].on \in tables'
                      /\ Plan[i].do = "column" => Plan[i].on \in columns'
    BY DEF StatementsLast
<1>2. i < step \/ i = step
    BY <1>1, PlanKinds
<1>3. CASE i = step
    BY <1>3
<1>4. CASE i < step
    <2>1. /\ Plan[i].do = "table" => \/ Plan[i].on \in tables
                                     \/ Plan[i].on = "mem_vectors" /\ step = 26
          /\ Plan[i].do = "column" => Plan[i].on \in columns
        BY <1>4 DEF SchemaInv, StatementsLast
    <2> QED BY <2>1
<1> QED BY <1>2, <1>3, <1>4

\* Every file that a release left, and no file, is a start of the invariant.
LEMMA SchemaStart == SchemaInit => SchemaInv
<1> SUFFICES ASSUME SchemaInit PROVE SchemaInv
    OBVIOUS
<1> USE SchemaAssumption
<1>1. PlanLength = 65
    BY PlanKinds
<1>2. /\ tables \subseteq TableNames /\ columns \subseteq ColumnNames
      /\ rows \in [DOMAIN rows -> [text : {0}, observed : BOOLEAN]]
      /\ DOMAIN rows \subseteq Row
    <2>1. "mem_observations_fts" \in TableNames
        <3>1. 62 \in 1..PlanLength /\ Plan[62].do = "table" /\ Plan[62].on = "mem_observations_fts"
            BY PlanKinds DEF KindsAt
        <3> QED BY <3>1, NamedIn
    <2>2. CASE tables = {} /\ columns = {} /\ rows = <<>>
        <3>1. DOMAIN rows = {}
            BY <2>2
        <3>2. rows \in [{} -> [text : {0}, observed : BOOLEAN]]
            BY <2>2
        <3> QED BY <2>2, <3>1, <3>2
    <2>3. CASE ~(tables = {} /\ columns = {} /\ rows = <<>>)
        <3>1. /\ tables \in {OldTables, OldTables \cup {"mem_observations_fts"}}
              /\ columns \in Release
              /\ rows \in UNION
                     {[R -> [text : {0},
                             observed : {x \in BOOLEAN : x <=> "observed_at" \in columns}]] :
                         R \in SUBSET Row}
            BY <2>3 DEF SchemaInit
        <3>2. PICK R \in SUBSET Row :
                  rows \in [R -> [text : {0},
                                 observed : {x \in BOOLEAN : x <=> "observed_at" \in columns}]]
            BY <3>1, Zenon
        <3>3. DOMAIN rows = R /\ rows \in [R -> [text : {0}, observed : BOOLEAN]]
            <4> DEFINE B == {x \in BOOLEAN : x <=> "observed_at" \in columns}
            <4>1. B \subseteq BOOLEAN /\ rows \in [R -> [text : {0}, observed : B]]
                BY <3>2
            <4> HIDE DEF B
            <4> QED BY <4>1
        <3> QED BY <3>1, <3>3, <2>1, OldAreNamed
    <2> QED BY <2>2, <2>3
<1>3. SchemaTyped
    <2>1. rows \in [DOMAIN rows -> [text : Text, observed : BOOLEAN]]
        BY <1>2 DEF Text
    <2>3. vectors \subseteq Row
        BY <1>2 DEF SchemaInit
    <2>2. step = 0 /\ starts = 0 /\ completed = 0 /\ legacy = NoTable
        BY DEF SchemaInit
    <2> QED BY <1>1, <1>2, <2>1, <2>2, <2>3 DEF SchemaTyped
<1>4. TextsFollow
    <2>1. \A r \in DOMAIN rows : rows[r].text = 0
        BY <1>2
    <2>2. [r \in DOMAIN rows |-> 0] = [r \in DOMAIN rows |-> rows[r].text]
        BY <2>1, Zenon
    <2>3. fts = <<>> \/ fts = [r \in DOMAIN rows |-> 0]
        BY DEF SchemaInit
    <2>4. step = 0
        BY DEF SchemaInit
    <2> QED BY <2>2, <2>3, <2>4, <1>1 DEF TextsFollow
<1>5. VectorsFollow
    BY DEF SchemaInit, VectorsFollow, VectorsAccounted
<1>6. StatementsLast /\ IndexFollows
    <2>1. step = 0 /\ completed = 0
        BY DEF SchemaInit
    <2> QED BY <2>1, <1>1 DEF StatementsLast, IndexFollows, DedupeIndexBack, Serving
<1> QED BY <1>3, <1>4, <1>5, <1>6 DEF SchemaInv

\* The place of each statement in the list.
LEMMA RunsAt ==
    ASSUME NEW what, NEW count, Run(what, count)
    PROVE  /\ step \in 1..65 /\ Plan[step].do = what /\ step' = step + count
           /\ completed' = IF step' > 65 THEN completed + 1 ELSE completed
           /\ UNCHANGED <<embedded, stranded, starts>>
           /\ what = "rename" <=> step = 25
           /\ what = "create" <=> step = 26
           /\ what = "copy" <=> step = 27
           /\ what = "drop" <=> step = 28
           /\ what = "dropIndex" <=> step = 50
           /\ what = "makeIndex" <=> step = 51
           /\ what = "backfill" <=> step = 60
           /\ what = "dropTriggers" <=> step = 63
           /\ what = "makeTriggers" <=> step = 64
           /\ what = "fill" <=> step = 65
<1>1. step \in 1..65 /\ Plan[step].do = what /\ PlanLength = 65
    BY PlanKinds DEF Run
<1>2. /\ Plan[step].do = "rename" <=> step = 25
      /\ Plan[step].do = "create" <=> step = 26
      /\ Plan[step].do = "copy" <=> step = 27
      /\ Plan[step].do = "drop" <=> step = 28
      /\ Plan[step].do = "dropIndex" <=> step = 50
      /\ Plan[step].do = "makeIndex" <=> step = 51
      /\ Plan[step].do = "backfill" <=> step = 60
      /\ Plan[step].do = "dropTriggers" <=> step = 63
      /\ Plan[step].do = "makeTriggers" <=> step = 64
      /\ Plan[step].do = "fill" <=> step = 65
    <2>1. KindsAt(step)
        BY <1>1, PlanKinds
    <2> QED BY <2>1, Zenon DEF KindsAt
<1> QED BY <1>1, <1>2 DEF Run

\* The parts of the invariant for steps that leave alone what they are about.
LEMMA TypedKept ==
    ASSUME SchemaTyped, step' \in 0..66, starts' \in Nat, completed' \in Nat,
           tables' \subseteq TableNames, columns' \subseteq ColumnNames,
           vectors' \subseteq Row, legacy' \in (SUBSET Row) \cup {NoTable},
           rows' = rows
    PROVE  SchemaTyped'
<1>1. rows' \in [DOMAIN rows' -> [text : Text, observed : BOOLEAN]]
    BY DEF SchemaTyped
<1>2. PlanLength' = 65
    BY PlanKinds
<1> QED BY <1>1, <1>2 DEF SchemaTyped

\* Rows, index and triggers left alone.
LEMMA TextsKept ==
    ASSUME TextsFollow, rows' = rows, fts' = fts, triggers' = triggers, step \in 0..66,
           step' > 60 => step > 60, step' > 64 => step > 64, step' \in 0..65
    PROVE  TextsFollow'
<1>1. PlanLength = 65 /\ PlanLength' = 65
    BY PlanKinds
<1>2. fts = <<>> \/ fts = [r \in DOMAIN rows |-> rows[r].text]
    BY DEF TextsFollow
<1>3. fts' = <<>> \/ fts' = [r \in DOMAIN rows' |-> rows'[r].text]
    BY <1>2, Zenon
<1>4. step' > 60 => \A r \in DOMAIN rows' : rows'[r].observed
    BY DEF TextsFollow
<1>5. (step > 64 => triggers)'
    BY DEF TextsFollow
<1>6. step' < PlanLength' + 1
    BY <1>1
<1> QED BY <1>3, <1>4, <1>5, <1>6 DEF TextsFollow

\* The two vector tables left alone.
LEMMA VectorsKept ==
    ASSUME VectorsFollow, embedded' = embedded, vectors' = vectors, legacy' = legacy,
           vectorKey' = vectorKey, tables' \subseteq tables \/ "mem_vectors" \in tables, step' # 28,
           stranded' = stranded, step \notin {26, 27}
    PROVE  VectorsFollow'
<1>1. VectorsAccounted'
    BY DEF VectorsFollow, VectorsAccounted
<1>2. (legacy # NoTable => vectorKey = "observation and model" \/ "mem_vectors" \notin tables)'
    BY DEF VectorsFollow
<1> QED BY <1>1, <1>2 DEF VectorsFollow

\* The unique index left alone, away from the end of a start.
LEMMA IndexKept ==
    ASSUME IndexFollows, completed' = completed, dedupeIndex' = dedupeIndex,
           "archived_at" \in columns => "archived_at" \in columns',
           step' \in 52..65 => step \in 52..65, step' # 66
    PROVE  IndexFollows'
<1>1. PlanLength = 65 /\ PlanLength' = 65
    BY PlanKinds
<1>2. DedupeIndexBack'
    BY <1>1 DEF DedupeIndexBack, Serving
<1> QED BY <1>1, <1>2 DEF IndexFollows

\* The statements of a start that touch neither rows nor vectors nor indexes.
LEMMA TableStep == SchemaInv /\ CreateTable => SchemaInv'
<1> SUFFICES ASSUME SchemaInv, CreateTable PROVE SchemaInv'
    OBVIOUS
<1> DEFINE t == Plan[step].on
<1>1. /\ step \in 1..65 /\ Plan[step].do = "table" /\ step' = step + 1
      /\ completed' = completed /\ embedded' = embedded /\ stranded' = stranded /\ starts' = starts
      /\ step \notin {25, 26, 27, 28, 50, 51, 60, 63, 64, 65}
    <2>1. Run("table", 1)
        BY DEF CreateTable
    <2>2. /\ step \in 1..65 /\ Plan[step].do = "table" /\ step' = step + 1
          /\ completed' = IF step' > 65 THEN completed + 1 ELSE completed
          /\ UNCHANGED <<embedded, stranded, starts>>
          /\ step \notin {25, 26, 27, 28, 50, 51, 60, 63, 64, 65}
        BY <2>1, RunsAt
    <2> QED BY <2>2
<1>2. /\ tables' = tables \cup {t}
      /\ columns' = IF t = "mem_observations" /\ t \notin tables
                    THEN BaseColumns ELSE columns
      /\ vectorKey' = IF t = "mem_vectors" /\ t \notin tables
                      THEN "observation and model" ELSE vectorKey
      /\ dedupeIndex' = dedupeIndex /\ vectors' = vectors /\ legacy' = legacy
      /\ rows' = rows /\ fts' = fts /\ triggers' = triggers
    BY DEF CreateTable
<1>3. PlanLength = 65 /\ PlanLength' = 65
    BY PlanKinds
<1>4. t \in TableNames
    BY <1>1, <1>3, NamedIn
<1>5. t = "mem_observations" /\ t \notin tables => step \in 1..3
    <2>1. Plan[3].do = "table" /\ Plan[3].on = "mem_observations"
        BY PlanKinds DEF KindsAt
    <2>2. 3 < step => "mem_observations" \in tables
        BY <2>1, <1>1, <1>3 DEF SchemaInv, StatementsLast
    <2> QED BY <2>2, <1>1
<1> HIDE DEF t
<1>6. SchemaTyped'
    <2>1. SchemaTyped
        BY DEF SchemaInv
    <2>2. /\ tables' \subseteq TableNames /\ columns' \subseteq ColumnNames
          /\ vectors' \subseteq Row /\ legacy' \in (SUBSET Row) \cup {NoTable}
          /\ starts' \in Nat /\ completed' \in Nat
        BY <1>1, <1>2, <1>4, <2>1, ArchivedIsBase DEF SchemaTyped
    <2>3. step' \in 0..66
        BY <1>1
    <2>4. rows' = rows
        BY <1>2
    <2> QED BY <2>1, <2>2, <2>3, <2>4, TypedKept
<1>7. StatementsLast'
    <2>1. CASE columns' = columns
        <3>1. /\ step \in 1..PlanLength /\ step # 25 /\ step # 26 /\ step' = step + 1
              /\ Plan[step].do # "column"
            BY <1>1, <1>3
        <3>2. tables \subseteq tables' /\ columns \subseteq columns' /\ t \in tables'
            BY <2>1, <1>2
        <3> QED BY <3>1, <3>2, StatementRan DEF t
    <2>2. CASE columns' # columns
        <3>1. step \in 1..3
            BY <2>2, <1>2, <1>5
        <3>2. \A i \in 1..PlanLength : i < step + 1 =>
                  Plan[i].do = "table" /\ (i < step => Plan[i].on \in tables)
            <4>1. ASSUME NEW i \in 1..PlanLength, i < step + 1
                  PROVE  Plan[i].do = "table" /\ (i < step => Plan[i].on \in tables)
                <5>1. i \in 1..65 /\ i < 25 /\ step # 26
                    BY <4>1, <3>1, <1>3
                <5>2. Plan[i].do = "table"
                    BY <5>1, PlanKinds DEF KindsAt
                <5>3. i < step => Plan[i].on \in tables
                    <6>1. StatementsLast
                        BY DEF SchemaInv
                    <6> QED BY <4>1, <5>1, <5>2, <6>1 DEF StatementsLast
                <5> QED BY <5>2, <5>3
            <4> QED BY <4>1
        <3>3. \A i \in 1..PlanLength : i < step + 1 => i < step \/ i = step
            BY <3>1, <1>3
        <3>4. \A i \in 1..PlanLength : i < step + 1 =>
                  Plan[i].do = "table" /\ Plan[i].on \in tables'
            BY <3>2, <3>3, <1>2 DEF t
        <3> QED BY <3>4, <1>1 DEF StatementsLast
    <2> QED BY <2>1, <2>2
<1>8. TextsFollow'
    <2>1. TextsFollow /\ rows' = rows /\ fts' = fts /\ triggers' = triggers
        BY <1>2 DEF SchemaInv
    <2>2. /\ step \in 0..66
          /\ step' > 60 => step > 60
          /\ step' > 64 => step > 64
          /\ step' \in 0..65
        BY <1>1
    <2> QED BY <2>1, <2>2, TextsKept
<1>9. VectorsFollow'
    <2>1. VectorsAccounted'
        BY <1>1, <1>2 DEF SchemaInv, VectorsFollow, VectorsAccounted
    <2>2. (legacy # NoTable => vectorKey = "observation and model" \/ "mem_vectors" \notin tables)'
        BY <1>1, <1>2 DEF SchemaInv, VectorsFollow
    <2>3. step' # 28
        BY <1>1
    <2> QED BY <2>1, <2>2, <2>3 DEF VectorsFollow
<1>10. IndexFollows'
    <2>1. "archived_at" \in columns => "archived_at" \in columns'
        BY <1>2, ArchivedIsBase
    <2>2. /\ step' \in 52..65 => step \in 52..65
          /\ step' # 66
        BY <1>1
    <2>3. IndexFollows /\ completed' = completed /\ dedupeIndex' = dedupeIndex
        BY <1>1, <1>2 DEF SchemaInv
    <2> QED BY <2>1, <2>2, <2>3, IndexKept
<1> QED BY <1>6, <1>7, <1>8, <1>9, <1>10 DEF SchemaInv
\* ALTER TABLE ADD COLUMN, also for a column that is there.
LEMMA ColumnStep == SchemaInv /\ AddColumnIfMissing => SchemaInv'
<1> SUFFICES ASSUME SchemaInv, AddColumnIfMissing PROVE SchemaInv'
    OBVIOUS
<1> DEFINE c == Plan[step].on
<1>1. /\ step \in 1..65 /\ Plan[step].do = "column" /\ step' = step + 1
      /\ completed' = completed /\ embedded' = embedded /\ stranded' = stranded /\ starts' = starts
      /\ step \notin {25, 26, 27, 28, 50, 51, 60, 63, 64, 65}
    <2>1. Run("column", 1)
        BY DEF AddColumnIfMissing
    <2>2. /\ step \in 1..65 /\ Plan[step].do = "column" /\ step' = step + 1
          /\ completed' = IF step' > 65 THEN completed + 1 ELSE completed
          /\ UNCHANGED <<embedded, stranded, starts>>
          /\ step \notin {25, 26, 27, 28, 50, 51, 60, 63, 64, 65}
        BY <2>1, RunsAt
    <2> QED BY <2>2
<1>2. /\ columns' = columns \cup {c} /\ tables' = tables
      /\ vectorKey' = vectorKey
      /\ dedupeIndex' = dedupeIndex /\ vectors' = vectors /\ legacy' = legacy
      /\ rows' = rows /\ fts' = fts /\ triggers' = triggers
    BY DEF AddColumnIfMissing
<1>3. PlanLength = 65 /\ PlanLength' = 65
    BY PlanKinds
<1>4. c \in ColumnNames
    BY <1>1, <1>3, NamedIn
<1> HIDE DEF c
<1>5. SchemaTyped'
    <2>1. SchemaTyped
        BY DEF SchemaInv
    <2>2. /\ tables' \subseteq TableNames /\ columns' \subseteq ColumnNames
          /\ vectors' \subseteq Row /\ legacy' \in (SUBSET Row) \cup {NoTable}
          /\ starts' \in Nat /\ completed' \in Nat
        BY <1>1, <1>2, <1>4, <2>1 DEF SchemaTyped
    <2>3. step' \in 0..66
        BY <1>1
    <2>4. rows' = rows
        BY <1>2
    <2> QED BY <2>1, <2>2, <2>3, <2>4, TypedKept
<1>6. StatementsLast'
    <2>1. /\ step \in 1..PlanLength /\ step # 25 /\ step # 26 /\ step' = step + 1
          /\ Plan[step].do # "table"
        BY <1>1, <1>3
    <2>2. tables \subseteq tables' /\ columns \subseteq columns' /\ c \in columns'
        BY <1>2
    <2> QED BY <2>1, <2>2, StatementRan DEF c
<1>7. TextsFollow'
    <2>1. TextsFollow /\ rows' = rows /\ fts' = fts /\ triggers' = triggers
        BY <1>2 DEF SchemaInv
    <2>2. /\ step \in 0..66
          /\ step' > 60 => step > 60
          /\ step' > 64 => step > 64
          /\ step' \in 0..65
        BY <1>1
    <2> QED BY <2>1, <2>2, TextsKept
<1>8. VectorsFollow'
    <2>1. step' # 28
        BY <1>1
    <2> QED BY <1>1, <1>2, <2>1, VectorsKept DEF SchemaInv
<1>9. IndexFollows'
    <2>1. "archived_at" \in columns => "archived_at" \in columns'
        BY <1>2
    <2>2. /\ step' \in 52..65 => step \in 52..65
          /\ step' # 66
        BY <1>1
    <2>3. IndexFollows /\ completed' = completed /\ dedupeIndex' = dedupeIndex
        BY <1>1, <1>2 DEF SchemaInv
    <2> QED BY <2>1, <2>2, <2>3, IndexKept
<1> QED BY <1>5, <1>6, <1>7, <1>8, <1>9 DEF SchemaInv

\* Rebuilding mem_vectors leaves everything else as it is.
LEMMA VectorsFrame ==
    ASSUME SchemaInv, step \in 25..28, step' \in 26..29,
           columns' = columns, rows' = rows, fts' = fts, triggers' = triggers,
           dedupeIndex' = dedupeIndex, completed' = completed, starts' = starts,
           tables' \subseteq TableNames, vectors' \subseteq Row,
           legacy' \in (SUBSET Row) \cup {NoTable},
           StatementsLast', VectorsFollow'
    PROVE  SchemaInv'
<1>1. SchemaTyped'
    <2>1. SchemaTyped /\ columns' \subseteq ColumnNames /\ starts' \in Nat /\ completed' \in Nat
        BY DEF SchemaInv, SchemaTyped
    <2>2. step' \in 0..66
        OBVIOUS
    <2> QED BY <2>1, <2>2, TypedKept
<1>2. TextsFollow'
    <2>1. /\ step \in 0..66
          /\ step' > 60 => step > 60
          /\ step' > 64 => step > 64
          /\ step' \in 0..65
        OBVIOUS
    <2> QED BY <2>1, TextsKept DEF SchemaInv
<1>3. IndexFollows'
    <2>1. step' \in 52..65 => step \in 52..65
        OBVIOUS
    <2>2. step' # 66
        OBVIOUS
    <2> QED BY <2>1, <2>2, IndexKept DEF SchemaInv
<1> QED BY <1>1, <1>2, <1>3 DEF SchemaInv

\* migrateMemVectorsPrimaryKey on a table with the new key.
LEMMA KeepStep == SchemaInv /\ KeepVectors => SchemaInv'
<1> SUFFICES ASSUME SchemaInv, KeepVectors PROVE SchemaInv'
    OBVIOUS
<1>1. Len(VectorSteps) = 4
    BY Blocks DEF Part, Listing
<1>2. step = 25 /\ step' = 29 /\ completed' = completed /\ embedded' = embedded /\ stranded' = stranded /\ starts' = starts
    <2>1. Run("rename", 4)
        BY <1>1 DEF KeepVectors
    <2>2. /\ step = 25 /\ step' = step + 4
          /\ completed' = IF step' > 65 THEN completed + 1 ELSE completed
          /\ UNCHANGED <<embedded, stranded, starts>>
        BY <2>1, RunsAt
    <2> QED BY <2>2
<1>3. /\ tables' = tables /\ columns' = columns /\ vectorKey' = vectorKey
      /\ dedupeIndex' = dedupeIndex /\ vectors' = vectors /\ legacy' = legacy
      /\ rows' = rows /\ fts' = fts /\ triggers' = triggers
    BY DEF KeepVectors
<1>4. StatementsLast'
    <2>1. PlanLength = 65
        BY PlanKinds
    <2>2. ASSUME NEW i \in 1..PlanLength, i < 29
          PROVE  /\ Plan[i].do = "table" => Plan[i].on \in tables
                 /\ Plan[i].do = "column" => Plan[i].on \in columns
        <3>1. CASE i < 25
            BY <3>1, <1>2 DEF SchemaInv, StatementsLast
        <3>2. CASE i \in {25, 26, 27, 28}
            <4>1. KindsAt(i)
                BY <2>1, PlanKinds
            <4>2. Plan[i].do \in {"rename", "create", "copy", "drop"}
                BY <4>1, <3>2 DEF KindsAt
            <4> QED BY <4>2
        <3>3. i < 25 \/ i \in {25, 26, 27, 28}
            BY <2>1, <2>2
        <3> QED BY <3>1, <3>2, <3>3
    <2> QED BY <2>2, <1>2, <1>3 DEF StatementsLast
<1>5. VectorsFollow'
    BY <1>2, <1>3, VectorsKept DEF SchemaInv
<1>6. /\ tables' \subseteq TableNames /\ vectors' \subseteq Row
      /\ legacy' \in (SUBSET Row) \cup {NoTable}
    BY <1>3 DEF SchemaInv, SchemaTyped
<1>7. step \in 25..28 /\ step' \in 26..29
    BY <1>2
<1> QED BY <1>2, <1>3, <1>4, <1>5, <1>6, <1>7, VectorsFrame

\* Its first statement on a table with the old key: no legacy table is lost,
\* because there is none beside a table with the old key.
LEMMA RenameStep == SchemaInv /\ RenameVectors => SchemaInv'
<1> SUFFICES ASSUME SchemaInv, RenameVectors PROVE SchemaInv'
    OBVIOUS
<1>1. step = 25 /\ step' = 26 /\ completed' = completed /\ embedded' = embedded /\ stranded' = stranded /\ starts' = starts
    <2>1. Run("rename", 1)
        BY DEF RenameVectors
    <2>2. /\ step = 25 /\ step' = step + 1
          /\ completed' = IF step' > 65 THEN completed + 1 ELSE completed
          /\ UNCHANGED <<embedded, stranded, starts>>
        BY <2>1, RunsAt
    <2> QED BY <2>2
<1>2. /\ tables' = tables \ {"mem_vectors"} /\ columns' = columns
      /\ vectorKey = "observation" /\ vectorKey' = vectorKey
      /\ dedupeIndex' = dedupeIndex /\ vectors' = {} /\ legacy' = vectors
      /\ rows' = rows /\ fts' = fts /\ triggers' = triggers
    BY DEF RenameVectors
<1>3. PlanLength = 65
    BY PlanKinds
<1>4. StatementsLast'
    <2>1. ASSUME NEW i \in 1..PlanLength, i < 26
          PROVE  /\ Plan[i].do = "table" => Plan[i].on \in tables
                 /\ Plan[i].do = "column" => Plan[i].on \in columns
        <3>1. CASE i < 25
            BY <3>1, <1>1 DEF SchemaInv, StatementsLast
        <3>2. CASE i = 25
            <4>1. KindsAt(25)
                BY PlanKinds
            <4> QED BY <4>1, <3>2 DEF KindsAt
        <3>3. i < 25 \/ i = 25
            BY <1>3, <2>1
        <3> QED BY <3>1, <3>2, <3>3
    <2> QED BY <2>1, <1>1, <1>2 DEF StatementsLast
<1>5. VectorsFollow'
    <2>1. "mem_vectors" \in tables
        <3>1. KindsAt(8)
            BY PlanKinds
        <3>2. Plan[8].do = "table" /\ Plan[8].on = "mem_vectors"
            BY <3>1 DEF KindsAt
        <3> QED BY <3>2, <1>1, <1>3 DEF SchemaInv, StatementsLast
    <2>2. legacy = NoTable
        BY <2>1, <1>2 DEF SchemaInv, VectorsFollow
    <2>3. embedded \subseteq vectors
        BY <2>2 DEF SchemaInv, VectorsFollow, VectorsAccounted
    <2>4. vectors # NoTable
        BY SchemaAssumption DEF SchemaInv, SchemaTyped
    <2>5. VectorsAccounted'
        BY <2>3, <2>4, <1>1, <1>2 DEF VectorsAccounted
    <2>6. "mem_vectors" \notin tables'
        BY <1>2
    <2>7. step' # 28
        BY <1>1
    <2> QED BY <2>5, <2>6, <2>7 DEF VectorsFollow
<1>6. /\ tables' \subseteq TableNames /\ vectors' \subseteq Row
      /\ legacy' \in (SUBSET Row) \cup {NoTable}
    BY <1>2 DEF SchemaInv, SchemaTyped
<1>7. step \in 25..28 /\ step' \in 26..29
    BY <1>1
<1> QED BY <1>1, <1>2, <1>4, <1>5, <1>6, <1>7, VectorsFrame

\* Its other three: the legacy rows are in the new table before they are dropped.
LEMMA RebuildStep ==
    SchemaInv /\ (CreateVectors \/ CopyVectors \/ DropLegacy) => SchemaInv'
<1> SUFFICES ASSUME SchemaInv, CreateVectors \/ CopyVectors \/ DropLegacy PROVE SchemaInv'
    OBVIOUS
<1>1. /\ step \in {26, 27, 28} /\ step' = step + 1
      /\ Plan[step].do \in {"create", "copy", "drop"}
      /\ completed' = completed /\ embedded' = embedded /\ stranded' = stranded /\ starts' = starts
    <2>1. \E what \in {"create", "copy", "drop"} : Run(what, 1)
        BY DEF CreateVectors, CopyVectors, DropLegacy
    <2>2. PICK what \in {"create", "copy", "drop"} : Run(what, 1)
        BY <2>1
    <2>3. /\ step \in {26, 27, 28} /\ step' = step + 1 /\ Plan[step].do = what
          /\ completed' = IF step' > 65 THEN completed + 1 ELSE completed
          /\ UNCHANGED <<embedded, stranded, starts>>
        BY <2>2, RunsAt
    <2> QED BY <2>3
<1>2. /\ columns' = columns /\ dedupeIndex' = dedupeIndex
      /\ rows' = rows /\ fts' = fts /\ triggers' = triggers
    BY DEF CreateVectors, CopyVectors, DropLegacy
<1>3. /\ step = 26 => CreateVectors
      /\ step = 27 => CopyVectors
      /\ step = 28 => DropLegacy
    <2>1. /\ CreateVectors => step = 26
          /\ CopyVectors => step = 27
          /\ DropLegacy => step = 28
        BY RunsAt, ZenonT(60) DEF CreateVectors, CopyVectors, DropLegacy
    <2> QED BY <2>1
<1>4. tables \subseteq tables' /\ (step = 26 => "mem_vectors" \in tables')
    <2>1. CASE step = 26
        BY <2>1, <1>3 DEF CreateVectors
    <2>2. CASE step # 26
        BY <2>2, <1>1, <1>3 DEF CopyVectors, DropLegacy
    <2> QED BY <2>1, <2>2
<1>5. StatementsLast'
    <2>1. /\ step \in 1..PlanLength /\ step # 25
          /\ Plan[step].do # "table" /\ Plan[step].do # "column"
        BY <1>1, PlanKinds
    <2> QED BY <2>1, <1>1, <1>2, <1>4, StatementRan
<1>6. tables' \subseteq TableNames
    <2>1. tables' \subseteq tables \cup {"mem_vectors"}
        BY <1>1, <1>3 DEF CreateVectors, CopyVectors, DropLegacy
    <2>2. "mem_vectors" \in TableNames
        <3>1. 8 \in 1..PlanLength /\ Plan[8].do = "table" /\ Plan[8].on = "mem_vectors"
            BY PlanKinds DEF KindsAt
        <3> QED BY <3>1, NamedIn
    <2> QED BY <2>1, <2>2 DEF SchemaInv, SchemaTyped
<1>7. /\ VectorsFollow' /\ vectors' \subseteq Row
      /\ legacy' \in (SUBSET Row) \cup {NoTable}
    <2>1. CASE step = 26
        <3>1. /\ vectors' = vectors /\ legacy' = legacy
              /\ vectorKey' = "observation and model"
            BY <2>1, <1>3 DEF CreateVectors
        <3>2. step' = 27
            BY <2>1, <1>1
        <3>3. VectorsAccounted'
            BY <3>1, <3>2, <1>1 DEF SchemaInv, VectorsFollow, VectorsAccounted
        <3>4. step' # 28
            BY <3>2
        <3> QED BY <3>1, <3>3, <3>4 DEF SchemaInv, SchemaTyped, VectorsFollow
    <2>2. CASE step = 27
        <3>1. /\ vectors' = IF legacy = NoTable THEN vectors ELSE vectors \cup legacy
              /\ legacy' = legacy /\ vectorKey' = vectorKey /\ tables' = tables
            BY <2>2, <1>3 DEF CopyVectors
        <3>2. CASE legacy = NoTable
            BY <3>1, <3>2, <1>1 DEF SchemaInv, SchemaTyped, VectorsFollow, VectorsAccounted
        <3>3. CASE legacy # NoTable
            BY <3>1, <3>3, <1>1 DEF SchemaInv, SchemaTyped, VectorsFollow, VectorsAccounted
        <3> QED BY <3>2, <3>3
    <2>3. CASE step = 28
        <3>1. vectors' = vectors /\ legacy' = NoTable
            BY <2>3, <1>3 DEF DropLegacy
        <3>3. step' # 28
            BY <2>3, <1>1
        <3>2. embedded \subseteq vectors
            BY <2>3 DEF SchemaInv, VectorsFollow, VectorsAccounted
        <3> QED BY <3>1, <3>2, <3>3, <1>1 DEF SchemaInv, SchemaTyped, VectorsFollow, VectorsAccounted
    <2> QED BY <1>1, <2>1, <2>2, <2>3
<1>8. step \in 25..28 /\ step' \in 26..29
    BY <1>1
<1> QED BY <1>1, <1>2, <1>5, <1>6, <1>7, <1>8, VectorsFrame
\* The statements behind the tables and columns: indexes, rows and triggers.
LEMMA TablesFrame ==
    ASSUME SchemaInv, step \in 29..65, step' = step + 1,
           Plan[step].do # "table", Plan[step].do # "column",
           tables' = tables, columns' = columns, vectorKey' = vectorKey,
           vectors' = vectors, legacy' = legacy, embedded' = embedded,
           stranded' = stranded
    PROVE  StatementsLast' /\ VectorsFollow'
<1>1. step \in 1..PlanLength /\ step # 25 /\ step # 26
    BY PlanKinds
<1>2. step' # 28
    OBVIOUS
<1> QED BY <1>1, <1>2, StatementRan, VectorsKept DEF SchemaInv

\* The unique index goes and comes back, if its column is there.
LEMMA IndexStep == SchemaInv /\ (DropDedupeIndex \/ CreateDedupeIndex) => SchemaInv'
<1> SUFFICES ASSUME SchemaInv, DropDedupeIndex \/ CreateDedupeIndex PROVE SchemaInv'
    OBVIOUS
<1>1. /\ \/ step = 50 /\ Plan[step].do = "dropIndex"
         \/ step = 51 /\ Plan[step].do = "makeIndex" /\ dedupeIndex' = ("archived_at" \in columns)
      /\ step' = step + 1 /\ completed' = completed /\ embedded' = embedded /\ stranded' = stranded /\ starts' = starts
    <2>1. CASE DropDedupeIndex
        <3>1. Run("dropIndex", 1)
            BY <2>1 DEF DropDedupeIndex
        <3>2. /\ step = 50 /\ Plan[step].do = "dropIndex" /\ step' = step + 1
              /\ completed' = IF step' > 65 THEN completed + 1 ELSE completed
              /\ UNCHANGED <<embedded, stranded, starts>>
            BY <3>1, RunsAt
        <3> QED BY <3>2
    <2>2. CASE CreateDedupeIndex
        <3>1. Run("makeIndex", 1)
            BY <2>2 DEF CreateDedupeIndex
        <3>2. /\ step = 51 /\ Plan[step].do = "makeIndex" /\ step' = step + 1
              /\ completed' = IF step' > 65 THEN completed + 1 ELSE completed
              /\ UNCHANGED <<embedded, stranded, starts>>
            BY <3>1, RunsAt
        <3>3. dedupeIndex' = ("archived_at" \in columns)
            BY <2>2 DEF CreateDedupeIndex
        <3> QED BY <3>2, <3>3
    <2> QED BY <2>1, <2>2
<1>2. /\ tables' = tables /\ columns' = columns /\ vectorKey' = vectorKey
      /\ vectors' = vectors /\ legacy' = legacy
      /\ rows' = rows /\ fts' = fts /\ triggers' = triggers
    BY DEF DropDedupeIndex, CreateDedupeIndex
<1>3. step \in 29..65 /\ step' \in 51..52
    BY <1>1
<1>4. StatementsLast' /\ VectorsFollow'
    <2>1. Plan[step].do # "table" /\ Plan[step].do # "column"
        BY <1>1
    <2> QED BY <1>1, <1>2, <1>3, <2>1, TablesFrame
<1>5. SchemaTyped'
    <2>1. /\ SchemaTyped /\ starts' \in Nat /\ completed' \in Nat
          /\ tables' \subseteq TableNames /\ columns' \subseteq ColumnNames
          /\ vectors' \subseteq Row /\ legacy' \in (SUBSET Row) \cup {NoTable}
        BY <1>1, <1>2 DEF SchemaInv, SchemaTyped
    <2>2. step' \in 0..66
        BY <1>3
    <2> QED BY <1>2, <2>1, <2>2, TypedKept
<1>6. TextsFollow'
    <2>1. /\ step \in 0..66
          /\ step' > 60 => step > 60
          /\ step' > 64 => step > 64
          /\ step' \in 0..65
        BY <1>3
    <2> QED BY <1>2, <2>1, TextsKept DEF SchemaInv
<1>7. IndexFollows'
    <2>1. PlanLength' = 65 /\ step' < 66
        BY <1>3, PlanKinds
    <2>2. completed > 0 => "archived_at" \in columns
        BY DEF SchemaInv, IndexFollows
    <2>3. completed > 0 /\ step' \in 52..65 => dedupeIndex'
        <3>1. step' \in 52..65 => dedupeIndex' = ("archived_at" \in columns)
            BY <1>1
        <3> QED BY <3>1, <2>2, Zenon
    <2>4. DedupeIndexBack'
        BY <2>1 DEF DedupeIndexBack, Serving
    <2> QED BY <1>1, <1>2, <2>1, <2>2, <2>3, <2>4 DEF IndexFollows
<1> QED BY <1>4, <1>5, <1>6, <1>7 DEF SchemaInv

\* Every row gets observed_at and keeps its text.
LEMMA BackfillStep == SchemaInv /\ BackfillObserved => SchemaInv'
<1> SUFFICES ASSUME SchemaInv, BackfillObserved PROVE SchemaInv'
    OBVIOUS
<1>1. /\ step = 60 /\ step' = 61 /\ Plan[step].do = "backfill"
      /\ completed' = completed /\ embedded' = embedded /\ stranded' = stranded /\ starts' = starts
    <2>1. Run("backfill", 1)
        BY DEF BackfillObserved
    <2>2. /\ step = 60 /\ Plan[step].do = "backfill" /\ step' = step + 1
          /\ completed' = IF step' > 65 THEN completed + 1 ELSE completed
          /\ UNCHANGED <<embedded, stranded, starts>>
        BY <2>1, RunsAt
    <2> QED BY <2>2
<1>2. /\ tables' = tables /\ columns' = columns /\ vectorKey' = vectorKey
      /\ vectors' = vectors /\ legacy' = legacy /\ dedupeIndex' = dedupeIndex
      /\ fts' = fts /\ triggers' = triggers
      /\ rows' = [r \in DOMAIN rows |-> [rows[r] EXCEPT !.observed = TRUE]]
    BY DEF BackfillObserved
<1>3. PlanLength = 65 /\ PlanLength' = 65
    BY PlanKinds
<1>4. StatementsLast' /\ VectorsFollow'
    <2>1. Plan[step].do # "table" /\ Plan[step].do # "column" /\ step \in 29..65 /\ step' = step + 1
        BY <1>1
    <2> QED BY <1>1, <1>2, <2>1, TablesFrame
<1>5. ASSUME NEW r \in DOMAIN rows
      PROVE  /\ rows'[r] \in [text : Text, observed : BOOLEAN]
             /\ rows'[r].observed /\ rows'[r].text = rows[r].text
    <2>1. rows[r] \in [text : Text, observed : BOOLEAN]
        BY DEF SchemaInv, SchemaTyped
    <2>2. rows'[r] = [rows[r] EXCEPT !.observed = TRUE]
        BY <1>2
    <2> QED BY <2>1, <2>2
<1>6. DOMAIN rows' = DOMAIN rows
    BY <1>2
<1>7. SchemaTyped'
    <2>1. rows' \in [DOMAIN rows' -> [text : Text, observed : BOOLEAN]]
        <3> DEFINE change(r) == [rows[r] EXCEPT !.observed = TRUE]
        <3>1. rows' = [r \in DOMAIN rows |-> change(r)]
            BY <1>2
        <3>2. \A r \in DOMAIN rows : change(r) \in [text : Text, observed : BOOLEAN]
            BY <3>1, <1>5
        <3> HIDE DEF change
        <3> QED BY <3>1, <3>2
    <2>2. /\ starts' \in Nat /\ completed' \in Nat
          /\ tables' \subseteq TableNames /\ columns' \subseteq ColumnNames
          /\ vectors' \subseteq Row /\ legacy' \in (SUBSET Row) \cup {NoTable}
        BY <1>1, <1>2 DEF SchemaInv, SchemaTyped
    <2>3. step' \in 0..66
        BY <1>1
    <2> QED BY <1>3, <2>1, <2>2, <2>3 DEF SchemaTyped
<1>8. TextsFollow'
    <2>1. fts = <<>> \/ fts = [r \in DOMAIN rows |-> rows[r].text]
        BY DEF SchemaInv, TextsFollow
    <2>2. [r \in DOMAIN rows |-> rows[r].text] = [r \in DOMAIN rows' |-> rows'[r].text]
        BY <1>5, <1>6, Zenon
    <2>3. fts' = <<>> \/ fts' = [r \in DOMAIN rows' |-> rows'[r].text]
        BY <1>2, <2>1, <2>2, Zenon
    <2>4. \A r \in DOMAIN rows' : rows'[r].observed
        BY <1>5, <1>6, Zenon
    <2>5. step' = 61
        BY <1>1
    <2> QED BY <1>3, <2>3, <2>4, <2>5 DEF TextsFollow
<1>9. IndexFollows'
    <2>1. /\ step' \in 52..65 => step \in 52..65
          /\ step' # 66
        BY <1>1
    <2> QED BY <1>1, <1>2, <2>1, IndexKept DEF SchemaInv
<1> QED BY <1>4, <1>7, <1>8, <1>9 DEF SchemaInv

\* Nothing writes rows while the triggers are away.
LEMMA TriggerStep == SchemaInv /\ (DropTriggers \/ CreateTriggers) => SchemaInv'
<1> SUFFICES ASSUME SchemaInv, DropTriggers \/ CreateTriggers PROVE SchemaInv'
    OBVIOUS
<1>1. /\ \/ step = 63 /\ Plan[step].do = "dropTriggers"
         \/ step = 64 /\ Plan[step].do = "makeTriggers" /\ triggers' = TRUE
      /\ step' = step + 1 /\ completed' = completed /\ embedded' = embedded /\ stranded' = stranded /\ starts' = starts
    <2>1. CASE DropTriggers
        <3>1. Run("dropTriggers", 1)
            BY <2>1 DEF DropTriggers
        <3>2. /\ step = 63 /\ Plan[step].do = "dropTriggers" /\ step' = step + 1
              /\ completed' = IF step' > 65 THEN completed + 1 ELSE completed
              /\ UNCHANGED <<embedded, stranded, starts>>
            BY <3>1, RunsAt
        <3> QED BY <3>2
    <2>2. CASE CreateTriggers
        <3>1. Run("makeTriggers", 1)
            BY <2>2 DEF CreateTriggers
        <3>2. /\ step = 64 /\ Plan[step].do = "makeTriggers" /\ step' = step + 1
              /\ completed' = IF step' > 65 THEN completed + 1 ELSE completed
              /\ UNCHANGED <<embedded, stranded, starts>>
            BY <3>1, RunsAt
        <3>3. triggers' = TRUE
            BY <2>2 DEF CreateTriggers
        <3> QED BY <3>2, <3>3
    <2> QED BY <2>1, <2>2
<1>2. /\ tables' = tables /\ columns' = columns /\ vectorKey' = vectorKey
      /\ vectors' = vectors /\ legacy' = legacy /\ dedupeIndex' = dedupeIndex
      /\ rows' = rows /\ fts' = fts
    BY DEF DropTriggers, CreateTriggers
<1>3. step \in 63..64 /\ step' \in 64..65 /\ step \in 29..65
    BY <1>1
<1>4. StatementsLast' /\ VectorsFollow'
    <2>1. Plan[step].do # "table" /\ Plan[step].do # "column"
        BY <1>1
    <2> QED BY <1>1, <1>2, <1>3, <2>1, TablesFrame
<1>5. SchemaTyped'
    <2>1. /\ SchemaTyped /\ starts' \in Nat /\ completed' \in Nat
          /\ tables' \subseteq TableNames /\ columns' \subseteq ColumnNames
          /\ vectors' \subseteq Row /\ legacy' \in (SUBSET Row) \cup {NoTable}
        BY <1>1, <1>2 DEF SchemaInv, SchemaTyped
    <2>2. step' \in 0..66
        BY <1>3
    <2> QED BY <1>2, <2>1, <2>2, TypedKept
<1>6. TextsFollow'
    <2>1. fts = <<>> \/ fts = [r \in DOMAIN rows |-> rows[r].text]
        BY DEF SchemaInv, TextsFollow
    <2>2. fts' = <<>> \/ fts' = [r \in DOMAIN rows' |-> rows'[r].text]
        BY <1>2, <2>1, Zenon
    <2>3. \A r \in DOMAIN rows' : rows'[r].observed
        BY <1>2, <1>3 DEF SchemaInv, TextsFollow
    <2>4. step' > 64 => triggers'
        BY <1>1
    <2>5. PlanLength' = 65 /\ step' < 66
        BY <1>3, PlanKinds
    <2> QED BY <2>2, <2>3, <2>4, <2>5 DEF TextsFollow
<1>7. IndexFollows'
    <2>1. /\ step' \in 52..65 => step \in 52..65
          /\ step' # 66
        BY <1>3
    <2> QED BY <1>1, <1>2, <2>1, IndexKept DEF SchemaInv
<1> QED BY <1>4, <1>5, <1>6, <1>7 DEF SchemaInv

\* The last statement: the index is exact when the daemon begins to serve.
LEMMA FillStep == SchemaInv /\ FillFts => SchemaInv'
<1> SUFFICES ASSUME SchemaInv, FillFts PROVE SchemaInv'
    OBVIOUS
<1>1. /\ step = 65 /\ step' = 66 /\ Plan[step].do = "fill"
      /\ completed' = completed + 1 /\ embedded' = embedded /\ stranded' = stranded /\ starts' = starts
    <2>1. Run("fill", 1)
        BY DEF FillFts
    <2>2. /\ step = 65 /\ Plan[step].do = "fill" /\ step' = step + 1
          /\ completed' = IF step' > 65 THEN completed + 1 ELSE completed
          /\ UNCHANGED <<embedded, stranded, starts>>
        BY <2>1, RunsAt
    <2> QED BY <2>2
<1>2. /\ tables' = tables /\ columns' = columns /\ vectorKey' = vectorKey
      /\ vectors' = vectors /\ legacy' = legacy /\ dedupeIndex' = dedupeIndex
      /\ rows' = rows /\ triggers' = triggers
      /\ fts' = IF fts = <<>> THEN [r \in DOMAIN rows |-> rows[r].text] ELSE fts
    BY DEF FillFts
<1>3. PlanLength = 65 /\ PlanLength' = 65
    BY PlanKinds
<1>4. StatementsLast' /\ VectorsFollow'
    <2>1. Plan[step].do # "table" /\ Plan[step].do # "column" /\ step \in 29..65 /\ step' = step + 1
        BY <1>1
    <2> QED BY <1>1, <1>2, <2>1, TablesFrame
<1>5. SchemaTyped'
    <2>1. /\ SchemaTyped /\ starts' \in Nat /\ completed' \in Nat
          /\ tables' \subseteq TableNames /\ columns' \subseteq ColumnNames
          /\ vectors' \subseteq Row /\ legacy' \in (SUBSET Row) \cup {NoTable}
        BY <1>1, <1>2 DEF SchemaInv, SchemaTyped
    <2>2. step' \in 0..66
        BY <1>1
    <2> QED BY <1>2, <2>1, <2>2, TypedKept
<1>6. TextsFollow'
    <2>1. fts = <<>> \/ fts = [r \in DOMAIN rows |-> rows[r].text]
        BY DEF SchemaInv, TextsFollow
    <2>2. fts' = [r \in DOMAIN rows |-> rows[r].text]
        BY <1>2, <2>1, Zenon
    <2>3. fts' = [r \in DOMAIN rows' |-> rows'[r].text]
        BY <1>2, <2>2, Zenon
    <2>4. step > 60 /\ step > 64
        BY <1>1
    <2>5. (\A r \in DOMAIN rows : rows[r].observed) /\ triggers
        BY <2>4 DEF SchemaInv, TextsFollow
    <2>6. (\A r \in DOMAIN rows' : rows'[r].observed) /\ triggers'
        BY <1>2, <2>5
    <2> QED BY <2>3, <2>6 DEF TextsFollow
<1>7. IndexFollows'
    <2>1. "archived_at" \in columns
        <3>1. KindsAt(61)
            BY PlanKinds
        <3>2. Plan[61].do = "column" /\ Plan[61].on = "archived_at"
            BY <3>1 DEF KindsAt
        <3> QED BY <3>2, <1>1, <1>3 DEF SchemaInv, StatementsLast
    <2>2. completed \in Nat
        BY DEF SchemaInv, SchemaTyped
    <2>3. completed' > 1 => dedupeIndex
        BY <1>1, <1>3, <2>2 DEF SchemaInv, IndexFollows
    <2>4. DedupeIndexBack'
        BY <1>2, <2>3 DEF DedupeIndexBack
    <2>5. step' \notin 52..PlanLength'
        BY <1>1, <1>3
    <2> QED BY <1>2, <2>1, <2>4, <2>5 DEF IndexFollows
<1> QED BY <1>4, <1>5, <1>6, <1>7 DEF SchemaInv

\* A stored observation, while the daemon serves: the triggers keep the index.
LEMMA StoringStep ==
    ASSUME SchemaInv, NEW r \in Row, NEW text \in Text, NEW embed \in BOOLEAN,
           StoreObservation(r, text, embed)
    PROVE  SchemaInv'
<1>1. /\ step = 66 /\ step' = 66 /\ starts' = starts /\ completed' = completed
      /\ stranded' = stranded
      /\ PlanLength = 65 /\ PlanLength' = 65
    BY PlanKinds DEF StoreObservation, Serving
<1>2. /\ tables' = tables /\ columns' = columns /\ vectorKey' = vectorKey
      /\ dedupeIndex' = dedupeIndex /\ legacy' = legacy /\ triggers' = triggers
    BY DEF StoreObservation
<1>3. /\ rows' = [s \in DOMAIN rows \cup {r} |->
                     IF s = r THEN [text |-> text, observed |-> TRUE] ELSE rows[s]]
      /\ fts' = IF triggers
                THEN [s \in DOMAIN fts \cup {r} |-> IF s = r THEN text ELSE fts[s]] ELSE fts
    BY DEF StoreObservation
<1>4. /\ vectors' = IF embed THEN vectors \cup {r} ELSE vectors
      /\ embedded' = IF embed THEN embedded \cup {r} ELSE embedded
    BY DEF StoreObservation
<1>5. triggers /\ fts = [s \in DOMAIN rows |-> rows[s].text]
    BY <1>1 DEF SchemaInv, TextsFollow
<1>6. ASSUME NEW s \in DOMAIN rows'
      PROVE  /\ rows'[s] \in [text : Text, observed : BOOLEAN]
             /\ rows'[s].observed
             /\ rows'[s].text = IF s = r THEN text ELSE fts[s]
    <2>1. CASE s = r
        <3>1. rows'[s] = [text |-> text, observed |-> TRUE]
            BY <2>1, <1>3
        <3> QED BY <2>1, <3>1
    <2>2. CASE s # r
        <3>1. s \in DOMAIN rows /\ rows'[s] = rows[s]
            BY <2>2, <1>3
        <3>2. rows[s] \in [text : Text, observed : BOOLEAN] /\ fts[s] = rows[s].text
            BY <3>1, <1>5 DEF SchemaInv, SchemaTyped
        <3>3. rows[s].observed
            BY <3>1, <1>1 DEF SchemaInv, TextsFollow
        <3> QED BY <2>2, <3>1, <3>2, <3>3
    <2> QED BY <2>1, <2>2
<1>7. SchemaTyped'
    <2>1. rows' \in [DOMAIN rows' -> [text : Text, observed : BOOLEAN]]
        <3> DEFINE value(s) == IF s = r THEN [text |-> text, observed |-> TRUE] ELSE rows[s]
        <3>1. rows' = [s \in DOMAIN rows \cup {r} |-> value(s)]
            BY <1>3
        <3>2. \A s \in DOMAIN rows \cup {r} : value(s) \in [text : Text, observed : BOOLEAN]
            BY <3>1, <1>6
        <3> HIDE DEF value
        <3> QED BY <3>1, <3>2
    <2>2. /\ starts' \in Nat /\ completed' \in Nat
          /\ tables' \subseteq TableNames /\ columns' \subseteq ColumnNames
          /\ vectors' \subseteq Row /\ legacy' \in (SUBSET Row) \cup {NoTable}
        BY <1>1, <1>2, <1>4 DEF SchemaInv, SchemaTyped
    <2>3. step' \in 0..66
        BY <1>1
    <2> QED BY <1>1, <2>1, <2>2, <2>3 DEF SchemaTyped
<1>8. StatementsLast'
    BY <1>1, <1>2 DEF SchemaInv, StatementsLast
<1>9. TextsFollow'
    <2>1. DOMAIN fts = DOMAIN rows /\ DOMAIN rows' = DOMAIN rows \cup {r}
        BY <1>3, <1>5
    <2>2. fts' = [s \in DOMAIN fts \cup {r} |-> IF s = r THEN text ELSE fts[s]]
        BY <1>3, <1>5, Zenon
    <2>3. fts' = [s \in DOMAIN rows' |-> IF s = r THEN text ELSE fts[s]]
        BY <2>1, <2>2, Zenon
    <2>4. [s \in DOMAIN rows' |-> IF s = r THEN text ELSE fts[s]]
              = [s \in DOMAIN rows' |-> rows'[s].text]
        BY <1>6, Zenon
    <2>5. fts' = [s \in DOMAIN rows' |-> rows'[s].text]
        BY <2>3, <2>4, Zenon
    <2>6. (\A s \in DOMAIN rows' : rows'[s].observed) /\ triggers'
        BY <1>2, <1>5, <1>6, Zenon
    <2> QED BY <2>5, <2>6 DEF TextsFollow
<1>10. VectorsFollow'
    <2>1. VectorsAccounted'
        <3>1. CASE embed
            BY <3>1, <1>1, <1>2, <1>4 DEF SchemaInv, VectorsFollow, VectorsAccounted
        <3>2. CASE ~embed
            BY <3>2, <1>1, <1>2, <1>4 DEF SchemaInv, VectorsFollow, VectorsAccounted
        <3> QED BY <3>1, <3>2
    <2>2. (legacy # NoTable => vectorKey = "observation and model" \/ "mem_vectors" \notin tables)'
        BY <1>2 DEF SchemaInv, VectorsFollow
    <2>3. step' # 28
        BY <1>1
    <2> QED BY <2>1, <2>2, <2>3 DEF VectorsFollow
<1>11. IndexFollows'
    <2>1. Serving /\ Serving'
        BY <1>1 DEF Serving
    <2>2. DedupeIndexBack'
        BY <2>1, <1>1, <1>2 DEF SchemaInv, IndexFollows, DedupeIndexBack
    <2>3. step' \notin 52..PlanLength'
        BY <1>1
    <2>4. (completed > 0 => "archived_at" \in columns)'
        BY <1>1, <1>2 DEF SchemaInv, IndexFollows
    <2> QED BY <2>2, <2>3, <2>4 DEF IndexFollows
<1> QED BY <1>7, <1>8, <1>9, <1>10, <1>11 DEF SchemaInv

\* A start begins at the first statement, wherever the last one died.
LEMMA ProcessStep == SchemaInv /\ (Boot \/ Die) => SchemaInv'
<1> SUFFICES ASSUME SchemaInv, Boot \/ Die PROVE SchemaInv'
    OBVIOUS
<1>1. step' \in 0..1 /\ starts' \in Nat
    BY DEF Boot, Die, SchemaInv, SchemaTyped
<1>2. /\ tables' = tables /\ columns' = columns /\ vectorKey' = vectorKey
      /\ vectors' = vectors /\ legacy' = legacy /\ dedupeIndex' = dedupeIndex
      /\ rows' = rows /\ fts' = fts /\ triggers' = triggers
      /\ embedded' = embedded /\ completed' = completed
    BY DEF Boot, Die
<1>3. PlanLength = 65 /\ PlanLength' = 65
    BY PlanKinds
<1>4. SchemaTyped'
    <2>1. /\ SchemaTyped /\ completed' \in Nat
          /\ tables' \subseteq TableNames /\ columns' \subseteq ColumnNames
          /\ vectors' \subseteq Row /\ legacy' \in (SUBSET Row) \cup {NoTable}
        BY <1>2 DEF SchemaInv, SchemaTyped
    <2>2. step' \in 0..66
        BY <1>1
    <2> QED BY <1>1, <1>2, <2>1, <2>2, TypedKept
<1>5. StatementsLast'
    <2>1. \A i \in 1..PlanLength : ~(i < step')
        BY <1>1, <1>3
    <2> QED BY <2>1 DEF StatementsLast
<1>6. TextsFollow'
    <2>1. fts = <<>> \/ fts = [r \in DOMAIN rows |-> rows[r].text]
        BY DEF SchemaInv, TextsFollow
    <2>2. fts' = <<>> \/ fts' = [r \in DOMAIN rows' |-> rows'[r].text]
        BY <1>2, <2>1, Zenon
    <2>3. ~(step' > 60) /\ ~(step' > 64) /\ step' < PlanLength' + 1
        BY <1>1, <1>3
    <2> QED BY <2>2, <2>3 DEF TextsFollow
<1>7. VectorsFollow'
    <2>1. VectorsAccounted'
        <3>1. CASE Die /\ step \in {26, 27}
            <4>1. KindsAt(step)
                BY <3>1, <1>3, PlanKinds
            <4>2. stranded' = stranded \cup legacy
                BY <3>1, <4>1, <1>3 DEF Die, KindsAt
            <4> QED BY <4>2, <1>2 DEF SchemaInv, VectorsFollow, VectorsAccounted
        <3>2. CASE ~(Die /\ step \in {26, 27})
            <4>1. step \notin {26, 27}
                BY <3>2 DEF Boot
            <4>2. stranded \subseteq stranded'
                BY DEF Boot, Die
            <4> QED BY <4>1, <4>2, <1>2 DEF SchemaInv, VectorsFollow, VectorsAccounted
        <3> QED BY <3>1, <3>2
    <2>2. (legacy # NoTable => vectorKey = "observation and model" \/ "mem_vectors" \notin tables)'
        BY <1>2 DEF SchemaInv, VectorsFollow
    <2>3. step' # 28
        BY <1>1
    <2> QED BY <2>1, <2>2, <2>3 DEF VectorsFollow
<1>8. IndexFollows'
    <2>1. /\ step' \in 52..65 => step \in 52..65
          /\ step' # 66
        BY <1>1
    <2> QED BY <1>2, <2>1, IndexKept DEF SchemaInv
<1> QED BY <1>4, <1>5, <1>6, <1>7, <1>8 DEF SchemaInv

\* Every step keeps the invariant.
LEMMA SchemaStep == SchemaInv /\ [SchemaNext]_schemaVars => SchemaInv'
<1> SUFFICES ASSUME SchemaInv, [SchemaNext]_schemaVars PROVE SchemaInv'
    OBVIOUS
<1>1. CASE UNCHANGED schemaVars
    <2>1. /\ tables' = tables /\ columns' = columns /\ vectorKey' = vectorKey
          /\ vectors' = vectors /\ legacy' = legacy /\ dedupeIndex' = dedupeIndex
          /\ rows' = rows /\ fts' = fts /\ triggers' = triggers
          /\ embedded' = embedded /\ stranded' = stranded /\ completed' = completed
          /\ step' = step /\ starts' = starts
        BY <1>1 DEF schemaVars
    <2>2. SchemaTyped'
        BY <2>1, PlanKinds, TypedKept DEF SchemaInv, SchemaTyped
    <2>6. StatementsLast'
        BY <2>1, PlanKinds DEF SchemaInv, StatementsLast
    <2>3. TextsFollow'
        BY <2>1, Zenon DEF SchemaInv, TextsFollow
    <2>4. VectorsFollow'
        BY <2>1, Zenon DEF SchemaInv, VectorsFollow, VectorsAccounted
    <2>5. IndexFollows'
        BY <2>1, Zenon DEF SchemaInv, IndexFollows, DedupeIndexBack, Serving
    <2> QED BY <2>2, <2>3, <2>4, <2>5, <2>6 DEF SchemaInv
<1>2. CASE SchemaNext
    BY <1>2, TableStep, ColumnStep, KeepStep, RenameStep, RebuildStep, IndexStep,
       BackfillStep, TriggerStep, FillStep, StoringStep, ProcessStep DEF SchemaNext
<1> QED BY <1>1, <1>2

\* The invariant says what is promised of a daemon that serves.
LEMMA ServedWhole == SchemaInv => SchemaServed
<1> SUFFICES ASSUME SchemaInv PROVE SchemaServed
    OBVIOUS
<1>1. PlanLength = 65
    BY PlanKinds
<1>2. ASSUME Serving PROVE tables = TableNames /\ columns = ColumnNames
    <2>1. step = 66
        BY <1>1, <1>2 DEF Serving
    <2>2. ASSUME NEW i \in 1..PlanLength
          PROVE  /\ Plan[i].do = "table" => Plan[i].on \in tables
                 /\ Plan[i].do = "column" => Plan[i].on \in columns
        <3>1. i < step /\ step # 26
            BY <1>1, <2>1
        <3>2. /\ Plan[i].do = "table" => \/ Plan[i].on \in tables
                                         \/ Plan[i].on = "mem_vectors" /\ step = 26
              /\ Plan[i].do = "column" => Plan[i].on \in columns
            BY <3>1 DEF SchemaInv, StatementsLast
        <3> QED BY <3>1, <3>2
    <2>3. ASSUME NEW x \in TableNames PROVE x \in tables
        <3>1. PICK i \in 1..PlanLength : Plan[i].do = "table" /\ Plan[i].on = x
            BY NamedFrom
        <3> QED BY <3>1, <2>2
    <2>4. ASSUME NEW x \in ColumnNames PROVE x \in columns
        <3>1. PICK i \in 1..PlanLength : Plan[i].do = "column" /\ Plan[i].on = x
            BY NamedFrom
        <3> QED BY <3>1, <2>2
    <2> QED BY <2>3, <2>4 DEF SchemaInv, SchemaTyped
<1>3. ASSUME Serving PROVE /\ \A r \in DOMAIN rows : rows[r].observed
                           /\ fts = [r \in DOMAIN rows |-> rows[r].text]
    BY <1>1, <1>3 DEF Serving, SchemaInv, TextsFollow
<1>4. VectorsServed
    <2>1. Serving => step \notin {26, 27}
        BY <1>1 DEF Serving
    <2> QED BY <2>1 DEF SchemaInv, VectorsFollow, VectorsAccounted, VectorsServed
<1> QED BY <1>2, <1>3, <1>4 DEF SchemaInv, IndexFollows, SchemaServed,
           ServesWholeSchema, SearchIndexExact

\* Whatever columns the releases before left, however many observations there
\* are and wherever starts died: a daemon that initSchema, migrateSchema and
\* initFtsIndex let serve has every table, column and text, and every vector
\* but those of a rebuild of mem_vectors that a start died in before the copy.
THEOREM SchemaAlwaysServed == SchemaSpec => []SchemaServed
<1>1. SchemaInit => SchemaInv
    BY SchemaStart
<1>2. SchemaInv /\ [SchemaNext]_schemaVars => SchemaInv'
    BY SchemaStep
<1>3. SchemaInv => SchemaServed
    BY ServedWhole
<1> QED BY <1>1, <1>2, <1>3, PTL DEF SchemaSpec

------------------------------------------------------------------------------
(* Imports *)

\* The ids of the rows of a claude-mem database, what recordEvent may answer, a
\* job and the answers to it.
ImportId == {<<x>> : x \in {<<r>> : r \in SourceRow} \cup (SourceRow \X Nat \X Nat)}
AnswersOf == UNION {[D -> {"inserted", "deduped", "failed"}] : D \in SUBSET Source}
JobRow == [status : {"running", "completed", "failed", "knowledge"}, dry : BOOLEAN, total : Nat,
           inserted : Nat, deduped : Nat, failed : Nat, samples : SUBSET ImportId]

ImportTyped ==
    /\ version \in [Source -> Nat]
    /\ jobs \in Seq(JobRow) /\ importAnswers \in Seq(AnswersOf)
    /\ Len(importAnswers) = Len(jobs)
    /\ running \in [job : 1..Len(jobs), plan : SUBSET SourceRow] \cup {NoImport}

\* Some row of a job was recorded or found.
Told(said) == \E r \in DOMAIN said : said[r] # "failed"

\* What is true of a job with the answers to it.
JobSound(job, said) ==
    /\ job.inserted + job.deduped > 0 => Told(said)
    /\ job.status = "completed" /\ ~job.dry =>
           /\ job.inserted + job.deduped + job.failed = job.total
           /\ job.total = Cardinality(SourceRow) /\ DOMAIN said = SourceRow

\* And of the one under way, which has plan left to do.
PlanSound(job, said, plan) ==
    /\ job.status = "running"
    /\ job.dry => plan = {}
    /\ ~job.dry => /\ job.total = Cardinality(SourceRow) /\ DOMAIN said = SourceRow \ plan
                   /\ job.inserted + job.deduped + job.failed + Cardinality(plan) = job.total

\* The job table follows the answers.
JobsFollow ==
    /\ \A j \in 1..Len(jobs) : JobSound(jobs[j], importAnswers[j])
    /\ running # NoImport => PlanSound(jobs[running.job], importAnswers[running.job], running.plan)
    /\ \A o \in impRows : o.tag \in 1..Len(jobs) /\ Told(importAnswers[o.tag])

\* The id of the event that a text of a claude-mem row with an id or a time has
\* in every import.
StableId(basis) == IF basis[1] \in WithId THEN <<<<basis[1]>>>> ELSE <<<<basis[1], 0, basis[2]>>>>

\* The event of such a row stays in the log, also when its observation goes.
EventsRemain ==
    /\ forgotten \subseteq impRows
    /\ \A o \in impRows : o.basis[1] \in WithId \cup WithTime =>
                             \E k \in impEvents : k.id = StableId(o.basis)

\* The inductive invariant of Imports.
ImportInv == ImportTyped /\ JobsFollow /\ EventsRemain /\ ImportedOnce /\ ForgottenStay

\* What recordEvent stores keeps the rows sound, if the id of the event is the
\* stable one.
LEMMA StoreKeepsRows ==
    ASSUME EventsRemain, ImportedOnce, ForgottenStay, NEW e, NEW tag, StoreEvent(e, tag),
           forgotten' = forgotten,
           e.basis[1] \in WithId \cup WithTime => e.id = StableId(e.basis)
    PROVE  EventsRemain' /\ ImportedOnce' /\ ForgottenStay'
<1> DEFINE new == [basis |-> e.basis, event |-> e.id, tag |-> tag, private |-> e.private]
<1>1. CASE Outcome(e) = "deduped"
    <2>1. impRows' = impRows /\ impEvents \subseteq impEvents'
        BY <1>1 DEF StoreEvent
    <2> QED BY <2>1 DEF EventsRemain, ImportedOnce, ForgottenStay, Live
<1>2. CASE Outcome(e) # "deduped"
    <2>1. ~KnownEvent(e) /\ ~KnownContent(e)
        BY <1>2 DEF Outcome
    <2>2. /\ impRows' = impRows \cup {new}
          /\ impEvents' = impEvents \cup {[id |-> e.id, hash |-> e.hash]}
        BY <1>2, <2>1 DEF StoreEvent
    <2>3. new.basis = e.basis
        OBVIOUS
    <2> HIDE DEF new
    <2>4. \E k \in impEvents' : k.id = e.id
        <3> DEFINE k == [id |-> e.id, hash |-> e.hash]
        <3>1. k \in impEvents' /\ k.id = e.id
            BY <2>2
        <3> QED BY <3>1, Zenon
    <2>5. ASSUME e.basis[1] \in WithId \cup WithTime, NEW o \in impRows
          PROVE  o.basis # e.basis
        BY <2>1, <2>5 DEF EventsRemain, KnownEvent
    <2>6. EventsRemain'
        BY <2>2, <2>3, <2>4 DEF EventsRemain
    <2>7. ImportedOnce'
        BY <2>1, <2>2, <2>3 DEF ImportedOnce, KnownContent, Live
    <2>8. ForgottenStay'
        BY <2>2, <2>3, <2>5 DEF ForgottenStay, EventsRemain
    <2> QED BY <2>6, <2>7, <2>8
<1> QED BY <1>1, <1>2

\* The rows that are there do not change with a step that leaves them alone.
LEMMA RowsAlone ==
    ASSUME EventsRemain, ImportedOnce, ForgottenStay,
           impEvents' = impEvents, impRows' = impRows, forgotten' = forgotten
    PROVE  EventsRemain' /\ ImportedOnce' /\ ForgottenStay'
BY DEF EventsRemain, ImportedOnce, ForgottenStay, Live

\* A step on job j and its answers keeps what is true of the other jobs.
LEMMA OneJobMoves ==
    ASSUME ImportTyped, JobsFollow, NEW j \in 1..Len(jobs), NEW job \in JobRow, NEW said \in AnswersOf,
           jobs' = [jobs EXCEPT ![j] = job],
           importAnswers' = [importAnswers EXCEPT ![j] = said],
           JobSound(job, said), Told(importAnswers[j]) => Told(said)
    PROVE  /\ jobs' \in Seq(JobRow) /\ importAnswers' \in Seq(AnswersOf)
           /\ Len(jobs') = Len(jobs) /\ Len(importAnswers') = Len(jobs')
           /\ jobs'[j] = job /\ importAnswers'[j] = said
           /\ \A i \in 1..Len(jobs') : JobSound(jobs'[i], importAnswers'[i])
           /\ \A i \in 1..Len(jobs') : Told(importAnswers[i]) => Told(importAnswers'[i])
<1>1. /\ jobs \in Seq(JobRow) /\ importAnswers \in Seq(AnswersOf) /\ Len(importAnswers) = Len(jobs)
    BY DEF ImportTyped
<1>2. /\ jobs' \in Seq(JobRow) /\ Len(jobs') = Len(jobs)
      /\ importAnswers' \in Seq(AnswersOf) /\ Len(importAnswers') = Len(jobs')
    <2> HIDE DEF JobRow, AnswersOf
    <2> QED BY <1>1
<1>3. /\ jobs'[j] = job /\ importAnswers'[j] = said
      /\ \A i \in 1..Len(jobs) : i # j => jobs'[i] = jobs[i] /\ importAnswers'[i] = importAnswers[i]
    <2> HIDE DEF JobRow, AnswersOf
    <2> QED BY <1>1
<1>4. ASSUME NEW i \in 1..Len(jobs')
      PROVE  /\ JobSound(jobs'[i], importAnswers'[i])
             /\ Told(importAnswers[i]) => Told(importAnswers'[i])
    <2>1. CASE i = j
        BY <1>3, <2>1
    <2>2. CASE i # j
        <3>1. jobs'[i] = jobs[i] /\ importAnswers'[i] = importAnswers[i] /\ i \in 1..Len(jobs)
            BY <1>2, <1>3, <2>2
        <3> QED BY <3>1 DEF JobsFollow
    <2> QED BY <2>1, <2>2
<1> QED BY <1>2, <1>3, <1>4

\* A new job with its answers joins the others.
LEMMA OneJobMore ==
    ASSUME ImportTyped, JobsFollow, NEW job \in JobRow, NEW said \in AnswersOf,
           jobs' = Append(jobs, job), importAnswers' = Append(importAnswers, said),
           JobSound(job, said)
    PROVE  /\ jobs' \in Seq(JobRow) /\ importAnswers' \in Seq(AnswersOf)
           /\ Len(jobs') = Len(jobs) + 1 /\ Len(importAnswers') = Len(jobs')
           /\ jobs'[Len(jobs) + 1] = job /\ importAnswers'[Len(jobs) + 1] = said
           /\ \A i \in 1..Len(jobs') : JobSound(jobs'[i], importAnswers'[i])
           /\ \A i \in 1..Len(jobs) : jobs'[i] = jobs[i] /\ importAnswers'[i] = importAnswers[i]
<1>1. /\ jobs \in Seq(JobRow) /\ importAnswers \in Seq(AnswersOf) /\ Len(importAnswers) = Len(jobs)
    BY DEF ImportTyped
<1>2. /\ jobs' \in Seq(JobRow) /\ importAnswers' \in Seq(AnswersOf)
      /\ Len(jobs') = Len(jobs) + 1 /\ Len(importAnswers') = Len(jobs')
      /\ jobs'[Len(jobs) + 1] = job /\ importAnswers'[Len(jobs) + 1] = said
      /\ \A i \in 1..Len(jobs) : jobs'[i] = jobs[i] /\ importAnswers'[i] = importAnswers[i]
    <2> HIDE DEF JobRow, AnswersOf
    <2> QED BY <1>1
<1>3. ASSUME NEW i \in 1..Len(jobs') PROVE JobSound(jobs'[i], importAnswers'[i])
    <2>1. CASE i = Len(jobs) + 1
        BY <1>2, <2>1
    <2>2. CASE i # Len(jobs) + 1
        <3>1. i \in 1..Len(jobs) /\ Len(jobs) \in Nat
            BY <1>1, <1>2, <2>2
        <3>2. jobs'[i] = jobs[i] /\ importAnswers'[i] = importAnswers[i]
            BY <1>2, <3>1
        <3> QED BY <3>1, <3>2 DEF JobsFollow
    <2> QED BY <2>1, <2>2
<1> QED BY <1>2, <1>3


\* The import under way.
LEMMA UnderWay ==
    ASSUME ImportTyped, JobsFollow, running # NoImport
    PROVE  /\ running.job \in 1..Len(jobs) /\ running.plan \in SUBSET SourceRow
           /\ running = [job |-> running.job, plan |-> running.plan]
           /\ jobs[running.job] \in JobRow /\ importAnswers[running.job] \in AnswersOf
           /\ JobSound(jobs[running.job], importAnswers[running.job])
           /\ PlanSound(jobs[running.job], importAnswers[running.job], running.plan)
<1> HIDE DEF JobRow, AnswersOf
<1>1. running \in [job : 1..Len(jobs), plan : SUBSET SourceRow]
    BY DEF ImportTyped
<1>2. jobs \in Seq(JobRow) /\ importAnswers \in Seq(AnswersOf) /\ Len(importAnswers) = Len(jobs)
    BY DEF ImportTyped
<1>3. running.job \in 1..Len(jobs) /\ running.plan \in SUBSET SourceRow
      /\ running = [job |-> running.job, plan |-> running.plan]
    BY <1>1
<1>4. jobs[running.job] \in JobRow /\ importAnswers[running.job] \in AnswersOf
    BY <1>2, <1>3
<1> QED BY <1>3, <1>4 DEF JobsFollow

\* One row of the plan is answered.
LEMMA RowAnswered ==
    ASSUME ImportTyped, JobsFollow, running # NoImport, NEW r \in running.plan,
           NEW what \in {"inserted", "deduped", "failed"}, NEW job \in JobRow,
           NEW old, old = jobs[running.job],
           job.status = old.status, job.dry = old.dry, job.total = old.total,
           job.inserted + job.deduped + job.failed = old.inserted + old.deduped + old.failed + 1,
           job.inserted + job.deduped > 0 => old.inserted + old.deduped > 0 \/ what # "failed",
           jobs' = [jobs EXCEPT ![running.job] = job], Answered(r, what), version' = version
    PROVE  /\ ImportTyped'
           /\ \A i \in 1..Len(jobs') : JobSound(jobs'[i], importAnswers'[i])
           /\ running' # NoImport =>
                PlanSound(jobs'[running'.job], importAnswers'[running'.job], running'.plan)
           /\ \A i \in 1..Len(jobs') : Told(importAnswers[i]) => Told(importAnswers'[i])
           /\ what # "failed" => Told(importAnswers'[running.job])
           /\ Len(jobs') = Len(jobs)
<1> DEFINE j == running.job
           said == importAnswers[j]
<1>0. PICK plan \in SUBSET SourceRow : plan = running.plan
    BY UnderWay
<1>1. /\ j \in 1..Len(jobs) /\ running = [job |-> j, plan |-> plan]
      /\ old \in JobRow /\ said \in AnswersOf
      /\ JobSound(old, said) /\ PlanSound(old, said, plan)
    BY <1>0, UnderWay
<1>2. PICK new : new = [q \in DOMAIN said \cup {r} |-> IF q = r THEN what ELSE said[q]]
    OBVIOUS
<1>3. importAnswers' = [importAnswers EXCEPT ![j] = new]
    BY <1>2, Zenon DEF Answered
<1>4. running' = [job |-> j, plan |-> plan \ {r}]
    <2>1. running' = [running EXCEPT !.plan = running.plan \ {r}]
        BY DEF Answered
    <2>2. PICK k : k = running.job
        OBVIOUS
    <2>3. running = [job |-> k, plan |-> plan]
        BY <1>1, <2>2
    <2>4. running' = [[job |-> k, plan |-> plan] EXCEPT !.plan = plan \ {r}]
        BY <1>0, <2>1, <2>3, Zenon
    <2>5. running' = [job |-> k, plan |-> plan \ {r}]
        BY <2>4
    <2> QED BY <2>2, <2>5
<1>5. r \in plan /\ r \in SourceRow /\ r \in Source
    BY <1>0 DEF Source
<1>6. new \in AnswersOf
    <2>1. PICK D \in SUBSET Source : said \in [D -> {"inserted", "deduped", "failed"}]
        BY <1>1, Zenon DEF AnswersOf
    <2> HIDE DEF said
    <2>2. new \in [D \cup {r} -> {"inserted", "deduped", "failed"}]
        BY <1>2, <2>1
    <2>3. D \cup {r} \in SUBSET Source
        BY <1>5, <2>1
    <2> QED BY <2>2, <2>3, Zenon DEF AnswersOf
<1> HIDE DEF said, j
<1>7. ~old.dry /\ DOMAIN said = SourceRow \ plan
    BY <1>1, <1>5 DEF PlanSound
<1>8. /\ DOMAIN new = SourceRow \ (plan \ {r}) /\ new[r] = what
      /\ \A q \in DOMAIN said : new[q] = said[q]
    <2>1. r \notin DOMAIN said
        BY <1>5, <1>7
    <2> QED BY <1>2, <1>5, <1>7, <2>1
<1>9. (Told(said) => Told(new)) /\ (what # "failed" => Told(new))
    BY <1>5, <1>7, <1>8 DEF Told
<1>10. IsFiniteSet(plan) /\ Cardinality(plan \ {r}) = Cardinality(plan) - 1
       /\ Cardinality(plan) \in Nat
    BY <1>5, FS_Subset, FS_RemoveElement, FS_CardinalityType, ImportAssumption
<1>11. job.status = "running"
    BY <1>1 DEF PlanSound
<1>12. JobSound(job, new)
    BY <1>1, <1>9, <1>11 DEF JobSound
<1>13. PlanSound(job, new, plan \ {r})
    <2>1. ~job.dry
        BY <1>7
    <2>2. old.inserted + old.deduped + old.failed + Cardinality(plan) = old.total
          /\ old.total = Cardinality(SourceRow)
        BY <1>1, <1>7 DEF PlanSound
    <2>3. /\ {old.inserted, old.deduped, old.failed} \subseteq Nat
          /\ {job.inserted, job.deduped, job.failed} \subseteq Nat
        BY <1>1 DEF JobRow
    <2>4. job.inserted + job.deduped + job.failed + Cardinality(plan \ {r}) = job.total
        BY <1>10, <2>2, <2>3
    <2> QED BY <1>8, <1>11, <2>1, <2>2, <2>4 DEF PlanSound
<1>14. /\ jobs' \in Seq(JobRow) /\ importAnswers' \in Seq(AnswersOf)
       /\ Len(jobs') = Len(jobs) /\ Len(importAnswers') = Len(jobs')
       /\ jobs'[j] = job /\ importAnswers'[j] = new
       /\ \A i \in 1..Len(jobs') : JobSound(jobs'[i], importAnswers'[i])
       /\ \A i \in 1..Len(jobs') : Told(importAnswers[i]) => Told(importAnswers'[i])
    <2>1. jobs' = [jobs EXCEPT ![j] = job]
        BY DEF j
    <2>2. Told(importAnswers[j]) => Told(new)
        BY <1>9 DEF said
    <2> HIDE DEF JobRow, AnswersOf
    <2> QED BY <1>1, <1>3, <1>6, <1>12, <2>1, <2>2, OneJobMoves
<1>15. ImportTyped'
    <2>1. running' \in [job : 1..Len(jobs'), plan : SUBSET SourceRow]
        BY <1>1, <1>4, <1>14
    <2> QED BY <1>14, <2>1 DEF ImportTyped
<1>16. running'.job = j /\ running'.plan = plan \ {r}
    BY <1>4
<1> QED BY <1>9, <1>13, <1>14, <1>15, <1>16 DEF j


\* The event of a row has its stable id.
LEMMA PlanEvents ==
    ASSUME ImportTyped, NEW r \in SourceRow, NEW now \in Nat
    PROVE  /\ PlanEvent(r, now).id \in ImportId
           /\ PlanEvent(r, now).basis = <<r, version[r]>>
           /\ r \in WithId \cup WithTime =>
                  PlanEvent(r, now).id = StableId(PlanEvent(r, now).basis)
<1>1. version[r] \in Nat /\ AsIso(r, now) \in Nat
    BY DEF ImportTyped, Source, AsIso
<1>2. SourceId(r, now) \in {<<q>> : q \in SourceRow} \cup (SourceRow \X Nat \X Nat)
    BY <1>1 DEF SourceId
<1>3. PlanEvent(r, now).id = <<SourceId(r, now)>> /\ PlanEvent(r, now).basis = <<r, version[r]>>
    BY DEF PlanEvent, EventId
<1>4. PlanEvent(r, now).id \in ImportId
    BY <1>2, <1>3, Zenon DEF ImportId
<1>5. ASSUME r \in WithId \cup WithTime
      PROVE  <<SourceId(r, now)>> = StableId(<<r, version[r]>>)
    BY <1>5 DEF StableId, SourceId, AsIso
<1> QED BY <1>3, <1>4, <1>5

\* A step that leaves the rows of the store and the jobs' answers alone.
LEMMA TagsKept ==
    ASSUME JobsFollow, impRows' = impRows, Len(jobs') \in Nat, Len(jobs) \in Nat,
           Len(jobs') >= Len(jobs),
           \A i \in 1..Len(jobs) : Told(importAnswers[i]) => Told(importAnswers'[i])
    PROVE  \A o \in impRows' : o.tag \in 1..Len(jobs') /\ Told(importAnswers'[o.tag])
BY DEF JobsFollow

\* startClaudeMemImport ...
LEMMA StartStep ==
    ASSUME ImportInv, NEW dry \in BOOLEAN, StartClaudeMemImport(dry) PROVE ImportInv'
<1> DEFINE n == Len(jobs) + 1
           job == [Job(n, dry) EXCEPT !.total = Cardinality(SourceRow)]
           said == [r \in {} |-> "none"]
           plan == IF dry THEN {} ELSE SourceRow
<1>1. /\ jobs' = Append(jobs, job) /\ importAnswers' = Append(importAnswers, said)
      /\ running' = [job |-> n, plan |-> plan] /\ version' = version
      /\ impEvents' = impEvents /\ impRows' = impRows /\ forgotten' = forgotten
    BY DEF StartClaudeMemImport
<1>2. Cardinality(SourceRow) \in Nat /\ Cardinality({}) = 0
    BY FS_CardinalityType, FS_EmptySet, ImportAssumption
<1>3. /\ job \in JobRow /\ job.status = "running" /\ job.dry = dry
      /\ job.total = Cardinality(SourceRow)
      /\ job.inserted = 0 /\ job.deduped = 0 /\ job.failed = 0
    BY <1>2 DEF Job, JobRow
<1>4. said \in AnswersOf /\ DOMAIN said = {}
    <2>1. said \in [{} -> {"inserted", "deduped", "failed"}]
        OBVIOUS
    <2> QED BY <2>1, Zenon DEF AnswersOf
<1>5. PICK picked \in JobRow, told \in AnswersOf : picked = job /\ told = said
    BY <1>3, <1>4, Zenon
<1> HIDE DEF job, said
<1>6. JobSound(job, said)
    BY <1>3 DEF JobSound
<1>7. PlanSound(job, said, plan)
    <2>1. ~dry => plan = SourceRow /\ DOMAIN said = SourceRow \ plan
        BY <1>4
    <2>2. 0 + 0 + 0 + Cardinality(SourceRow) = Cardinality(SourceRow)
        BY <1>2
    <2> QED BY <1>3, <2>1, <2>2 DEF PlanSound
<1>8. /\ jobs' \in Seq(JobRow) /\ importAnswers' \in Seq(AnswersOf)
      /\ Len(jobs') = n /\ Len(importAnswers') = Len(jobs')
      /\ jobs'[n] = job /\ importAnswers'[n] = said
      /\ \A i \in 1..Len(jobs') : JobSound(jobs'[i], importAnswers'[i])
      /\ \A i \in 1..Len(jobs) : jobs'[i] = jobs[i] /\ importAnswers'[i] = importAnswers[i]
    <2> HIDE DEF JobRow, AnswersOf
    <2> QED BY <1>1, <1>5, <1>6, OneJobMore DEF ImportInv
<1>9. Len(jobs) \in Nat
    BY DEF ImportInv, ImportTyped
<1>10. ImportTyped'
    <2>1. running' \in [job : 1..Len(jobs'), plan : SUBSET SourceRow]
        BY <1>1, <1>8, <1>9
    <2> QED BY <1>1, <1>8, <2>1 DEF ImportInv, ImportTyped
<1>11. JobsFollow'
    <2>1. \A o \in impRows' : o.tag \in 1..Len(jobs') /\ Told(importAnswers'[o.tag])
        BY <1>1, <1>8, <1>9, TagsKept DEF ImportInv
    <2>2. running'.job = n /\ running'.plan = plan
        BY <1>1
    <2>3. PlanSound(jobs'[running'.job], importAnswers'[running'.job], running'.plan)
        BY <1>7, <1>8, <2>2
    <2> QED BY <1>8, <2>1, <2>3 DEF JobsFollow
<1> QED BY <1>1, <1>10, <1>11, RowsAlone DEF ImportInv

\* ... records its rows ...
LEMMA RowStep ==
    ASSUME ImportInv, NEW r \in SourceRow, ImportRow(r) PROVE ImportInv'
<1> DEFINE j == running.job
<1>0. ImportTyped /\ JobsFollow /\ EventsRemain /\ ImportedOnce /\ ForgottenStay
    BY DEF ImportInv
<1>1. running # NoImport /\ r \in running.plan /\ version' = version /\ forgotten' = forgotten
    BY DEF ImportRow
<1>2. /\ j \in 1..Len(jobs) /\ j \in Nat /\ jobs[j] \in JobRow
    BY <1>0, <1>1, UnderWay
<1>3. PICK e : e = PlanEvent(r, j)
    OBVIOUS
<1>4. PICK what : what = Outcome(e)
    OBVIOUS
<1>5. what \in {"inserted", "deduped"}
    BY <1>4 DEF Outcome
<1>6. e.id \in ImportId /\ e.basis = <<r, version[r]>>
      /\ (e.basis[1] \in WithId \cup WithTime => e.id = StableId(e.basis))
    BY <1>0, <1>2, <1>3, PlanEvents
<1>7. StoreEvent(e, j) /\ Answered(r, what)
      /\ jobs' = [jobs EXCEPT
                 ![j].inserted = IF what = "inserted" THEN @ + 1 ELSE @,
                 ![j].deduped = IF what = "deduped" THEN @ + 1 ELSE @,
                 ![j].samples = IF what = "inserted" /\ Cardinality(@) < SampleLimit
                                THEN @ \cup {e.id} ELSE @]
    BY <1>3, <1>4 DEF ImportRow
<1>8. PICK old \in JobRow : old = jobs[j]
    BY <1>2
<1> DEFINE made == [old EXCEPT
                      !.inserted = IF what = "inserted" THEN @ + 1 ELSE @,
                      !.deduped = IF what = "deduped" THEN @ + 1 ELSE @,
                      !.samples = IF what = "inserted" /\ Cardinality(@) < SampleLimit
                                  THEN @ \cup {e.id} ELSE @]
<1>9. /\ made \in JobRow /\ made.status = old.status /\ made.dry = old.dry
      /\ made.total = old.total
      /\ made.inserted + made.deduped + made.failed = old.inserted + old.deduped + old.failed + 1
    <2>1. /\ made.status = old.status /\ made.dry = old.dry /\ made.total = old.total
          /\ made.failed = old.failed
          /\ made.inserted = IF what = "inserted" THEN old.inserted + 1 ELSE old.inserted
          /\ made.deduped = IF what = "deduped" THEN old.deduped + 1 ELSE old.deduped
        BY DEF JobRow
    <2>2. {old.inserted, old.deduped, old.failed} \subseteq Nat
        BY DEF JobRow
    <2>3. made.inserted + made.deduped + made.failed = old.inserted + old.deduped + old.failed + 1
        BY <1>5, <2>1, <2>2
    <2>4. PICK a \in Nat, b \in Nat, samples \in SUBSET ImportId :
             made = [old EXCEPT !.inserted = a, !.deduped = b, !.samples = samples]
        <3>1. (IF what = "inserted" /\ Cardinality(old.samples) < SampleLimit
               THEN old.samples \cup {e.id} ELSE old.samples) \in SUBSET ImportId
            BY <1>6 DEF JobRow
        <3>2. /\ (IF what = "inserted" THEN old.inserted + 1 ELSE old.inserted) \in Nat
              /\ (IF what = "deduped" THEN old.deduped + 1 ELSE old.deduped) \in Nat
            BY <2>2
        <3> QED BY <3>1, <3>2, Zenon
    <2>5. made \in JobRow
        <3> HIDE DEF made
        <3> QED BY <2>4 DEF JobRow
    <2> QED BY <2>1, <2>3, <2>5
<1>10. PICK job \in JobRow : job = made
    BY <1>9
<1>11. jobs' = [jobs EXCEPT ![j] = job]
    <2>1. jobs \in Seq(JobRow)
        BY <1>0 DEF ImportTyped
    <2> HIDE DEF j
    <2> QED BY <1>2, <1>7, <1>8, <1>10, <2>1, ZenonT(60) DEF JobRow
<1>12. /\ ImportTyped'
       /\ \A i \in 1..Len(jobs') : JobSound(jobs'[i], importAnswers'[i])
       /\ running' # NoImport =>
            PlanSound(jobs'[running'.job], importAnswers'[running'.job], running'.plan)
       /\ \A i \in 1..Len(jobs') : Told(importAnswers[i]) => Told(importAnswers'[i])
       /\ Told(importAnswers'[j])
       /\ Len(jobs') = Len(jobs)
    <2>1. what \in {"inserted", "deduped", "failed"} /\ what # "failed"
        BY <1>5
    <2>2. job.status = old.status /\ job.dry = old.dry /\ job.total = old.total
        BY <1>9, <1>10
    <2>3. job.inserted + job.deduped + job.failed = old.inserted + old.deduped + old.failed + 1
        BY <1>9, <1>10
    <2>4. job.inserted + job.deduped > 0 => old.inserted + old.deduped > 0 \/ what # "failed"
        BY <2>1
    <2>5. Answered(r, what) /\ old = jobs[running.job] /\ jobs' = [jobs EXCEPT ![running.job] = job]
        BY <1>7, <1>8, <1>11
    <2> HIDE DEF made, JobRow, j
    <2>6. /\ ImportTyped'
          /\ \A i \in 1..Len(jobs') : JobSound(jobs'[i], importAnswers'[i])
          /\ running' # NoImport =>
               PlanSound(jobs'[running'.job], importAnswers'[running'.job], running'.plan)
          /\ \A i \in 1..Len(jobs') : Told(importAnswers[i]) => Told(importAnswers'[i])
          /\ what # "failed" => Told(importAnswers'[running.job])
          /\ Len(jobs') = Len(jobs)
        BY <1>0, <1>1, <2>1, <2>2, <2>3, <2>4, <2>5, RowAnswered, Zenon
    <2> QED BY <2>1, <2>6 DEF j
<1>13. \A o \in impRows' : o.tag \in 1..Len(jobs') /\ Told(importAnswers'[o.tag])
    <2> DEFINE new == [basis |-> e.basis, event |-> e.id, tag |-> j, private |-> e.private]
    <2>1. impRows' \subseteq impRows \cup {new}
        BY <1>7 DEF StoreEvent
    <2>2. new.tag = j
        OBVIOUS
    <2> HIDE DEF new, j
    <2>3. \A o \in impRows : o.tag \in 1..Len(jobs) /\ Told(importAnswers[o.tag])
        BY <1>0 DEF JobsFollow
    <2> QED BY <1>2, <1>12, <2>1, <2>2, <2>3
<1>14. EventsRemain' /\ ImportedOnce' /\ ForgottenStay'
    <2>1. PICK k : k = j
        OBVIOUS
    <2>2. StoreEvent(e, k)
        BY <1>7, <2>1
    <2> QED BY <1>0, <1>1, <1>6, <2>2, StoreKeepsRows
<1> QED BY <1>12, <1>13, <1>14 DEF ImportInv, JobsFollow


\* ... or is told that one failed ...
LEMMA FailStep ==
    ASSUME ImportInv, NEW r \in SourceRow, RowFails(r) PROVE ImportInv'
<1> DEFINE j == running.job
<1>0. ImportTyped /\ JobsFollow /\ EventsRemain /\ ImportedOnce /\ ForgottenStay
    BY DEF ImportInv
<1>1. /\ running # NoImport /\ r \in running.plan /\ version' = version
      /\ forgotten' = forgotten /\ impEvents' = impEvents /\ impRows' = impRows
      /\ Answered(r, "failed") /\ jobs' = [jobs EXCEPT ![j].failed = @ + 1]
    BY DEF RowFails
<1>2. j \in 1..Len(jobs) /\ jobs[j] \in JobRow
    BY <1>0, <1>1, UnderWay
<1>3. PICK old \in JobRow : old = jobs[j]
    BY <1>2
<1>4. PICK job \in JobRow : job = [old EXCEPT !.failed = @ + 1]
    <2>1. [old EXCEPT !.failed = @ + 1] \in JobRow
        BY DEF JobRow
    <2> QED BY <2>1
<1>5. /\ job.status = old.status /\ job.dry = old.dry /\ job.total = old.total
      /\ job.inserted = old.inserted /\ job.deduped = old.deduped /\ job.failed = old.failed + 1
      /\ {old.inserted, old.deduped, old.failed} \subseteq Nat
    BY <1>4 DEF JobRow
<1>6. jobs' = [jobs EXCEPT ![j] = job]
    BY <1>1, <1>3, <1>4, Zenon
<1>7. PICK what \in {"inserted", "deduped", "failed"} : what = "failed"
    OBVIOUS
<1>8. /\ ImportTyped'
      /\ \A i \in 1..Len(jobs') : JobSound(jobs'[i], importAnswers'[i])
      /\ running' # NoImport =>
           PlanSound(jobs'[running'.job], importAnswers'[running'.job], running'.plan)
      /\ \A i \in 1..Len(jobs') : Told(importAnswers[i]) => Told(importAnswers'[i])
      /\ what # "failed" => Told(importAnswers'[running.job])
      /\ Len(jobs') = Len(jobs)
    <2>1. job.inserted + job.deduped + job.failed = old.inserted + old.deduped + old.failed + 1
        BY <1>5
    <2>2. job.inserted + job.deduped > 0 => old.inserted + old.deduped > 0 \/ what # "failed"
        BY <1>5
    <2>3. job.status = old.status /\ job.dry = old.dry /\ job.total = old.total
        BY <1>5
    <2>4. Answered(r, what) /\ old = jobs[running.job] /\ jobs' = [jobs EXCEPT ![running.job] = job]
        BY <1>1, <1>3, <1>6, <1>7
    <2>5. running # NoImport /\ r \in running.plan /\ version' = version
        BY <1>1
    <2>6. what \in {"inserted", "deduped", "failed"}
        OBVIOUS
    <2> HIDE DEF JobRow, j
    <2> QED BY <1>0, <2>1, <2>2, <2>3, <2>4, <2>5, <2>6, RowAnswered, Zenon
<1>9. Len(jobs) \in Nat
    BY <1>0 DEF ImportTyped
<1>10. \A o \in impRows' : o.tag \in 1..Len(jobs') /\ Told(importAnswers'[o.tag])
    BY <1>0, <1>1, <1>8, <1>9, TagsKept
<1> QED BY <1>0, <1>1, <1>8, <1>10, RowsAlone DEF ImportInv, JobsFollow

\* ... and ends, in one of three ways.
LEMMA ImportEnds ==
    ASSUME ImportInv, running # NoImport, NEW job \in JobRow,
           jobs' = [jobs EXCEPT ![running.job] = job], running' = NoImport,
           JobSound(job, importAnswers[running.job]), importAnswers' = importAnswers,
           version' = version, impEvents' = impEvents, impRows' = impRows, forgotten' = forgotten
    PROVE  ImportInv'
<1>0. ImportTyped /\ JobsFollow /\ EventsRemain /\ ImportedOnce /\ ForgottenStay
    BY DEF ImportInv
<1>1. PICK j \in 1..Len(jobs), said \in AnswersOf : j = running.job /\ said = importAnswers[j]
    BY <1>0, UnderWay
<1>2. importAnswers' = [importAnswers EXCEPT ![j] = said]
    <2>1. importAnswers \in Seq(AnswersOf)
        BY <1>0 DEF ImportTyped
    <2> HIDE DEF AnswersOf
    <2> QED BY <1>1, <2>1
<1>3. /\ jobs' \in Seq(JobRow) /\ importAnswers' \in Seq(AnswersOf)
      /\ Len(jobs') = Len(jobs) /\ Len(importAnswers') = Len(jobs')
      /\ \A i \in 1..Len(jobs') : JobSound(jobs'[i], importAnswers'[i])
    <2>1. jobs' = [jobs EXCEPT ![j] = job] /\ JobSound(job, said)
        BY <1>1
    <2>2. Told(importAnswers[j]) => Told(said)
        BY <1>1
    <2> HIDE DEF JobRow, AnswersOf
    <2> QED BY <1>0, <1>1, <1>2, <2>1, <2>2, OneJobMoves, Zenon
<1>4. ImportTyped'
    BY <1>0, <1>3 DEF ImportTyped
<1>5. Len(jobs) \in Nat
    BY <1>0 DEF ImportTyped
<1>6. \A o \in impRows' : o.tag \in 1..Len(jobs') /\ Told(importAnswers'[o.tag])
    BY <1>0, <1>3, <1>5, TagsKept
<1> QED BY <1>0, <1>3, <1>4, <1>6, RowsAlone DEF ImportInv, JobsFollow

\* The import is completed, fails or dies with the process.
LEMMA EndStep ==
    ASSUME ImportInv, FinishImport \/ ImportFails \/ ImportCrash PROVE ImportInv'
<1> DEFINE j == running.job
<1>0. running # NoImport
    BY DEF FinishImport, ImportFails, ImportCrash
<1>1. /\ j \in 1..Len(jobs) /\ jobs[j] \in JobRow
      /\ JobSound(jobs[j], importAnswers[j]) /\ PlanSound(jobs[j], importAnswers[j], running.plan)
    BY <1>0, UnderWay DEF ImportInv
<1>2. PICK old \in JobRow : old = jobs[j]
    BY <1>1
<1>3. /\ running' = NoImport /\ importAnswers' = importAnswers /\ version' = version
      /\ impEvents' = impEvents /\ impRows' = impRows /\ forgotten' = forgotten
    BY DEF FinishImport, ImportFails, ImportCrash
<1>4. CASE FinishImport
    <2>1. jobs' = [jobs EXCEPT ![j].status = "completed"] /\ running.plan = {}
        BY <1>4 DEF FinishImport
    <2>2. PICK job : job = [old EXCEPT !.status = "completed"]
        OBVIOUS
    <2>3. /\ job \in JobRow /\ job.status = "completed" /\ job.dry = old.dry
          /\ job.total = old.total /\ job.inserted = old.inserted
          /\ job.deduped = old.deduped /\ job.failed = old.failed
          /\ old.inserted + old.deduped + old.failed \in Nat
        BY <2>2 DEF JobRow
    <2>4. jobs' = [jobs EXCEPT ![j] = job]
        BY <1>2, <2>1, <2>2, Zenon
    <2>5. Cardinality({}) = 0
        BY FS_EmptySet
    <2>6. JobSound(job, importAnswers[j])
        <3>1. job.inserted + job.deduped > 0 => Told(importAnswers[j])
            BY <1>1, <1>2, <2>3 DEF JobSound
        <3>2. ~old.dry => /\ old.total = Cardinality(SourceRow)
                          /\ DOMAIN importAnswers[j] = SourceRow \ {}
                          /\ old.inserted + old.deduped + old.failed + 0 = old.total
            BY <1>1, <1>2, <2>1, <2>5 DEF PlanSound
        <3> QED BY <2>3, <3>1, <3>2 DEF JobSound
    <2> HIDE DEF JobRow
    <2> QED BY <1>0, <1>3, <2>3, <2>4, <2>6, ImportEnds
<1>5. CASE ImportFails \/ ImportCrash
    <2>1. PICK status \in {"running", "failed"} :
             jobs' = [jobs EXCEPT ![j] = [Job(1, old.dry) EXCEPT !.status = status]]
        <3>1. CASE ImportFails
            BY <1>2, <3>1, Zenon DEF ImportFails
        <3>2. CASE ImportCrash
            <4>1. Job(1, old.dry) = [Job(1, old.dry) EXCEPT !.status = "running"]
                BY DEF Job
            <4>2. jobs' = [jobs EXCEPT ![j] = Job(1, old.dry)]
                BY <1>2, <3>2, Zenon DEF ImportCrash
            <4>3. jobs' = [jobs EXCEPT ![j] = [Job(1, old.dry) EXCEPT !.status = "running"]]
                BY <4>1, <4>2, Zenon
            <4> QED BY <4>3
        <3> QED BY <1>5, <3>1, <3>2
    <2>2. PICK job : job = [Job(1, old.dry) EXCEPT !.status = status]
        OBVIOUS
    <2>3. job \in JobRow /\ job.status # "completed" /\ job.inserted = 0 /\ job.deduped = 0
        BY <2>2 DEF Job, JobRow
    <2>4. jobs' = [jobs EXCEPT ![j] = job]
        BY <2>1, <2>2, Zenon
    <2>5. JobSound(job, importAnswers[j])
        BY <2>3 DEF JobSound
    <2> HIDE DEF JobRow
    <2> QED BY <1>0, <1>3, <2>3, <2>4, <2>5, ImportEnds
<1> QED BY <1>4, <1>5

\* An issue, a decision or a chunk of a document is imported.
LEMMA KnowledgeStep ==
    ASSUME ImportInv, NEW i \in Issue \cup Chunk, NEW e, e.basis = <<i, version[i]>>, Knowledge(i, e)
    PROVE  ImportInv'
<1> DEFINE n == Len(jobs) + 1
           job == [Job(1, FALSE) EXCEPT !.status = "knowledge"]
           said == [r \in {i} |-> Outcome(e)]
<1>0. ImportTyped /\ JobsFollow /\ EventsRemain /\ ImportedOnce /\ ForgottenStay
    BY DEF ImportInv
<1>1. /\ running = NoImport /\ running' = running /\ version' = version /\ forgotten' = forgotten
      /\ StoreEvent(e, n)
      /\ jobs' = Append(jobs, job) /\ importAnswers' = Append(importAnswers, said)
    BY DEF Knowledge
<1>2. job \in JobRow /\ JobSound(job, said)
    <2>1. job \in JobRow /\ job.status # "completed" /\ job.inserted = 0 /\ job.deduped = 0
        BY DEF Job, JobRow
    <2> HIDE DEF job, said
    <2> QED BY <2>1 DEF JobSound
<1>3. said \in AnswersOf
    <2>1. Outcome(e) \in {"inserted", "deduped", "failed"}
        BY DEF Outcome
    <2>2. said \in [{i} -> {"inserted", "deduped", "failed"}]
        BY <2>1
    <2>3. {i} \in SUBSET Source
        BY DEF Source
    <2> QED BY <2>2, <2>3, Zenon DEF AnswersOf
<1>4. PICK picked \in JobRow, told \in AnswersOf : picked = job /\ told = said
    BY <1>2, <1>3, Zenon
<1>5. said[i] = Outcome(e) /\ i \in DOMAIN said /\ Outcome(e) # "failed"
    BY DEF Outcome
<1>6. Told(said)
    BY <1>5, Zenon DEF Told
<1> HIDE DEF job, said
<1>7. /\ jobs' \in Seq(JobRow) /\ importAnswers' \in Seq(AnswersOf)
      /\ Len(jobs') = n /\ Len(importAnswers') = Len(jobs')
      /\ jobs'[n] = job /\ importAnswers'[n] = said
      /\ \A k \in 1..Len(jobs') : JobSound(jobs'[k], importAnswers'[k])
      /\ \A k \in 1..Len(jobs) : jobs'[k] = jobs[k] /\ importAnswers'[k] = importAnswers[k]
    <2> HIDE DEF JobRow, AnswersOf
    <2> QED BY <1>0, <1>1, <1>2, <1>4, OneJobMore
<1>8. Len(jobs) \in Nat
    BY <1>0 DEF ImportTyped
<1>9. ImportTyped'
    BY <1>0, <1>1, <1>7 DEF ImportTyped
<1>10. \A o \in impRows' : o.tag \in 1..Len(jobs') /\ Told(importAnswers'[o.tag])
    <2> DEFINE new == [basis |-> e.basis, event |-> e.id, tag |-> n, private |-> e.private]
    <2>1. impRows' \subseteq impRows \cup {new}
        BY <1>1 DEF StoreEvent
    <2>2. new.tag = n
        OBVIOUS
    <2> HIDE DEF new
    <2>3. \A o \in impRows : o.tag \in 1..Len(jobs) /\ Told(importAnswers[o.tag])
        BY <1>0 DEF JobsFollow
    <2> QED BY <1>6, <1>7, <1>8, <2>1, <2>2, <2>3
<1>11. EventsRemain' /\ ImportedOnce' /\ ForgottenStay'
    <2>1. PICK k : k = n
        OBVIOUS
    <2>2. StoreEvent(e, k)
        BY <1>1, <2>1
    <2>3. e.basis[1] \notin WithId \cup WithTime
        BY ImportAssumption
    <2> QED BY <1>0, <1>1, <2>2, <2>3, StoreKeepsRows
<1> QED BY <1>1, <1>7, <1>9, <1>10, <1>11 DEF ImportInv, JobsFollow


\* No file holds a row before the first import.
LEMMA ImportStart == ImportInit => ImportInv
<1> SUFFICES ASSUME ImportInit PROVE ImportInv
    OBVIOUS
<1>1. /\ version \in [Source -> Nat] /\ jobs = <<>> /\ importAnswers = <<>>
      /\ running = NoImport /\ impRows = {} /\ forgotten = {}
    BY DEF ImportInit
<1>2. ImportTyped
    <2>1. jobs \in Seq(JobRow) /\ importAnswers \in Seq(AnswersOf) /\ Len(importAnswers) = Len(jobs)
        BY <1>1, EmptySeq
    <2> QED BY <1>1, <2>1 DEF ImportTyped
<1>3. JobsFollow
    <2>1. 1..Len(jobs) = {}
        BY <1>1
    <2> QED BY <1>1, <2>1 DEF JobsFollow
<1>4. EventsRemain /\ ImportedOnce /\ ForgottenStay
    BY <1>1 DEF EventsRemain, ImportedOnce, ForgottenStay, Live
<1> QED BY <1>2, <1>3, <1>4 DEF ImportInv

\* Every step of the imports keeps the invariant.
LEMMA ImportKept == ImportInv /\ [ImportNext]_importVars => ImportInv'
<1> SUFFICES ASSUME ImportInv, [ImportNext]_importVars PROVE ImportInv'
    OBVIOUS
<1>0. ImportTyped /\ JobsFollow /\ EventsRemain /\ ImportedOnce /\ ForgottenStay
    BY DEF ImportInv
<1>1. CASE UNCHANGED importVars
    <2>1. /\ version' = version /\ impEvents' = impEvents /\ impRows' = impRows
          /\ forgotten' = forgotten /\ jobs' = jobs /\ running' = running
          /\ importAnswers' = importAnswers
        BY <1>1 DEF importVars
    <2>2. ImportTyped' /\ JobsFollow'
        BY <1>0, <2>1 DEF ImportTyped, JobsFollow
    <2> QED BY <1>0, <2>1, <2>2, RowsAlone DEF ImportInv
<1>2. CASE \E dry \in BOOLEAN : StartClaudeMemImport(dry)
    BY <1>2, StartStep
<1>3. CASE \E r \in SourceRow : ImportRow(r) \/ RowFails(r)
    BY <1>3, RowStep, FailStep
<1>4. CASE FinishImport \/ ImportFails \/ ImportCrash
    BY <1>4, EndStep
<1>5. CASE \E i \in Issue : IngestKnowledge(i)
    <2>1. PICK i \in Issue : IngestKnowledge(i)
        BY <1>5
    <2>2. PICK e : e = KnowledgeEvent(i, Len(jobs))
        OBVIOUS
    <2>3. e.basis = <<i, version[i]>> /\ Knowledge(i, e)
        BY <2>1, <2>2 DEF IngestKnowledge, KnowledgeEvent
    <2> QED BY <2>3, KnowledgeStep
<1>6. CASE \E c \in Chunk : IngestChunk(c)
    <2>1. PICK c \in Chunk : IngestChunk(c)
        BY <1>6
    <2>2. PICK e : e = ChunkEvent(c, Len(jobs))
        OBVIOUS
    <2>3. e.basis = <<c, version[c]>> /\ Knowledge(c, e)
        BY <2>1, <2>2 DEF IngestChunk, ChunkEvent
    <2> QED BY <2>3, KnowledgeStep
<1>7. CASE \E s \in Source : EditSource(s)
    <2>1. PICK s \in Source : EditSource(s)
        BY <1>7
    <2>2. /\ version' = [version EXCEPT ![s] = @ + 1]
          /\ impEvents' = impEvents /\ impRows' = impRows /\ forgotten' = forgotten
          /\ jobs' = jobs /\ running' = running /\ importAnswers' = importAnswers
        BY <2>1 DEF EditSource
    <2>3. version' \in [Source -> Nat]
        BY <1>0, <2>2 DEF ImportTyped
    <2>4. ImportTyped' /\ JobsFollow'
        BY <1>0, <2>2, <2>3 DEF ImportTyped, JobsFollow
    <2> QED BY <1>0, <2>2, <2>4, RowsAlone DEF ImportInv
<1>8. CASE \E o \in impRows : ForgetRow(o)
    <2>1. PICK o \in impRows : ForgetRow(o)
        BY <1>8
    <2>2. /\ o \in Live /\ forgotten' = forgotten \cup {o}
          /\ version' = version /\ impEvents' = impEvents /\ impRows' = impRows
          /\ jobs' = jobs /\ running' = running /\ importAnswers' = importAnswers
        BY <2>1 DEF ForgetRow
    <2>3. ImportTyped' /\ JobsFollow'
        BY <1>0, <2>2 DEF ImportTyped, JobsFollow
    <2>4. EventsRemain' /\ ImportedOnce'
        BY <1>0, <2>2 DEF EventsRemain, ImportedOnce, Live
    <2>5. ForgottenStay'
        <3>1. SUFFICES ASSUME NEW a \in forgotten', NEW p \in impRows', a.basis = p.basis,
                              a.basis[1] \in WithId \cup WithTime
                       PROVE  a = p
            BY DEF ForgottenStay
        <3>2. CASE a \in forgotten
            BY <1>0, <2>2, <3>1, <3>2 DEF ForgottenStay
        <3>3. CASE a = o /\ p \in forgotten
            BY <1>0, <2>2, <3>1, <3>3 DEF ForgottenStay
        <3>4. CASE a = o /\ p \notin forgotten
            BY <1>0, <2>2, <3>1, <3>4 DEF ImportedOnce, Live
        <3> QED BY <2>2, <3>2, <3>3, <3>4
    <2> QED BY <2>3, <2>4, <2>5 DEF ImportInv
<1> QED BY <1>1, <1>2, <1>3, <1>4, <1>5, <1>6, <1>7, <1>8 DEF ImportNext

\* ImportsSound, for any sources and any number of imports: startClaudeMemImport
\* and the ingest calls store no text twice among the live rows and bring back
\* nothing that was forgotten; the result of a job adds up to its plan, and one
\* that verifies left a row in the log, whatever failed and wherever the process
\* died.
THEOREM ImportsStaySound == ImportSpec => []ImportsSound
<1>1. ImportInv => ImportsSound
    <2> SUFFICES ASSUME ImportInv PROVE ImportsSound
        OBVIOUS
    <2>0. ImportTyped /\ JobsFollow /\ ImportedOnce /\ ForgottenStay
        BY DEF ImportInv
    <2>1. CountsAddUp
        BY <2>0 DEF JobsFollow, JobSound, CountsAddUp
    <2>2. VerifiedRecorded
        <3>1. SUFFICES ASSUME NEW j \in 1..Len(jobs), VerifyImport(j), ~jobs[j].dry, SourceRow # {}
                       PROVE  Told(importAnswers[j])
            BY DEF VerifiedRecorded, Told
        <3>2. jobs[j] \in JobRow /\ JobSound(jobs[j], importAnswers[j])
            <4>1. jobs \in Seq(JobRow)
                BY <2>0 DEF ImportTyped
            <4> HIDE DEF JobRow
            <4> QED BY <2>0, <4>1 DEF JobsFollow
        <3>3. PICK job \in JobRow : job = jobs[j]
            BY <3>2
        <3>4. /\ job.status = "completed" /\ ~job.dry
              /\ job.total = 0 \/ Tagged(j) # {} \/ job.inserted > 0 \/ job.deduped > 0
            BY <3>1, <3>3 DEF VerifyImport
        <3>5. job.total # 0
            <4>1. job.total = Cardinality(SourceRow)
                BY <3>2, <3>3, <3>4 DEF JobSound
            <4> QED BY <3>1, <4>1, FS_EmptySet, ImportAssumption
        <3>6. CASE Tagged(j) # {}
            BY <2>0, <3>6 DEF Tagged, JobsFollow
        <3>7. CASE job.inserted > 0 \/ job.deduped > 0
            <4>1. job.inserted \in Nat /\ job.deduped \in Nat
                BY DEF JobRow
            <4>2. job.inserted + job.deduped > 0
                BY <3>7, <4>1
            <4> QED BY <3>2, <3>3, <4>2 DEF JobSound
        <3> QED BY <3>4, <3>5, <3>6, <3>7
    <2> QED BY <2>0, <2>1, <2>2 DEF ImportsSound
<1> QED BY <1>1, ImportStart, ImportKept, PTL DEF ImportSpec
==============================================================================
