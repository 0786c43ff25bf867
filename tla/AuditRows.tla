------------------------------ MODULE AuditRows ------------------------------
(***************************************************************************)
(* The rows of mem_audit_log and the hash chain over them                  *)
(* (memory-server/src/core/audit-chain.ts).  A log is the sequence of its  *)
(* rows in id order.  A row is what the hash covers (action, target,       *)
(* details and time, one value here) and its prev_hash column: `chained`   *)
(* says that the column is not NULL.                                       *)
(***************************************************************************)
EXTENDS Naturals, Sequences

\* The predecessor of the first chained row.
Genesis == <<>>

\* SHA-256 over the predecessor's hash and the row's own fields, taken to be
\* collision free: the hash is the pair it is computed from.
ChainHash(prev, detail) == <<prev, detail>>

\* The chained rows of a log before position i, not older than `from`.
ChainedRows(log, from, i) == {j \in DOMAIN log : from <= j /\ j < i /\ log[j].chained}

\* The hash of the nearest chained row before position i (none, or one hash).
Nearest(log, from, i) ==
    LET rows == ChainedRows(log, from, i)
    IN  {log[j].hash : j \in {j \in rows : \A k \in rows : k <= j}}

TheElement(S) == CHOOSE h \in S : TRUE

PrevHash(log, from, i) ==
    IF Nearest(log, from, i) = {} THEN Genesis ELSE TheElement(Nearest(log, from, i))

\* The chain head a new row is linked to.
LastPrevHash(log) == PrevHash(log, 1, Len(log) + 1)

\* appendAuditChain: read the head, insert the row bound to it.
AppendChained(log, detail) ==
    Append(log, [detail |-> detail, chained |-> TRUE,
                 hash |-> ChainHash(LastPrevHash(log), detail)])

\* Every other writer of the table leaves prev_hash NULL.
AppendPlain(log, detail) ==
    Append(log, [detail |-> detail, chained |-> FALSE, hash |-> Genesis])

\* Mutant: an unchained row makes the verification start over.
MismatchesAdjacent(log, from) ==
    {i \in ChainedRows(log, from, Len(log) + 1) :
        log[i].hash # ChainHash(IF i > from /\ log[i - 1].chained
                                THEN log[i - 1].hash ELSE Genesis, log[i].detail)}

\* The rows at which verifyAuditChain(from) finds a hash it did not expect.
Mismatches(log, from) ==
    {i \in ChainedRows(log, from, Len(log) + 1) :
        log[i].hash # ChainHash(PrevHash(log, from, i), log[i].detail)}

\* verifyAuditChain: 0 for ok, else the id of the first mismatch.
BrokenAt(log, from) ==
    IF Mismatches(log, from) = {} THEN 0
    ELSE CHOOSE i \in Mismatches(log, from) : \A k \in Mismatches(log, from) : i <= k
==============================================================================
