----------------------------- MODULE AuditChain ------------------------------
(***************************************************************************)
(* The audit log as its writers leave it, and as later edits of its rows   *)
(* leave it.  The daemon is the only process that inserts rows and each    *)
(* insert runs to completion, so reading the chain head and inserting the  *)
(* row are one action.                                                     *)
(***************************************************************************)
EXTENDS AuditRows

CONSTANTS Detail,    \* what a row can say
          MaxRows    \* bound on the length of the log

ASSUME AuditAssumption == MaxRows \in Nat

VARIABLES log,       \* mem_audit_log, in id order
          written    \* what each row said when it was inserted (history)

vars == <<log, written>>

TypeOK ==
    /\ Len(log) = Len(written)
    /\ written \in Seq(Detail)
    /\ \A i \in DOMAIN log : log[i].detail \in Detail /\ log[i].chained \in BOOLEAN

Init == log = <<>> /\ written = <<>>

\* appendAuditChain, called by the recorder for strips and gate warnings.
AppendAuditChain(detail) ==
    /\ Len(log) < MaxRows
    /\ log' = AppendChained(log, detail)
    /\ written' = Append(written, detail)

\* writeAuditLog, the consolidation worker, the search log, and the rows a
\* database held before the prev_hash column was added.
WriteAuditLog(detail) ==
    /\ Len(log) < MaxRows
    /\ log' = AppendPlain(log, detail)
    /\ written' = Append(written, detail)

\* Someone rewrites what a row says and leaves its hash alone.
Edit(i, detail) ==
    /\ log' = [log EXCEPT ![i].detail = detail]
    /\ UNCHANGED written

Next == \/ \E detail \in Detail : AppendAuditChain(detail) \/ WriteAuditLog(detail)
        \/ \E i \in DOMAIN log, detail \in Detail : Edit(i, detail)

Spec == Init /\ [][Next]_vars

------------------------------------------------------------------------------
\* The rows that no longer say what was written.
Edited == {i \in DOMAIN log : log[i].detail # written[i]}

\* The chain binds every chained row to what was written at its position, with
\* any number of unchained rows in between and whatever was edited since.
ChainBinds ==
    \A i \in DOMAIN log : log[i].chained
        => log[i].hash = ChainHash(PrevHash(log, 1, i), written[i])

\* What a verification that starts at a given row has to report: the rows edited
\* since, and, because the walk starts from the genesis hash, the first chained
\* row of its window when the chain began before it.
Reportable(from) ==
    LET window == ChainedRows(log, from, Len(log) + 1)
    IN  (window \cap Edited)
        \cup {i \in window : (\A j \in window : i <= j) /\ ChainedRows(log, 1, from) # {}}

\* verifyAuditChain reports exactly the first reportable row, from whichever row
\* it starts, and nothing when there is none: appends after an edit neither hide
\* it nor raise a false alarm, and an edit before the window is not blamed on it.
VerifyExact ==
    \A from \in DOMAIN log \cup {1} :
        IF Reportable(from) = {} THEN BrokenAt(log, from) = 0
        ELSE /\ BrokenAt(log, from) \in Reportable(from)
             /\ \A i \in Reportable(from) : BrokenAt(log, from) <= i
==============================================================================
