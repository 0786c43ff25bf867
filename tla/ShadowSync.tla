------------------------------ MODULE ShadowSync ------------------------------
(***************************************************************************)
(* The control plane of the hybrid to managed migration                    *)
(* (memory-server/src/projector/shadow-sync.ts): what the metrics count    *)
(* and when they allow a promotion.  The three flags toJSON exports next   *)
(* to the phase are read by nobody and left out.                           *)
(***************************************************************************)
EXTENDS Naturals

CONSTANTS MinReads,        \* shadow reads a promotion needs (100)
          MatchPercent,    \* share of them that has to match (95)
          FailurePercent   \* share of failed replications it tolerates (1)

ASSUME ShadowAssumption == {MinReads, MatchPercent, FailurePercent} \subseteq Nat

Phases == {"off", "shadow", "verified", "promoted"}

Metrics == [writes : Nat, replicated : Nat, failed : Nat, reads : Nat, matches : Nat]

NoMetrics == [writes |-> 0, replicated |-> 0, failed |-> 0, reads |-> 0, matches |-> 0]

RecordPrimaryWrite(m) == [m EXCEPT !.writes = @ + 1]

\* recordReplication, called n times.
RecordReplication(m, success, n) ==
    IF success THEN [m EXCEPT !.replicated = @ + n] ELSE [m EXCEPT !.failed = @ + n]

RecordShadowRead(m, matched) ==
    [m EXCEPT !.reads = @ + 1, !.matches = IF matched THEN @ + 1 ELSE @]

\* Enough reads, enough of them matching (the rate of no reads is 0), and a
\* failure rate that is not above the limit.
IsReadyForPromotion(m) ==
    /\ m.reads >= MinReads
    /\ IF m.reads = 0 THEN MatchPercent = 0 ELSE 100 * m.matches >= MatchPercent * m.reads
    /\ 100 * m.failed <= FailurePercent * (m.replicated + m.failed)

AdvancePhase(phase, m) ==
    CASE phase = "off" -> "shadow"
      [] phase = "shadow" -> IF IsReadyForPromotion(m) THEN "verified" ELSE "shadow"
      [] phase \in {"verified", "promoted"} -> "promoted"
==============================================================================
