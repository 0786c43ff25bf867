------------------------------ MODULE MCIngest -------------------------------
(* One file of every kind, or two Claude Code sessions that share a budget. *)
EXTENDS Ingest, TLC

CONSTANTS f1, f2

MCKindChoices ==
    {[f \in File |-> IF f = f1 THEN k ELSE "absent"] : k \in Kind \ {"absent", "claude"}}
    \cup {[f \in File |-> "claude"]}

\* A rollout's line that says b compacts a history of the answers a and b.
MCRecap == ("a" :> None) @@ ("b" :> "a") @@ ("noise" :> None)

MCTextOf == (f1 :> LineText) @@ (f2 :> {"a"})
==============================================================================
