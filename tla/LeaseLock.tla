----------------------------- MODULE LeaseLock -------------------------------
(***************************************************************************)
(* What a lease table promises, without deadlines, agents or a clock: a    *)
(* lease is granted once, on a scope that no lease in force covers, and    *)
(* ends once.  Leases may end at any step, several together, also in the   *)
(* step that grants another one.                                           *)
(***************************************************************************)
EXTENDS Tenancy

CONSTANTS LeaseId, Target, Project

VARIABLES phase,   \* [LeaseId -> {"fresh", "held", "over"}]
          scope    \* [LeaseId -> what it was granted on, NULL before]

lockVars == <<phase, scope>>

Scope == [target : Target, project : Project \cup {NULL}, tenant : Tenant]

Overlap(s, t) ==
    s.target = t.target /\ s.project = t.project /\ MatchesTenant(s.tenant, t.tenant)

LockInit == /\ phase = [l \in LeaseId |-> "fresh"]
            /\ scope = [l \in LeaseId |-> NULL]

Without(ending) == [l \in LeaseId |-> IF l \in ending THEN "over" ELSE phase[l]]

End(ending) == phase' = Without(ending) /\ UNCHANGED scope

Grant(ending, l, s) ==
    /\ phase[l] = "fresh"
    /\ \A m \in LeaseId \ ending : phase[m] = "held" => ~Overlap(scope[m], s)
    /\ phase' = [Without(ending) EXCEPT ![l] = "held"]
    /\ scope' = [scope EXCEPT ![l] = s]

LockNext ==
    \E ending \in SUBSET {l \in LeaseId : phase[l] = "held"} :
        End(ending) \/ \E l \in LeaseId, s \in Scope : Grant(ending, l, s)

LockSpec == LockInit /\ [][LockNext]_lockVars
==============================================================================
