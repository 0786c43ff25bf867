----------------------------- MODULE LeaseStore ------------------------------
(***************************************************************************)
(* The lease table of memory-server/src/lease/lease-store.ts: exclusive,   *)
(* time-bounded claims on a target, scoped by project and tenant.  Every   *)
(* store method runs to completion on the daemon's single thread, so one   *)
(* method call is one action.  A timestamp is its millisecond count: the   *)
(* ISO strings the code compares order as the numbers do.                  *)
(***************************************************************************)
EXTENDS Naturals, Tenancy

CONSTANTS LeaseId,           \* ids the generator hands out
          Target,            \* trimmed, non-empty targets
          Project,           \* projects other than the global NULL scope
          AgentArg,          \* agent_id strings as a request spells them
          Trim,              \* String.prototype.trim on them
          Blank,             \* the empty string
          TtlArg,            \* ttl_ms of a request, 0 for absent or <= 0
          DefaultTtl,        \* DEFAULT_LEASE_TTL_MS
          MaxTtl,            \* MAX_LEASE_TTL_MS
          MaxTime,           \* bound on the clock
          ClockMayStepBack   \* Date.now() is not monotonic

ASSUME LeaseAssumption ==
    /\ Trim \in [AgentArg -> AgentArg \cup {Blank}]
    /\ TtlArg \subseteq Nat
    /\ DefaultTtl \in Nat \ {0} /\ MaxTtl \in Nat /\ DefaultTtl <= MaxTtl
    /\ MaxTime \in Nat
    /\ NULL \notin Nat
    /\ ClockMayStepBack \in BOOLEAN

VARIABLES now,     \* what the clock hook returns
          leases   \* mem_leases, by lease_id

vars == <<now, leases>>

Row == [status     : {"absent", "active", "released", "expired"},
        target     : Target \cup {NULL},
        project    : Project \cup {NULL},
        agent      : AgentArg \cup {Blank, NULL},
        tenant     : Tenant,
        ttl        : Nat,
        expiresAt  : Nat,
        releasedAt : Nat \cup {NULL}]

\* The row of an id that has not been handed out.
Absent == [status |-> "absent", target |-> NULL, project |-> NULL,
           agent |-> NULL, tenant |-> Untagged, ttl |-> 0, expiresAt |-> 0,
           releasedAt |-> NULL]

TypeOK == now \in Nat /\ leases \in [LeaseId -> Row]

Init == now = 0 /\ leases = [l \in LeaseId |-> Absent]

------------------------------------------------------------------------------
\* Mutant: the sweep runs one tick early.
SweepEarly(rows) ==
    [l \in LeaseId |->
        IF rows[l].status = "active" /\ rows[l].expiresAt <= now + 1
        THEN [rows[l] EXCEPT !.status = "expired"] ELSE rows[l]]

\* Lazy expiry: every active row whose deadline has passed.
SweepExpired(rows) ==
    [l \in LeaseId |->
        IF rows[l].status = "active" /\ rows[l].expiresAt <= now
        THEN [rows[l] EXCEPT !.status = "expired",
                             !.releasedAt = IF @ = NULL THEN now ELSE @]
        ELSE rows[l]]

\* A positive ttl_ms of the request, or the fallback.
EffectiveTtl(ttl, fallback) == IF ttl > 0 THEN ttl ELSE fallback

\* Mutant: contention looks at rows with the caller's own stamp only.
HeldOwnStamp(rows, target, project, tenant) ==
    {l \in LeaseId : /\ rows[l].status = "active"
                     /\ rows[l].target = target
                     /\ rows[l].project = project
                     /\ rows[l].tenant = tenant}

\* The contention query of acquire.
Held(rows, target, project, tenant) ==
    {l \in LeaseId : /\ rows[l].status = "active"
                     /\ rows[l].target = target
                     /\ rows[l].expiresAt > now
                     /\ rows[l].project = project
                     /\ MatchesTenant(rows[l].tenant, tenant)}

\* acquire() past its three validations: the sweep, the contention check, and
\* either already_leased or a new active row under a fresh id.
Acquire(target, project, agent, tenant, ttl) ==
    LET effective == EffectiveTtl(ttl, DefaultTtl)
        swept     == SweepExpired(leases)
    IN  /\ Trim[agent] # Blank
        /\ effective <= MaxTtl
        /\ \/ /\ Held(swept, target, project, tenant) # {}
              /\ leases' = swept
           \/ /\ Held(swept, target, project, tenant) = {}
              /\ \E l \in LeaseId :
                    /\ leases[l].status = "absent"
                    /\ leases' = [swept EXCEPT ![l] =
                           [status |-> "active", target |-> target,
                            project |-> project, agent |-> Trim[agent],
                            tenant |-> tenant, ttl |-> effective,
                            expiresAt |-> now + effective,
                            releasedAt |-> NULL]]
        /\ UNCHANGED now

\* What release and renew require of the caller: otherwise not_found, not_owner.
MayTouch(l, agent, tenant) ==
    /\ leases[l].status # "absent"
    /\ MatchesTenant(leases[l].tenant, tenant)
    /\ leases[l].agent = agent

\* release(): neither sweeps nor looks at the status of the row.
Release(l, agent, tenant) ==
    /\ MayTouch(l, agent, tenant)
    /\ leases' = [leases EXCEPT ![l].status = "released", ![l].releasedAt = now]
    /\ UNCHANGED now

\* Mutant: renew revives whatever row its owner names.
RenewReviving(l, agent, tenant, ttl) ==
    /\ MayTouch(l, agent, tenant)
    /\ leases' = [leases EXCEPT ![l].status = "active",
                                ![l].expiresAt = now + EffectiveTtl(ttl, leases[l].ttl)]
    /\ UNCHANGED now

\* renew(): only a lease that is active and not past its deadline.
Renew(l, agent, tenant, ttl) ==
    LET effective == EffectiveTtl(ttl, leases[l].ttl)
    IN  /\ MayTouch(l, agent, tenant)
        /\ leases[l].status = "active" /\ leases[l].expiresAt > now
        /\ effective <= MaxTtl
        /\ leases' = [leases EXCEPT ![l].expiresAt = now + effective,
                                    ![l].ttl = effective]
        /\ UNCHANGED now

\* get() and listActive() sweep before they read.
Read == leases' = SweepExpired(leases) /\ UNCHANGED now

\* The wall clock moves, backwards too when it is adjusted.
Tick == /\ \E t \in 0..MaxTime : (ClockMayStepBack \/ t > now) /\ now' = t
        /\ UNCHANGED leases

Next == \/ \E target \in Target, project \in Project \cup {NULL},
              agent \in AgentArg, tenant \in Tenant, ttl \in TtlArg :
              Acquire(target, project, agent, tenant, ttl)
        \/ \E l \in LeaseId, agent \in AgentArg, tenant \in Tenant :
              Release(l, agent, tenant)
        \/ \E l \in LeaseId, agent \in AgentArg, tenant \in Tenant,
              ttl \in TtlArg : Renew(l, agent, tenant, ttl)
        \/ Read
        \/ Tick

Spec == Init /\ [][Next]_vars

------------------------------------------------------------------------------
\* Two rows compete for one scope.
SameScope(k, l) ==
    /\ leases[k].target = leases[l].target
    /\ leases[k].project = leases[l].project
    /\ MatchesTenant(leases[k].tenant, leases[l].tenant)

\* Exclusivity of the table: no two active rows of one scope, whichever way
\* the clock moves and whoever acquired, released, renewed or read in between
\* (acquire checks one tenant's view, and that view must be symmetric).
Exclusive ==
    \A k, l \in LeaseId :
        k # l /\ leases[k].status = "active" /\ leases[l].status = "active"
        => ~SameScope(k, l)

\* A lease that ended never becomes active again: a holder that slept past its
\* deadline cannot renew its way back after someone else acquired the target.
LostStaysLost ==
    [][\A l \in LeaseId : leases[l].status \in {"released", "expired"}
          => leases'[l].status \in {"released", "expired"}]_vars

\* The window a holder was promised and has not given back covers now.
Promised(l) == leases[l].status \in {"active", "expired"} /\ now < leases[l].expiresAt

\* Exclusivity as the agents see it, from the expiresAt of their responses:
\* no two promised windows of one scope overlap (needs a clock that does not
\* step back, else a swept lease's window becomes current again).
PromisesExclusive ==
    \A k, l \in LeaseId :
        k # l /\ Promised(k) /\ Promised(l) => ~SameScope(k, l)

------------------------------------------------------------------------------
\* The table as a lock sees it.
PhaseOf(row) == CASE row.status = "absent" -> "fresh"
                  [] row.status = "active" -> "held"
                  [] OTHER -> "over"

ScopeOf(row) == IF row.status = "absent" THEN NULL
                ELSE [target |-> row.target, project |-> row.project,
                      tenant |-> row.tenant]

Lock == INSTANCE LeaseLock WITH phase <- [l \in LeaseId |-> PhaseOf(leases[l])],
                                scope <- [l \in LeaseId |-> ScopeOf(leases[l])]

\* acquire, release, renew and the lazy sweep implement the lock: every step
\* grants at most one fresh lease on a scope nobody holds, ends leases in
\* force, or changes nothing a holder relies on.
ImplementsLock == Lock!LockSpec
==============================================================================
