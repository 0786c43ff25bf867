-------------------------- MODULE CoordinationProofs --------------------------
(***************************************************************************)
(* What agents coordinate by, for every set of ids, targets, projects,     *)
(* agents and tenants: leases are exclusive, also under a clock that steps  *)
(* back, conversations stay linked and acknowledgements are final.         *)
(***************************************************************************)
EXTENDS LeaseStore, SignalStore, TLAPS

\* The view of one tenant on another's rows is symmetric: what acquire checks
\* from the new caller's side also protects the earlier holder.
LEMMA MatchesTenantSymmetric ==
    ASSUME NEW s \in Tenant, NEW t \in Tenant
    PROVE  MatchesTenant(s, t) <=> MatchesTenant(t, s)
BY DEF MatchesTenant, Tenant, Untagged

\* The sweep keeps the type of the table, and only turns active rows into
\* expired ones: every field that decides the scope is untouched.
LEMMA SweepFrame ==
    ASSUME TypeOK
    PROVE  /\ SweepExpired(leases) \in [LeaseId -> Row]
           /\ \A l \in LeaseId :
                /\ SweepExpired(leases)[l].status # leases[l].status
                     => leases[l].status = "active"
                        /\ SweepExpired(leases)[l].status = "expired"
                /\ SweepExpired(leases)[l].target = leases[l].target
                /\ SweepExpired(leases)[l].project = leases[l].project
                /\ SweepExpired(leases)[l].tenant = leases[l].tenant
                /\ SweepExpired(leases)[l].status = "active"
                     => SweepExpired(leases)[l].expiresAt > now
<1> DEFINE swept == SweepExpired(leases)
<1>1. ASSUME NEW l \in LeaseId
      PROVE  /\ swept[l] \in Row
             /\ swept[l].status # leases[l].status
                  => leases[l].status = "active" /\ swept[l].status = "expired"
             /\ swept[l].target = leases[l].target
             /\ swept[l].project = leases[l].project
             /\ swept[l].tenant = leases[l].tenant
             /\ swept[l].status = "active" => swept[l].expiresAt > now
  <2>1. leases[l] \in Row /\ now \in Nat
    BY DEF TypeOK
  <2>2. CASE leases[l].status = "active" /\ leases[l].expiresAt <= now
    <3>1. swept[l] = [leases[l] EXCEPT !.status = "expired",
                                       !.releasedAt = IF @ = NULL THEN now ELSE @]
      BY <2>2 DEF SweepExpired
    <3>2. QED
      BY <2>1, <2>2, <3>1 DEF Row
  <2>3. CASE ~(leases[l].status = "active" /\ leases[l].expiresAt <= now)
    <3>1. swept[l] = leases[l]
      BY <2>3 DEF SweepExpired
    <3>2. QED
      BY <2>1, <2>3, <3>1 DEF Row
  <2>4. QED
    BY <2>2, <2>3
<1>2. swept = [l \in LeaseId |-> swept[l]]
  BY DEF SweepExpired
<1>3. QED
  BY <1>1, <1>2

\* Type correctness of the clock and of every row of mem_leases.
THEOREM TypeCorrect == Spec => []TypeOK
<1>1. Init => TypeOK
  BY DEF Init, TypeOK, Absent, Row, Tenant, Untagged
<1>2. TypeOK /\ [Next]_vars => TypeOK'
  <2> SUFFICES ASSUME TypeOK, [Next]_vars PROVE TypeOK'
    OBVIOUS
  <2> USE LeaseAssumption
  <2>1. ASSUME NEW target \in Target, NEW project \in Project \cup {NULL},
               NEW agent \in AgentArg, NEW tenant \in Tenant, NEW ttl \in TtlArg,
               Acquire(target, project, agent, tenant, ttl)
        PROVE  TypeOK'
    <3>1. SweepExpired(leases) \in [LeaseId -> Row]
      BY SweepFrame
    <3>2. EffectiveTtl(ttl, DefaultTtl) \in Nat
      BY DEF EffectiveTtl
    <3>3. now' = now /\ now \in Nat
      BY <2>1 DEF Acquire, TypeOK
    <3>4. CASE leases' = SweepExpired(leases)
      BY <3>1, <3>3, <3>4 DEF TypeOK
    <3>5. ASSUME NEW l \in LeaseId,
                 leases' = [SweepExpired(leases) EXCEPT ![l] =
                     [status |-> "active", target |-> target,
                      project |-> project, agent |-> Trim[agent],
                      tenant |-> tenant, ttl |-> EffectiveTtl(ttl, DefaultTtl),
                      expiresAt |-> now + EffectiveTtl(ttl, DefaultTtl),
                      releasedAt |-> NULL]]
          PROVE  TypeOK'
      BY <3>1, <3>2, <3>3, <3>5 DEF TypeOK, Row
    <3>6. QED
      BY <2>1, <3>4, <3>5 DEF Acquire
  <2>2. ASSUME NEW l \in LeaseId, NEW agent \in AgentArg, NEW tenant \in Tenant,
               Release(l, agent, tenant)
        PROVE  TypeOK'
    <3> DEFINE row == [leases[l] EXCEPT !.status = "released", !.releasedAt = now]
    <3>1. leases[l] \in Row /\ now \in Nat
      BY DEF TypeOK
    <3>2. row \in Row
      BY <3>1 DEF Row
    <3>3. leases' = [leases EXCEPT ![l] = row] /\ now' = now
      BY <2>2 DEF Release, TypeOK
    <3>4. QED
      BY <3>1, <3>2, <3>3 DEF TypeOK
  <2>3. ASSUME NEW l \in LeaseId, NEW agent \in AgentArg, NEW tenant \in Tenant,
               NEW ttl \in TtlArg, Renew(l, agent, tenant, ttl)
        PROVE  TypeOK'
    <3> DEFINE effective == EffectiveTtl(ttl, leases[l].ttl)
               deadline == now + effective
               row == [leases[l] EXCEPT !.expiresAt = deadline, !.ttl = effective]
    <3>1. leases[l] \in Row /\ now \in Nat
      BY DEF TypeOK
    <3>2. effective \in Nat /\ deadline \in Nat
      <4>1. leases[l].ttl \in Nat
        BY <3>1 DEF Row
      <4>2. effective \in Nat
        BY <4>1 DEF EffectiveTtl
      <4>3. QED
        BY <3>1, <4>2
    <3>3. row \in Row
      <4> HIDE DEF effective, deadline
      <4> QED
        BY <3>1, <3>2 DEF Row
    <3>4. leases' = [leases EXCEPT ![l] = row] /\ now' = now
      BY <2>3 DEF Renew, TypeOK
    <3>5. QED
      BY <3>1, <3>3, <3>4 DEF TypeOK
  <2>4. CASE Read
    BY <2>4, SweepFrame DEF Read, TypeOK
  <2>5. CASE Tick
    BY <2>5 DEF Tick, TypeOK
  <2>6. CASE UNCHANGED vars
    BY <2>6 DEF vars, TypeOK
  <2>7. QED
    BY <2>1, <2>2, <2>3, <2>4, <2>5, <2>6 DEF Next
<1>3. QED
  BY <1>1, <1>2, PTL DEF Spec

\* No two active leases of one scope, for every clock, including one that
\* steps back: acquire sweeps first and then refuses on any active row it can
\* see, and no other method makes a row active.
THEOREM LeasesExclusive == Spec => []Exclusive
<1>1. Init => Exclusive
  BY DEF Init, Exclusive, Absent
<1>2. TypeOK /\ TypeOK' /\ Exclusive /\ [Next]_vars => Exclusive'
  <2> SUFFICES ASSUME TypeOK, TypeOK', Exclusive, [Next]_vars,
                      NEW k \in LeaseId, NEW l \in LeaseId, k # l,
                      leases'[k].status = "active", leases'[l].status = "active"
               PROVE  ~SameScope(k, l)'
    BY DEF Exclusive
  \* A step that makes no row active and keeps the scope fields is harmless.
  <2>0. ASSUME \A m \in {k, l} :
                  /\ leases'[m].status = "active" => leases[m].status = "active"
                  /\ leases'[m].target = leases[m].target
                  /\ leases'[m].project = leases[m].project
                  /\ leases'[m].tenant = leases[m].tenant
        PROVE  ~SameScope(k, l)'
    BY <2>0 DEF Exclusive, SameScope
  <2>1. ASSUME NEW target \in Target, NEW project \in Project \cup {NULL},
               NEW agent \in AgentArg, NEW tenant \in Tenant, NEW ttl \in TtlArg,
               Acquire(target, project, agent, tenant, ttl)
        PROVE  ~SameScope(k, l)'
    <3> DEFINE swept == SweepExpired(leases)
    <3>1. CASE leases' = swept
      BY <3>1, <2>0, SweepFrame
    <3>2. ASSUME NEW m \in LeaseId, Held(swept, target, project, tenant) = {},
                 leases' = [swept EXCEPT ![m] =
                     [status |-> "active", target |-> target,
                      project |-> project, agent |-> Trim[agent],
                      tenant |-> tenant, ttl |-> EffectiveTtl(ttl, DefaultTtl),
                      expiresAt |-> now + EffectiveTtl(ttl, DefaultTtl),
                      releasedAt |-> NULL]]
          PROVE  ~SameScope(k, l)'
      <4>0. swept \in [LeaseId -> Row]
        BY SweepFrame
      <4>1. CASE k # m /\ l # m
        <5>1. leases'[k] = swept[k] /\ leases'[l] = swept[l]
          BY <3>2, <4>0, <4>1
        <5>2. QED
          BY <5>1, <2>0, SweepFrame
      \* The new row against any other active row: that row survived the
      \* sweep, so its deadline is ahead, and acquire did not see it.
      <4>2. ASSUME NEW o \in LeaseId, o # m, leases'[o].status = "active"
            PROVE  ~SameScope(o, m)' /\ ~SameScope(m, o)'
        <5>1. leases'[o] = swept[o] /\ swept[o].status = "active"
          BY <3>2, <4>0, <4>2
        <5>2. swept[o].expiresAt > now
          BY <5>1, SweepFrame
        <5>3. ~(swept[o].target = target /\ swept[o].project = project
                /\ MatchesTenant(swept[o].tenant, tenant))
          BY <3>2, <5>1, <5>2 DEF Held
        <5>4. /\ leases'[m].target = target /\ leases'[m].project = project
              /\ leases'[m].tenant = tenant
          BY <3>2, <4>0
        <5>5. ~SameScope(o, m)'
          BY <5>1, <5>3, <5>4 DEF SameScope
        <5>6. swept[o].tenant \in Tenant
          BY <4>0 DEF Row
        <5>7. MatchesTenant(swept[o].tenant, tenant)
                <=> MatchesTenant(tenant, swept[o].tenant)
          BY <5>6, MatchesTenantSymmetric
        <5>8. ~SameScope(m, o)'
          BY <5>1, <5>3, <5>4, <5>7 DEF SameScope
        <5>9. QED
          BY <5>5, <5>8
      <4>3. QED
        BY <4>1, <4>2
    <3>3. QED
      BY <2>1, <3>1, <3>2 DEF Acquire
  <2>2. ASSUME NEW m \in LeaseId, NEW agent \in AgentArg, NEW tenant \in Tenant,
               Release(m, agent, tenant)
        PROVE  ~SameScope(k, l)'
    BY <2>2, <2>0 DEF Release, TypeOK, Row
  <2>3. ASSUME NEW m \in LeaseId, NEW agent \in AgentArg, NEW tenant \in Tenant,
               NEW ttl \in TtlArg, Renew(m, agent, tenant, ttl)
        PROVE  ~SameScope(k, l)'
    BY <2>3, <2>0 DEF Renew, TypeOK, Row
  <2>4. CASE Read
    BY <2>4, <2>0, SweepFrame DEF Read
  <2>5. CASE Tick
    BY <2>5, <2>0 DEF Tick
  <2>6. CASE UNCHANGED vars
    BY <2>6, <2>0 DEF vars
  <2>7. QED
    BY <2>1, <2>2, <2>3, <2>4, <2>5, <2>6 DEF Next
<1>3. QED
  BY <1>1, <1>2, TypeCorrect, PTL DEF Spec

\* A released or expired lease is never active again: no method revives a row,
\* and acquire hands out fresh ids only.
THEOREM LeasesStayLost == Spec => LostStaysLost
<1>1. ASSUME TypeOK, [Next]_vars, NEW k \in LeaseId,
             leases[k].status \in {"released", "expired"}
      PROVE  leases'[k].status \in {"released", "expired"}
  <2>1. SweepExpired(leases)[k].status = leases[k].status
    BY <1>1, SweepFrame
  <2>2. ASSUME NEW target \in Target, NEW project \in Project \cup {NULL},
               NEW agent \in AgentArg, NEW tenant \in Tenant, NEW ttl \in TtlArg,
               Acquire(target, project, agent, tenant, ttl)
        PROVE  leases'[k].status = leases[k].status
    <3>1. SweepExpired(leases) \in [LeaseId -> Row]
      BY <1>1, SweepFrame
    <3>2. QED
      BY <1>1, <2>1, <2>2, <3>1 DEF Acquire
  <2>3. ASSUME NEW l \in LeaseId, NEW agent \in AgentArg, NEW tenant \in Tenant,
               Release(l, agent, tenant)
        PROVE  leases'[k].status \in {"released", "expired"}
    BY <1>1, <2>3 DEF Release, TypeOK, Row
  <2>4. ASSUME NEW l \in LeaseId, NEW agent \in AgentArg, NEW tenant \in Tenant,
               NEW ttl \in TtlArg, Renew(l, agent, tenant, ttl)
        PROVE  leases'[k].status = leases[k].status
    BY <1>1, <2>4 DEF Renew, TypeOK, Row
  <2>5. CASE Read
    BY <1>1, <2>1, <2>5 DEF Read
  <2>6. CASE Tick
    BY <1>1, <2>6 DEF Tick
  <2>7. CASE UNCHANGED vars
    BY <1>1, <2>7 DEF vars
  <2>8. QED
    BY <1>1, <2>2, <2>3, <2>4, <2>5, <2>6, <2>7 DEF Next
<1>2. TypeOK /\ [Next]_vars
      => [\A l \in LeaseId : leases[l].status \in {"released", "expired"}
             => leases'[l].status \in {"released", "expired"}]_vars
  BY <1>1
<1>3. QED
  BY <1>2, TypeCorrect, PTL DEF Spec, LostStaysLost

\* What keeps promises apart is that a swept lease's window is over: true while
\* the clock does not step back.
SweptPast == \A l \in LeaseId : leases[l].status = "expired" => leases[l].expiresAt <= now

\* With a clock that does not step back no two windows promised to agents
\* overlap on one scope, whatever was swept, released or renewed in between.
THEOREM PromisesKept ==
    ASSUME ~ClockMayStepBack PROVE Spec => []PromisesExclusive
<1>1. Init => SweptPast
  BY DEF Init, SweptPast, Absent
<1>2. TypeOK /\ TypeOK' /\ SweptPast /\ [Next]_vars => SweptPast'
  <2> SUFFICES ASSUME TypeOK, TypeOK', SweptPast, [Next]_vars,
                      NEW k \in LeaseId, leases'[k].status = "expired"
               PROVE  leases'[k].expiresAt <= now'
    BY DEF SweptPast
  <2>0. leases[k] \in Row /\ leases[k].expiresAt \in Nat /\ now \in Nat
    BY DEF TypeOK, Row
  \* The sweep leaves nothing expired whose deadline is ahead.
  <2>s. SweepExpired(leases)[k].status = "expired"
          => SweepExpired(leases)[k].expiresAt <= now
    <3>1. CASE leases[k].status = "active" /\ leases[k].expiresAt <= now
      <4>1. SweepExpired(leases)[k]
              = [leases[k] EXCEPT !.status = "expired",
                                  !.releasedAt = IF @ = NULL THEN now ELSE @]
        BY <3>1 DEF SweepExpired
      <4>2. QED
        BY <2>0, <3>1, <4>1 DEF Row
    <3>2. CASE ~(leases[k].status = "active" /\ leases[k].expiresAt <= now)
      <4>1. SweepExpired(leases)[k] = leases[k]
        BY <3>2 DEF SweepExpired
      <4>2. QED
        BY <4>1 DEF SweptPast
    <3>3. QED
      BY <3>1, <3>2
  <2>1. ASSUME NEW target \in Target, NEW project \in Project \cup {NULL},
               NEW agent \in AgentArg, NEW tenant \in Tenant, NEW ttl \in TtlArg,
               Acquire(target, project, agent, tenant, ttl)
        PROVE  leases'[k].expiresAt <= now'
    <3>1. SweepExpired(leases) \in [LeaseId -> Row] /\ now' = now
      BY <2>1, SweepFrame DEF Acquire
    <3>2. leases'[k] = SweepExpired(leases)[k]
      BY <2>1, <3>1 DEF Acquire
    <3>3. QED
      BY <2>s, <3>1, <3>2
  <2>2. ASSUME NEW l \in LeaseId, NEW agent \in AgentArg, NEW tenant \in Tenant,
               Release(l, agent, tenant)
        PROVE  leases'[k].expiresAt <= now'
    BY <2>2 DEF Release, TypeOK, Row, SweptPast
  <2>3. ASSUME NEW l \in LeaseId, NEW agent \in AgentArg, NEW tenant \in Tenant,
               NEW ttl \in TtlArg, Renew(l, agent, tenant, ttl)
        PROVE  leases'[k].expiresAt <= now'
    BY <2>3 DEF Renew, TypeOK, Row, SweptPast
  <2>4. CASE Read
    BY <2>4, <2>s DEF Read
  <2>5. CASE Tick
    BY <2>5, <2>0, ~ClockMayStepBack, LeaseAssumption DEF Tick, SweptPast
  <2>6. CASE UNCHANGED vars
    BY <2>6 DEF vars, SweptPast
  <2>7. QED
    BY <2>1, <2>2, <2>3, <2>4, <2>5, <2>6 DEF Next
<1>3. TypeOK /\ SweptPast /\ Exclusive => PromisesExclusive
  <2> SUFFICES ASSUME TypeOK, SweptPast, Exclusive, NEW k \in LeaseId, NEW l \in LeaseId,
                      k # l, Promised(k), Promised(l)
               PROVE  ~SameScope(k, l)
    BY DEF PromisesExclusive
  <2>1. \A m \in LeaseId : leases[m].expiresAt \in Nat /\ now \in Nat
    BY DEF TypeOK, Row
  <2>2. leases[k].status = "active" /\ leases[l].status = "active"
    BY <2>1 DEF Promised, SweptPast
  <2>3. QED
    BY <2>2 DEF Exclusive
<1>4. QED
  BY <1>1, <1>2, <1>3, TypeCorrect, LeasesExclusive, PTL DEF Spec

\* The lease table implements the abstract lock LeaseLock, for every set of
\* ids, targets, projects, agents and tenants and for every clock.
THEOREM LockImplemented == Spec => ImplementsLock
<1> DEFINE phases == [l \in LeaseId |-> PhaseOf(leases[l])]
           scopes == [l \in LeaseId |-> ScopeOf(leases[l])]
           swept == SweepExpired(leases)
<1>1. Init => Lock!LockInit
  BY DEF Init, Lock!LockInit, PhaseOf, ScopeOf, Absent
<1>2. TypeOK /\ TypeOK' /\ [Next]_vars => [Lock!LockNext]_(Lock!lockVars)
  <2> SUFFICES ASSUME TypeOK, TypeOK', [Next]_vars
               PROVE  [Lock!LockNext]_(Lock!lockVars)
    OBVIOUS
  <2> DEFINE held == {l \in LeaseId : phases[l] = "held"}
  \* A step that ends leases in force and keeps everybody's scope.
  <2>0. ASSUME NEW ending \in SUBSET held,
               \A l \in LeaseId : /\ PhaseOf(leases'[l])
                                       = IF l \in ending THEN "over" ELSE PhaseOf(leases[l])
                                  /\ ScopeOf(leases'[l]) = ScopeOf(leases[l])
        PROVE  Lock!LockNext
    <3>1. phases' = Lock!Without(ending) /\ scopes' = scopes
      BY <2>0 DEF Lock!Without
    <3>2. Lock!End(ending)
      BY <3>1 DEF Lock!End
    <3>3. QED
      BY <3>2 DEF Lock!LockNext
  \* The sweep is such a step.
  <2>s. /\ swept \in [LeaseId -> Row]
        /\ \A l \in LeaseId :
             /\ swept[l].status # leases[l].status
                  => leases[l].status = "active" /\ swept[l].status = "expired"
             /\ ScopeOf(swept[l]) = ScopeOf(leases[l])
    BY SweepFrame DEF ScopeOf
  <2> DEFINE ended == {l \in LeaseId : swept[l].status # leases[l].status}
  <2>e. /\ ended \in SUBSET held
        /\ \A l \in LeaseId :
             PhaseOf(swept[l]) = IF l \in ended THEN "over" ELSE PhaseOf(leases[l])
    BY <2>s DEF PhaseOf
  <2>1. ASSUME NEW target \in Target, NEW project \in Project \cup {NULL},
               NEW agent \in AgentArg, NEW tenant \in Tenant, NEW ttl \in TtlArg,
               Acquire(target, project, agent, tenant, ttl)
        PROVE  Lock!LockNext
    <3>1. CASE leases' = swept
      BY <3>1, <2>0, <2>s, <2>e, ZenonT(60)
    <3>2. ASSUME NEW l \in LeaseId, leases[l].status = "absent",
                 Held(swept, target, project, tenant) = {},
                 leases' = [swept EXCEPT ![l] =
                     [status |-> "active", target |-> target,
                      project |-> project, agent |-> Trim[agent],
                      tenant |-> tenant, ttl |-> EffectiveTtl(ttl, DefaultTtl),
                      expiresAt |-> now + EffectiveTtl(ttl, DefaultTtl),
                      releasedAt |-> NULL]]
          PROVE  Lock!LockNext
      <4> DEFINE s == [target |-> target, project |-> project, tenant |-> tenant]
      <4>1. s \in Lock!Scope
        BY DEF Lock!Scope, Lock!Tenant, Tenant
      <4>2. phases[l] = "fresh"
        BY <3>2 DEF PhaseOf
      <4>3. ASSUME NEW m \in LeaseId \ ended, phases[m] = "held"
            PROVE  ~Lock!Overlap(scopes[m], s)
        <5>1. leases[m].status = "active" /\ swept[m].status = "active"
          BY <4>3, <2>s DEF PhaseOf, TypeOK, Row
        <5>2. swept[m].expiresAt > now
          BY <5>1, SweepFrame
        <5>3. ~(swept[m].target = target /\ swept[m].project = project
                /\ MatchesTenant(swept[m].tenant, tenant))
          BY <3>2, <5>1, <5>2 DEF Held
        <5>4. scopes[m] = [target |-> swept[m].target, project |-> swept[m].project,
                           tenant |-> swept[m].tenant]
          BY <5>1, <2>s DEF ScopeOf
        <5>5. QED
          BY <5>3, <5>4 DEF Lock!Overlap, Lock!MatchesTenant, MatchesTenant,
                            Lock!Untagged, Untagged
      <4>4. phases' = [Lock!Without(ended) EXCEPT ![l] = "held"]
        BY <3>2, <2>s, <2>e DEF Lock!Without, PhaseOf
      <4>5. scopes' = [scopes EXCEPT ![l] = s]
        BY <3>2, <2>s DEF ScopeOf
      <4>6. Lock!Grant(ended, l, s)
        BY <4>2, <4>3, <4>4, <4>5 DEF Lock!Grant
      <4>7. QED
        BY <2>e, <4>1, <4>6 DEF Lock!LockNext
    <3>3. QED
      BY <2>1, <3>1, <3>2 DEF Acquire
  <2>2. ASSUME NEW l \in LeaseId, NEW agent \in AgentArg, NEW tenant \in Tenant,
               Release(l, agent, tenant)
        PROVE  Lock!LockNext
    <3> DEFINE ending == {m \in {l} : leases[m].status = "active"}
    <3>1. ending \in SUBSET held
      BY DEF PhaseOf
    <3>2. ASSUME NEW m \in LeaseId
          PROVE  /\ PhaseOf(leases'[m])
                      = IF m \in ending THEN "over" ELSE PhaseOf(leases[m])
                 /\ ScopeOf(leases'[m]) = ScopeOf(leases[m])
      BY <2>2 DEF Release, MayTouch, TypeOK, Row, PhaseOf, ScopeOf
    <3>3. QED
      BY <2>0, <3>1, <3>2
  <2>3. ASSUME NEW l \in LeaseId, NEW agent \in AgentArg, NEW tenant \in Tenant,
               NEW ttl \in TtlArg, Renew(l, agent, tenant, ttl)
        PROVE  Lock!LockNext
    <3>1. ASSUME NEW m \in LeaseId
          PROVE  /\ PhaseOf(leases'[m]) = PhaseOf(leases[m])
                 /\ ScopeOf(leases'[m]) = ScopeOf(leases[m])
      BY <2>3 DEF Renew, TypeOK, Row, PhaseOf, ScopeOf
    <3>2. {} \in SUBSET held
      OBVIOUS
    <3>3. QED
      BY <2>0, <3>1, <3>2
  <2>4. CASE Read
    BY <2>4, <2>0, <2>s, <2>e, ZenonT(60) DEF Read
  <2>5. CASE UNCHANGED leases
    BY <2>5 DEF Lock!lockVars
  <2>6. QED
    BY <2>1, <2>2, <2>3, <2>4, <2>5 DEF Next, Tick, vars
<1>3. QED
  BY <1>1, <1>2, TypeCorrect, PTL DEF Spec, ImplementsLock, Lock!LockSpec

------------------------------------------------------------------------------
(* The signal table. *)

\* Send, ReadSignals, Ack and the clock keep every row of mem_signals in shape.
LEMMA SignalTypeStep == SignalTypeOK /\ [SignalNext]_signalVars => SignalTypeOK'
<1> SUFFICES ASSUME SignalTypeOK, [SignalNext]_signalVars
             PROVE  SignalTypeOK'
  OBVIOUS
<1> USE SignalAssumption
<1>1. ASSUME NEW s \in SignalId, NEW thread \in SignalId, NEW to \in AgentName \cup {NULL},
             NEW replyTo \in SignalId \cup {NULL}, NEW project \in SignalProject \cup {NULL},
             NEW tenant \in Caller, NEW ttl \in ExpiryArg,
             Send(s, to, replyTo, thread, project, tenant, ttl)
      PROVE  SignalTypeOK'
  <2> DEFINE row == [thread    |-> IF replyTo = NULL THEN thread ELSE signals[replyTo].thread,
                     to        |-> to,
                     replyTo   |-> replyTo,
                     project   |-> IF replyTo = NULL THEN project ELSE signals[replyTo].project,
                     sentAt    |-> moment,
                     expiresAt |-> IF ttl > 0 THEN moment + ttl ELSE NULL,
                     ackedBy   |-> NULL,
                     tenant    |-> tenant]
  <2>1. row \in SignalRow
    <3>1. CASE replyTo = NULL
      BY <3>1 DEF SignalRow, SignalTypeOK
    <3>2. CASE replyTo # NULL
      <4>1. signals[replyTo] \in SignalRow
        BY <1>1, <3>2 DEF Send, Sent, SignalTypeOK
      <4> QED BY <3>2, <4>1 DEF SignalRow, SignalTypeOK
    <3> QED BY <3>1, <3>2
  <2>2. signals' = [signals EXCEPT ![s] = row] /\ moment' = moment /\ inbox' = inbox
    BY <1>1 DEF Send
  <2> HIDE DEF row
  <2> QED BY <2>1, <2>2 DEF SignalTypeOK
<1>2. ASSUME NEW agent \in AgentName, NEW broadcast \in BOOLEAN, NEW allProjects \in BOOLEAN,
             NEW thread \in SignalId \cup {NULL}, NEW project \in SignalProject \cup {NULL},
             NEW tenant \in Caller,
             ReadSignals(agent, broadcast, thread, project, allProjects, tenant)
      PROVE  SignalTypeOK'
  BY <1>2 DEF ReadSignals, Oldest, Visible, Sent, SignalTypeOK
<1>3. ASSUME NEW s \in SignalId, NEW agent \in AgentName, NEW tenant \in Caller,
             Ack(s, agent, tenant)
      PROVE  SignalTypeOK'
  <2>1. [signals[s] EXCEPT !.ackedBy = agent] \in SignalRow
    BY <1>3 DEF Ack, Sent, SignalRow, SignalTypeOK
  <2>2. signals' = [signals EXCEPT ![s] = [signals[s] EXCEPT !.ackedBy = agent]]
    BY <1>3 DEF Ack
  <2> QED BY <1>3, <2>1, <2>2 DEF Ack, SignalTypeOK
<1>4. CASE ClockMoves
  BY <1>4 DEF ClockMoves, SignalTypeOK
<1>5. CASE UNCHANGED signalVars
  BY <1>5 DEF signalVars, SignalTypeOK
<1> QED BY <1>1, <1>2, <1>3, <1>4, <1>5 DEF SignalNext

\* Type correctness of the signal store: whatever send, read and ack do, mem_signals
\* holds well-formed rows and an inbox holds ids.
THEOREM SignalTypeCorrect == SignalSpec => []SignalTypeOK
<1>1. SignalInit => SignalTypeOK
  BY SignalAssumption DEF SignalInit, SignalTypeOK
<1> QED BY <1>1, SignalTypeStep, PTL DEF SignalSpec

------------------------------------------------------------------------------
\* A step leaves the links of the signals that were sent before alone: thread,
\* project and parent of a row are written by send and by nothing else.
LEMMA LinksKept ==
    ASSUME SignalTypeOK, [SignalNext]_signalVars, NEW s \in Sent
    PROVE  /\ s \in Sent'
           /\ signals'[s].thread = signals[s].thread
           /\ signals'[s].project = signals[s].project
           /\ signals'[s].replyTo = signals[s].replyTo
           /\ signals[s].ackedBy # NULL => signals'[s].ackedBy = signals[s].ackedBy
<1> DEFINE Kept == /\ s \in Sent'
                   /\ signals'[s].thread = signals[s].thread
                   /\ signals'[s].project = signals[s].project
                   /\ signals'[s].replyTo = signals[s].replyTo
                   /\ signals[s].ackedBy # NULL => signals'[s].ackedBy = signals[s].ackedBy
<1>0. s \in SignalId /\ signals[s] \in SignalRow
  BY DEF Sent, SignalTypeOK
<1>1. signals'[s] = signals[s] => Kept
  BY <1>0, NullIsNoRow DEF Sent
<1>2. ASSUME NEW t \in SignalId, NEW thread \in SignalId, NEW to \in AgentName \cup {NULL},
             NEW replyTo \in SignalId \cup {NULL}, NEW project \in SignalProject \cup {NULL},
             NEW tenant \in Caller, NEW ttl \in ExpiryArg,
             Send(t, to, replyTo, thread, project, tenant, ttl)
      PROVE  Kept
  <2>1. signals'[s] = signals[s]
    BY <1>0, <1>2, NullIsNoRow DEF Send, SignalTypeOK
  <2> QED BY <1>1, <2>1
<1>3. ASSUME NEW agent \in AgentName, NEW broadcast \in BOOLEAN, NEW allProjects \in BOOLEAN,
             NEW thread \in SignalId \cup {NULL}, NEW project \in SignalProject \cup {NULL},
             NEW tenant \in Caller,
             ReadSignals(agent, broadcast, thread, project, allProjects, tenant)
      PROVE  Kept
  BY <1>1, <1>3 DEF ReadSignals
<1>4. ASSUME NEW t \in SignalId, NEW agent \in AgentName, NEW tenant \in Caller,
             Ack(t, agent, tenant)
      PROVE  Kept
  <2>1. CASE s # t
    <3>1. signals'[s] = signals[s]
      BY <1>0, <1>4, <2>1 DEF Ack, SignalTypeOK
    <3> QED BY <1>1, <3>1
  <2>2. CASE s = t
    <3>1. signals[s].ackedBy = NULL /\ signals'[s] = [signals[s] EXCEPT !.ackedBy = agent]
      BY <1>0, <1>4, <2>2 DEF Ack, SignalTypeOK
    <3>2. signals'[s] \in SignalRow
      BY <1>0, <3>1 DEF SignalRow
    <3>3. s \in Sent'
      BY <1>0, <3>2, NullIsNoRow DEF Sent
    <3> QED BY <1>0, <3>1, <3>3 DEF SignalRow
  <2> QED BY <2>1, <2>2
<1>5. CASE ClockMoves
  BY <1>1, <1>5 DEF ClockMoves
<1>6. CASE UNCHANGED signalVars
  BY <1>1, <1>6 DEF signalVars
<1> QED BY ONLY [SignalNext]_signalVars, <1>2, <1>3, <1>4, <1>5, <1>6 DEF SignalNext

\* Replies stay in the thread and the project of what they answer, for any number
\* of signals: send copies both from the parent, and no later step moves either.
THEOREM RepliesStayLinked == SignalSpec => []RepliesLinked
<1>1. SignalInit => RepliesLinked
  BY DEF SignalInit, RepliesLinked, Sent
<1>2. SignalTypeOK /\ RepliesLinked /\ [SignalNext]_signalVars => RepliesLinked'
  <2> SUFFICES ASSUME SignalTypeOK, RepliesLinked, [SignalNext]_signalVars,
                      NEW s \in Sent', signals'[s].replyTo # NULL
               PROVE  /\ signals'[s].replyTo \in Sent'
                      /\ signals'[s].thread = signals'[signals'[s].replyTo].thread
                      /\ signals'[s].project = signals'[signals'[s].replyTo].project
    BY DEF RepliesLinked
  <2>1. CASE s \in Sent
    <3>1. /\ signals'[s].replyTo = signals[s].replyTo
          /\ signals'[s].thread = signals[s].thread
          /\ signals'[s].project = signals[s].project
      BY <2>1, LinksKept
    <3>2. /\ signals[s].replyTo \in Sent
          /\ signals[s].thread = signals[signals[s].replyTo].thread
          /\ signals[s].project = signals[signals[s].replyTo].project
      BY <2>1, <3>1 DEF RepliesLinked
    <3> QED BY <3>1, <3>2, LinksKept
  <2>2. CASE s \notin Sent
    <3>1. s \in SignalId /\ signals[s] = NULL /\ signals'[s] # NULL
      BY <2>2 DEF Sent
    <3>2. PICK t \in SignalId, thread \in SignalId, to \in AgentName \cup {NULL},
               replyTo \in SignalId \cup {NULL}, project \in SignalProject \cup {NULL},
               tenant \in Caller, ttl \in ExpiryArg :
               Send(t, to, replyTo, thread, project, tenant, ttl)
      <4>1. signals' # signals
        BY <3>1
      <4>2. ~UNCHANGED signalVars /\ ~ClockMoves
        BY <4>1 DEF signalVars, ClockMoves
      <4>3. ASSUME NEW agent \in AgentName, NEW broadcast \in BOOLEAN,
                   NEW allProjects \in BOOLEAN, NEW thread \in SignalId \cup {NULL},
                   NEW project \in SignalProject \cup {NULL}, NEW tenant \in Caller
            PROVE  ~ReadSignals(agent, broadcast, thread, project, allProjects, tenant)
        BY <4>1 DEF ReadSignals
      <4>4. ASSUME NEW t \in SignalId, NEW agent \in AgentName, NEW tenant \in Caller
            PROVE  ~Ack(t, agent, tenant)
        BY <3>1 DEF Ack, Sent, SignalTypeOK
      <4> QED BY <4>2, <4>3, <4>4 DEF SignalNext
    <3>3. t = s
      BY <3>1, <3>2 DEF Send, SignalTypeOK
    <3>4. /\ signals'[s].replyTo = replyTo
          /\ replyTo # NULL => signals'[s].thread = signals[replyTo].thread
          /\ replyTo # NULL => signals'[s].project = signals[replyTo].project
          /\ replyTo # NULL => replyTo \in Sent
      BY <3>2, <3>3 DEF Send, SignalTypeOK
    <3> QED BY <3>4, LinksKept
  <2> QED BY <2>1, <2>2
<1> QED BY <1>1, <1>2, SignalTypeCorrect, PTL DEF SignalSpec

\* The first acknowledgement of a signal is the last: ack answers already_acked to
\* every later agent, though both read the broadcast before either acknowledged.
THEOREM AcknowledgedOnce == SignalSpec => AckedOnce
<1>1. SignalTypeOK /\ [SignalNext]_signalVars
      => [\A s \in Sent : signals[s].ackedBy # NULL
             => signals'[s].ackedBy = signals[s].ackedBy]_signalVars
  BY LinksKept
<1> QED BY <1>1, SignalTypeCorrect, PTL DEF SignalSpec, AckedOnce
==============================================================================
