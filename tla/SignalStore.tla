----------------------------- MODULE SignalStore -----------------------------
(***************************************************************************)
(* Signals between agents (memory-server/src/lease/signal-store.ts): an    *)
(* append-only table, read by its recipients and acknowledged once.  Every *)
(* store method runs to completion; what an agent read is stale by the     *)
(* time it acknowledges.  The sender's name and the content are left out:  *)
(* nothing depends on them once they are not empty.                        *)
(***************************************************************************)
EXTENDS Naturals, FiniteSets, Tenancy

CONSTANTS SignalId,        \* ids the generator hands out
          AgentName,       \* agent names as requests spell them
          TrimName,        \* String.prototype.trim on them
          SignalProject,   \* projects other than the global NULL scope
          Caller,          \* the tenant scopes requests carry in this deployment
          ExpiryArg,       \* expires_in_ms of a request, 0 for none
          Limit,           \* rows one read returns
          MaxMoment,       \* bound on the clock
          ClockMayGoBack   \* Date.now() is not monotonic

ASSUME SignalAssumption ==
    /\ TrimName \in [AgentName -> AgentName] /\ NULL \notin AgentName
    /\ ExpiryArg \subseteq Nat /\ Limit \in Nat \ {0} /\ MaxMoment \in Nat
    /\ Caller \subseteq Tenant
    /\ NULL \notin SignalId /\ NULL \notin Nat /\ ClockMayGoBack \in BOOLEAN

VARIABLES moment,   \* what the clock hook returns
          signals,  \* mem_signals, NULL for an id that was not handed out
          inbox     \* the signals the last read of an agent returned

signalVars == <<moment, signals, inbox>>

SignalRow ==
    [thread : SignalId, to : AgentName \cup {NULL}, replyTo : SignalId \cup {NULL},
     project : SignalProject \cup {NULL}, sentAt : Nat, expiresAt : Nat \cup {NULL},
     ackedBy : AgentName \cup {NULL}, tenant : Caller]

ASSUME NullIsNoRow == NULL \notin SignalRow

SignalTypeOK ==
    /\ moment \in Nat
    /\ signals \in [SignalId -> SignalRow \cup {NULL}]
    /\ inbox \in [AgentName -> SUBSET SignalId]

SignalInit ==
    moment = 0 /\ signals = [s \in SignalId |-> NULL] /\ inbox = [a \in AgentName |-> {}]

Sent == {s \in SignalId : signals[s] # NULL}

------------------------------------------------------------------------------
\* Mutant: a reply takes the signal it answers for the thread, so that a reply to
\* a reply leaves the conversation.
SendToParent(s, to, replyTo, thread, project, tenant, ttl) ==
    /\ signals[s] = NULL /\ thread \in {s} \cup Sent
    /\ replyTo # NULL =>
          /\ replyTo \in Sent
          /\ project \in {NULL, signals[replyTo].project}
          /\ MatchesTenant(signals[replyTo].tenant, tenant)
    /\ signals' = [signals EXCEPT ![s] =
           [thread |-> IF replyTo = NULL THEN thread ELSE replyTo, to |-> to,
            replyTo |-> replyTo,
            project |-> IF replyTo = NULL THEN project ELSE signals[replyTo].project,
            sentAt |-> moment, expiresAt |-> IF ttl > 0 THEN moment + ttl ELSE NULL,
            ackedBy |-> NULL, tenant |-> tenant]]
    /\ UNCHANGED <<moment, inbox>>

\* send() past its validations.  A reply needs a parent its sender may see, joins
\* the parent's thread, and its project when it names none (NULL); a project it
\* does name has to be the parent's.  The recipient is stored as it was spelled.
\* `thread` is a thread the request names, or the new id.
Send(s, to, replyTo, thread, project, tenant, ttl) ==
    /\ signals[s] = NULL /\ thread \in {s} \cup Sent
    /\ replyTo # NULL =>
          /\ replyTo \in Sent
          /\ project \in {NULL, signals[replyTo].project}
          /\ MatchesTenant(signals[replyTo].tenant, tenant)
    /\ signals' = [signals EXCEPT ![s] =
           [thread    |-> IF replyTo = NULL THEN thread ELSE signals[replyTo].thread,
            to        |-> to,
            replyTo   |-> replyTo,
            project   |-> IF replyTo = NULL THEN project ELSE signals[replyTo].project,
            sentAt    |-> moment,
            expiresAt |-> IF ttl > 0 THEN moment + ttl ELSE NULL,
            ackedBy   |-> NULL,
            tenant    |-> tenant]]
    /\ UNCHANGED <<moment, inbox>>

\* Mutant: acknowledged signals are not filtered out.
VisibleAcked(agent, broadcast, thread, project, allProjects, tenant) ==
    {s \in Sent :
        /\ signals[s].expiresAt = NULL \/ signals[s].expiresAt > moment
        /\ signals[s].to = TrimName[agent] \/ (broadcast /\ signals[s].to = NULL)
        /\ thread = NULL \/ signals[s].thread = thread
        /\ MatchesTenant(signals[s].tenant, tenant)
        /\ allProjects \/ signals[s].project \in {NULL, project}}

\* The rows the query of read() selects: unacknowledged, not expired, for this
\* agent (trimmed) or for everybody, of this thread, project and tenant.
Visible(agent, broadcast, thread, project, allProjects, tenant) ==
    {s \in Sent :
        /\ signals[s].ackedBy = NULL
        /\ signals[s].expiresAt = NULL \/ signals[s].expiresAt > moment
        /\ signals[s].to = TrimName[agent] \/ (broadcast /\ signals[s].to = NULL)
        /\ thread = NULL \/ signals[s].thread = thread
        /\ MatchesTenant(signals[s].tenant, tenant)
        /\ allProjects \/ signals[s].project \in {NULL, project}}

\* ORDER BY sent_at LIMIT: the oldest ones, in any order among equals.
Oldest(rows) ==
    {page \in SUBSET rows :
        /\ Cardinality(page) = IF Cardinality(rows) < Limit THEN Cardinality(rows) ELSE Limit
        /\ \A s \in page, t \in rows \ page : signals[s].sentAt <= signals[t].sentAt}

\* read(), and the daemon's rule that only a caller without tenant (an admin, or
\* anybody where auth is off) may ask for all projects.
ReadSignals(agent, broadcast, thread, project, allProjects, tenant) ==
    /\ allProjects => tenant = Untagged
    /\ \E page \in Oldest(Visible(agent, broadcast, thread, project, allProjects, tenant)) :
          inbox' = [inbox EXCEPT ![agent] = page]
    /\ UNCHANGED <<moment, signals>>

\* Mutant: already_acked is not checked.
AckAgain(s, agent, tenant) ==
    /\ s \in Sent /\ MatchesTenant(signals[s].tenant, tenant)
    /\ signals[s].to \in {NULL, agent}
    /\ signals' = [signals EXCEPT ![s].ackedBy = agent]
    /\ UNCHANGED <<moment, inbox>>

\* ack(): known to this tenant, not acknowledged yet, and for this agent as it
\* spells itself or for everybody.
Ack(s, agent, tenant) ==
    /\ s \in Sent /\ MatchesTenant(signals[s].tenant, tenant)
    /\ signals[s].ackedBy = NULL
    /\ signals[s].to \in {NULL, agent}
    /\ signals' = [signals EXCEPT ![s].ackedBy = agent]
    /\ UNCHANGED <<moment, inbox>>

\* The wall clock moves, backwards too when it is adjusted.
ClockMoves == /\ \E t \in 0..MaxMoment : (ClockMayGoBack \/ t > moment) /\ moment' = t
        /\ UNCHANGED <<signals, inbox>>

SignalNext ==
    \/ \E s, thread \in SignalId, to \in AgentName \cup {NULL}, replyTo \in SignalId \cup {NULL},
          project \in SignalProject \cup {NULL}, tenant \in Caller, ttl \in ExpiryArg :
          Send(s, to, replyTo, thread, project, tenant, ttl)
    \/ \E agent \in AgentName, broadcast, allProjects \in BOOLEAN,
          thread \in SignalId \cup {NULL}, project \in SignalProject \cup {NULL}, tenant \in Caller :
          ReadSignals(agent, broadcast, thread, project, allProjects, tenant)
    \/ \E s \in SignalId, agent \in AgentName, tenant \in Caller : Ack(s, agent, tenant)
    \/ ClockMoves

SignalSpec == SignalInit /\ [][SignalNext]_signalVars

\* Agents poll their project and acknowledge what they read.
SignalFairness ==
    \A agent \in AgentName, tenant \in Caller :
        /\ \A project \in SignalProject \cup {NULL} :
              SF_signalVars(ReadSignals(agent, TRUE, NULL, project, FALSE, tenant))
        /\ \A s \in SignalId : SF_signalVars(s \in inbox[agent] /\ Ack(s, agent, tenant))

SignalLiveSpec == SignalSpec /\ SignalFairness

------------------------------------------------------------------------------
\* A signal is acknowledged by one agent and stays so: of two agents that both
\* read a broadcast and acknowledge it later, the first one wins.
AckedOnce ==
    [][\A s \in Sent : signals[s].ackedBy # NULL
          => signals'[s].ackedBy = signals[s].ackedBy]_signalVars

\* Conversations stay linked: a reply is in the thread and the project of the
\* signal it answers, through any number of replies.
RepliesLinked ==
    \A s \in Sent : signals[s].replyTo # NULL
        => /\ signals[s].replyTo \in Sent
           /\ signals[s].thread = signals[signals[s].replyTo].thread
           /\ signals[s].project = signals[signals[s].replyTo].project

\* A signal that does not expire, for everybody or for a name without blanks
\* around it, is acknowledged in the end, also behind others in an inbox that
\* returns a few at a time.
Delivered ==
    \A s \in SignalId :
        (/\ s \in Sent /\ signals[s].expiresAt = NULL
         /\ signals[s].to # NULL => TrimName[signals[s].to] = signals[s].to)
        ~> s \in Sent /\ signals[s].ackedBy # NULL
==============================================================================
