------------------------------ MODULE CloudSync ------------------------------
(***************************************************************************)
(* The sync endpoints: the in-memory store that devices push changesets to *)
(* and pull them from (sync/engine.ts, sync/sync-store.ts), and the        *)
(* connectors to outside services (sync/connector-registry.ts,             *)
(* github-, notion- and gdrive-connector.ts).                              *)
(*                                                                         *)
(* A record is known by its time and its device.  A connector's push goes  *)
(* through its changes one request at a time; the store lives as long as   *)
(* the daemon.                                                             *)
(***************************************************************************)
EXTENDS Naturals, Sequences, FiniteSets, Functions

CONSTANTS
    RecordId,       \* ids of synced records
    Device,         \* devices
    LastTime,       \* updated_at lies in 1..LastTime
    Change,         \* changes handed to a connector
    Deletes,        \* the ones whose action is delete
    MaxPushes,      \* changesets pushed
    MaxPages        \* requests a connector makes

ASSUME SyncAssumption ==
    /\ {LastTime, MaxPushes, MaxPages} \subseteq Nat
    /\ Deletes \subseteq Change

Policy == {"last-write-wins", "local-wins", "remote-wins"}

Rec == [at : 1..LastTime, device : Device]
NoRecord == [at |-> 0]

VARIABLES
    store,      \* SyncStore: the record of each id
    newest,     \* history: the newest time pushed for each id, since the start
    forced,     \* history: ids pushed under a policy other than last-write-wins
    pushes,     \* changesets received
    connector,  \* the connector: "none" or "registered"
    job,        \* the syncConnector call that is running
    pages,      \* what the outside service holds: change -> number of pages
    reply       \* the answer of the last call: the changes asked for and whether ok

syncVars == <<store, newest, forced, pushes, connector, job, pages, reply>>

NoJob == [state |-> "idle"]

SyncInit ==
    /\ store = [i \in RecordId |-> NoRecord]
    /\ newest = [i \in RecordId |-> 0]
    /\ forced = {}
    /\ pushes = 0
    /\ connector = "none"
    /\ job = NoJob
    /\ pages = [c \in Change |-> 0]
    /\ reply = [asked |-> {}, ok |-> FALSE]

-----------------------------------------------------------------------------
\* Mutant: under the default policy the record that arrives wins.
ResolveConflictRemote(local, remote, policy) ==
    IF policy = "local-wins" THEN local ELSE remote

\* resolveConflict, for two records of one id.
ResolveConflict(local, remote, policy) ==
    IF policy = "local-wins" \/ (policy = "last-write-wins" /\ remote.at <= local.at)
    THEN local ELSE remote

\* mergeChangeset: what the store keeps of an id that arrives.  With equal times
\* it keeps what it has, under any policy.
MergedRecord(local, remote, policy) ==
    CASE local = NoRecord -> remote
      [] local # NoRecord /\ local.at = remote.at -> local
      [] OTHER -> ResolveConflict(local, remote, policy)

\* handleSyncPush.  changes maps the ids of the changeset to its records; the
\* request chooses the policy.
HandleSyncPush(changes, policy) ==
    /\ pushes < MaxPushes
    /\ pushes' = pushes + 1
    /\ store' = [i \in RecordId |->
                    IF i \in DOMAIN changes THEN MergedRecord(store[i], changes[i], policy)
                    ELSE store[i]]
    /\ newest' = [i \in RecordId |->
                    IF i \in DOMAIN changes /\ changes[i].at > newest[i]
                    THEN changes[i].at ELSE newest[i]]
    /\ forced' = IF policy = "last-write-wins" THEN forced
                 ELSE forced \cup DOMAIN changes
    /\ UNCHANGED <<connector, job, pages, reply>>

\* handleSyncPull: what is newer than since.
HandleSyncPull(since) == {i \in RecordId : store[i] # NoRecord /\ store[i].at > since}

\* The daemon restarts: the store and the registry are gone, and so is a call.
SyncRestart ==
    /\ store' = [i \in RecordId |-> NoRecord]
    /\ newest' = [i \in RecordId |-> 0]
    /\ forced' = {}
    /\ connector' = "none"
    /\ job' = NoJob
    /\ UNCHANGED <<pushes, pages, reply>>

-----------------------------------------------------------------------------
Register ==
    /\ connector' = "registered"
    /\ UNCHANGED <<store, newest, forced, pushes, job, pages, reply>>

\* A call that is running keeps its connector.
Unregister ==
    /\ connector' = "none"
    /\ UNCHANGED <<store, newest, forced, pushes, job, pages, reply>>

\* syncConnector: an unknown name is an error; otherwise pull, then push.
SyncConnector(changes) ==
    /\ job = NoJob
    /\ IF connector = "none"
       THEN job' = NoJob
       ELSE job' = [state |-> "pull", asked |-> changes, todo |-> changes,
                    synced |-> 0, failed |-> FALSE]
    /\ reply' = IF connector = "none" THEN [asked |-> Range(changes), ok |-> FALSE]
                ELSE reply
    /\ UNCHANGED <<store, newest, forced, pushes, connector, pages>>

\* pull() ends; its changesets are counted and dropped.  A failure does not
\* keep the push from happening.
ConnectorPull(fails) ==
    /\ job # NoJob /\ job.state = "pull"
    /\ job' = [job EXCEPT !.state = "push", !.failed = fails]
    /\ UNCHANGED <<store, newest, forced, pushes, connector, pages, reply>>

\* One change of push(): a delete is passed over, anything else is one
\* request, and a failed request goes into the errors.
ConnectorPush(fails) ==
    /\ job # NoJob /\ job.state = "push" /\ job.todo # <<>>
    /\ LET c == Head(job.todo) IN
       IF c \in Deletes
       THEN /\ job' = [job EXCEPT !.todo = Tail(@)]
            /\ UNCHANGED pages
       ELSE /\ pages[c] < MaxPages
            /\ job' = [job EXCEPT !.todo = Tail(@), !.synced = IF fails THEN @ ELSE @ + 1,
                                  !.failed = @ \/ fails]
            /\ pages' = IF fails THEN pages ELSE [pages EXCEPT ![c] = @ + 1]
    /\ UNCHANGED <<store, newest, forced, pushes, connector, reply>>

ConnectorAnswer ==
    /\ job # NoJob /\ job.state = "push" /\ job.todo = <<>>
    /\ reply' = [asked |-> Range(job.asked), ok |-> ~job.failed]
    /\ job' = NoJob
    /\ UNCHANGED <<store, newest, forced, pushes, connector, pages>>

Changesets == UNION {[ids -> Rec] : ids \in SUBSET RecordId}

SyncNext ==
    \/ \E changes \in Changesets, policy \in Policy : HandleSyncPush(changes, policy)
    \/ SyncRestart
    \/ Register
    \/ Unregister
    \/ \E k \in 0..2 : \E changes \in [1..k -> Change] : SyncConnector(changes)
    \/ \E fails \in BOOLEAN : ConnectorPull(fails) \/ ConnectorPush(fails)
    \/ ConnectorAnswer

SyncSpec == SyncInit /\ [][SyncNext]_syncVars

-----------------------------------------------------------------------------
(***************************************************************************)
(* Last write wins, whatever the order, repetition and overlap of the      *)
(* changesets: of every id that was only pushed under that policy since    *)
(* the daemon started, the store holds the newest record pushed, and a     *)
(* pull from before it returns it.  Under any policy an id that was pushed *)
(* has a record, and one no newer than the newest pushed.                  *)
(***************************************************************************)
LastWriteWins ==
    \A i \in RecordId :
        /\ store[i].at <= newest[i]
        /\ newest[i] > 0 => store[i].at > 0
        /\ i \notin forced => /\ store[i].at = newest[i]
                             /\ \A since \in 0..LastTime :
                                   since < newest[i] => i \in HandleSyncPull(since)

(***************************************************************************)
(* A call that answers ok left a page of every change that is not a        *)
(* delete with the outside service, although requests fail one by one and  *)
(* the daemon may restart between them.                                    *)
(***************************************************************************)
OkMeansPushed ==
    reply.ok => \A c \in reply.asked \ Deletes : pages[c] > 0

(***************************************************************************)
(* What synchronisation promises: the store of handleSyncPush converges to *)
(* the newest records, and "ok" of syncConnector means that pages exist.   *)
(***************************************************************************)
SyncSound == LastWriteWins /\ OkMeansPushed
=============================================================================
