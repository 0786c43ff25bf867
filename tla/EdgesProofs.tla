----------------------------- MODULE EdgesProofs ------------------------------
(***************************************************************************)
(* Proofs about the components at the edges of the daemon: the members of  *)
(* teams, the links between observations, the synchronised records, the    *)
(* files that MCP servers share, the rate limiter, the MCP tools and the   *)
(* names of projects, for every number of teams, users, observations,      *)
(* devices, servers, clients, calls and rows, every rate and every burst.  *)
(***************************************************************************)
EXTENDS Teams, AutoLinks, CloudSync, McpSessions, RateLimiter, McpTools,
        Projects, OrderLemmas, SequenceTheorems

------------------------------------------------------------------------------
(* Teams *)

TeamsInv == TeamsTypeOK /\ MembersAsTold

\* Each endpoint keeps the rows of members and what its answers said together.
LEMMA TeamsStep == TeamsInv /\ [TeamsNext]_teamVars => TeamsInv'
<1> SUFFICES ASSUME TeamsInv, [TeamsNext]_teamVars PROVE TeamsInv'
    OBVIOUS
<1> USE TeamsAssumption DEF TeamsInv, TeamsTypeOK, MembersAsTold
<1>1. CASE UNCHANGED teamVars
    BY <1>1 DEF teamVars
<1>2. ASSUME NEW t \in TeamId, CreateTeam(t) PROVE TeamsInv'
    BY <1>2 DEF CreateTeam
<1>3. ASSUME NEW t \in TeamId, UpdateTeam(t) PROVE TeamsInv'
    BY <1>3 DEF UpdateTeam
<1>4. ASSUME NEW t \in TeamId, UpdateWrite(t) PROVE TeamsInv'
    BY <1>4 DEF UpdateWrite
<1>5. ASSUME NEW t \in TeamId, DeleteTeam(t) PROVE TeamsInv'
    BY <1>5 DEF DeleteTeam
<1>6. ASSUME NEW t \in TeamId, NEW u \in Invitee, RemoveMember(t, u) PROVE TeamsInv'
    BY <1>6 DEF RemoveMember
<1>7. ASSUME NEW t \in TeamId, NEW u \in Invitee, NEW r \in Role, AddMember(t, u, r)
      PROVE  TeamsInv'
    <2>1. CASE t \notin teams
        BY <1>7, <2>1 DEF AddMember
    <2>2. CASE t \in teams /\ role[t][u] = Nobody
        <3>1. /\ role' = [role EXCEPT ![t] = [role[t] EXCEPT ![u] = r]]
              /\ told' = [told EXCEPT ![t] = [told[t] EXCEPT ![u] = told[t][u] \cup {r}]]
              /\ UNCHANGED <<teams, names, renaming>>
            BY <1>7, <2>2 DEF AddMember
        <3> QED
            BY <2>2, <3>1
    <2>3. CASE t \in teams /\ role[t][u] # Nobody
        <3>1. /\ role' = role
              /\ told' = [told EXCEPT ![t] = [told[t] EXCEPT ![u] = told[t][u] \cup {r}]]
              /\ UNCHANGED <<teams, names, renaming>>
            BY <1>7, <2>3 DEF AddMember
        <3> QED
            BY <2>3, <3>1
    <2> QED
        BY <2>1, <2>2, <2>3
<1>8. ASSUME NEW t \in TeamId, NEW u \in Invitee, NEW r \in Role, UpdateMemberRole(t, u, r)
      PROVE  TeamsInv'
    <2>1. CASE role[t][u] = Nobody
        BY <1>8, <2>1 DEF UpdateMemberRole
    <2>2. CASE role[t][u] # Nobody
        <3>1. /\ role' = [role EXCEPT ![t] = [role[t] EXCEPT ![u] = r]]
              /\ told' = [told EXCEPT ![t] = [told[t] EXCEPT ![u] = told[t][u] \cup {r}]]
              /\ UNCHANGED <<teams, names, renaming>>
            BY <1>8, <2>2 DEF UpdateMemberRole
        <3> QED
            BY <2>2, <3>1
    <2> QED
        BY <2>1, <2>2
<1> QED
    BY <1>1, <1>2, <1>3, <1>4, <1>5, <1>6, <1>7, <1>8 DEF TeamsNext

\* A user is a member of a team exactly if an answer said so since the team was
\* created or the user removed, in a role that one of these answers named, and
\* a team that does not exist has no members.
THEOREM MembershipFollowsAnswers == TeamsSpec => []MembersAsTold
<1>1. TeamsInit => TeamsInv
    BY TeamsAssumption DEF TeamsInit, TeamsInv, TeamsTypeOK, MembersAsTold
<1>2. TeamsInv => MembersAsTold
    BY DEF TeamsInv
<1> QED
    BY <1>1, <1>2, TeamsStep, PTL DEF TeamsSpec

------------------------------------------------------------------------------
(* Links *)

\* After a round: it asked for the new ones of the observations that walks of its
\* length reach, and nothing before it leads out of what is processed.
Covers(relation, round, reached, before) ==
    /\ round.asked = reached \ before
    /\ round.processed = before \cup reached
    /\ Targets(relation, before) \subseteq before \cup reached

\* The first round asks for the observation of the request.
LEMMA FirstCovers ==
    ASSUME NEW start, NEW relation
    PROVE  Covers(relation, [asked |-> {start}, processed |-> {start}], {start}, {})
BY DEF Covers, Targets

\* What a round leaves out, an earlier one has led from.
LEMMA NextCovers ==
    ASSUME NEW relation, NEW round, NEW reached, NEW before,
           Covers(relation, round, reached, before)
    PROVE  Covers(relation, NextRound(relation, round), Targets(relation, reached),
                  before \cup reached)
<1> DEFINE to(S) == Targets(relation, S)
<1>1. /\ to(before \cup reached) = to(before) \cup to(reached)
      /\ to(reached) \subseteq to(before) \cup to(reached \ before)
      /\ to(reached \ before) \subseteq to(reached)
    BY DEF Targets
<1>2. /\ NextRound(relation, round).asked = to(round.asked) \ round.processed
      /\ NextRound(relation, round).processed
         = round.processed \cup (to(round.asked) \ round.processed)
    BY DEF NextRound
<1>3. /\ round.asked = reached \ before
      /\ round.processed = before \cup reached
      /\ to(before) \subseteq before \cup reached
    BY DEF Covers
<1> HIDE DEF to
<1>4. /\ NextRound(relation, round).asked = to(reached) \ (before \cup reached)
      /\ NextRound(relation, round).processed = (before \cup reached) \cup to(reached)
      /\ to(before \cup reached) \subseteq (before \cup reached) \cup to(reached)
    BY <1>1, <1>2, <1>3
<1> QED
    BY <1>4 DEF Covers, to

\* A round asks for exactly what walks of its length reach and shorter ones do not.
LEMMA AskedOnce ==
    ASSUME NEW start, NEW relation, NEW d \in 1..5, NEW x
    PROVE  x \in Rounds(start, relation)[d].asked
           <=> /\ x \in Reached(start, relation)[d]
               /\ \A k \in 1..5 : k < d => x \notin Reached(start, relation)[k]
<1> DEFINE rounds == Rounds(start, relation)
           reached == Reached(start, relation)
<1>1. /\ rounds[1] = [asked |-> {start}, processed |-> {start}]
      /\ rounds[2] = NextRound(relation, rounds[1])
      /\ rounds[3] = NextRound(relation, rounds[2])
      /\ rounds[4] = NextRound(relation, rounds[3])
      /\ rounds[5] = NextRound(relation, rounds[4])
    BY DEF Rounds
<1>2. /\ reached[1] = {start}
      /\ reached[2] = Targets(relation, reached[1])
      /\ reached[3] = Targets(relation, reached[2])
      /\ reached[4] = Targets(relation, reached[3])
      /\ reached[5] = Targets(relation, reached[4])
    BY DEF Reached
<1> HIDE DEF rounds, reached
<1> DEFINE before2 == {} \cup reached[1]
           before3 == before2 \cup reached[2]
           before4 == before3 \cup reached[3]
           before5 == before4 \cup reached[4]
<1>3. Covers(relation, rounds[1], reached[1], {})
    BY <1>1, <1>2, FirstCovers
<1>4. Covers(relation, rounds[2], reached[2], before2)
    BY <1>1, <1>2, <1>3, NextCovers
<1> HIDE DEF before2
<1>5. Covers(relation, rounds[3], reached[3], before3)
    BY <1>1, <1>2, <1>4, NextCovers
<1> HIDE DEF before3
<1>6. Covers(relation, rounds[4], reached[4], before4)
    BY <1>1, <1>2, <1>5, NextCovers
<1> HIDE DEF before4
<1>7. Covers(relation, rounds[5], reached[5], before5)
    BY <1>1, <1>2, <1>6, NextCovers
<1>8. /\ rounds[1].asked = reached[1]
      /\ rounds[2].asked = reached[2] \ reached[1]
      /\ rounds[3].asked = reached[3] \ (reached[1] \cup reached[2])
      /\ rounds[4].asked = reached[4] \ (reached[1] \cup reached[2] \cup reached[3])
      /\ rounds[5].asked
         = reached[5] \ (reached[1] \cup reached[2] \cup reached[3] \cup reached[4])
    BY <1>3, <1>4, <1>5, <1>6, <1>7 DEF Covers, before2, before3, before4
<1>9. /\ d = 1 \/ d = 2 \/ d = 3 \/ d = 4 \/ d = 5
      /\ \A k \in 1..5 : k = 1 \/ k = 2 \/ k = 3 \/ k = 4 \/ k = 5
    OBVIOUS
<1>10. x \in rounds[d].asked
       <=> x \in reached[d] /\ \A k \in 1..5 : k < d => x \notin reached[k]
    <2> DEFINE new == \A k \in 1..5 : k < d => x \notin reached[k]
    <2>1. CASE d = 1
        BY <2>1, <1>8
    <2>2. CASE d = 2
        <3>1. new <=> x \notin reached[1]
            BY <2>2, <1>9
        <3> HIDE DEF new
        <3>2. x \in rounds[d].asked <=> x \in reached[d] /\ new
            BY <2>2, <3>1, <1>8
        <3> QED
            BY <3>2 DEF new
    <2>3. CASE d = 3
        <3>1. new <=> x \notin reached[1] /\ x \notin reached[2]
            BY <2>3, <1>9
        <3> HIDE DEF new
        <3>2. x \in rounds[d].asked <=> x \in reached[d] /\ new
            BY <2>3, <3>1, <1>8
        <3> QED
            BY <3>2 DEF new
    <2>4. CASE d = 4
        <3>1. new <=> x \notin reached[1] /\ x \notin reached[2] /\ x \notin reached[3]
            BY <2>4, <1>9
        <3> HIDE DEF new
        <3>2. x \in rounds[d].asked <=> x \in reached[d] /\ new
            BY <2>4, <3>1, <1>8
        <3> QED
            BY <3>2 DEF new
    <2>5. CASE d = 5
        <3>1. new <=> /\ x \notin reached[1] /\ x \notin reached[2]
                      /\ x \notin reached[3] /\ x \notin reached[4]
            BY <2>5, <1>9
        <3> HIDE DEF new
        <3>2. x \in rounds[d].asked <=> x \in reached[d] /\ new
            BY <2>5, <3>1, <1>8
        <3> QED
            BY <3>2 DEF new
    <2> QED
        BY <2>1, <2>2, <2>3, <2>4, <2>5, <1>9
<1> QED
    BY <1>10 DEF rounds, reached

\* So at most one round reads a link: the first that comes to where it starts.
LEMMA ReadOnce ==
    ASSUME NEW start, NEW relation, NEW n \in 1..5, NEW x
    PROVE  Cardinality({d \in 1..n : x \in Rounds(start, relation)[d].asked})
           = IF \E d \in 1..n : x \in Reached(start, relation)[d] THEN 1 ELSE 0
<1> DEFINE rounds == Rounds(start, relation)
           reached == Reached(start, relation)
           reads == {d \in 1..n : x \in rounds[d].asked}
<1>1. \A d \in 1..5 : x \in rounds[d].asked
                      <=> x \in reached[d] /\ \A k \in 1..5 : k < d => x \notin reached[k]
    BY AskedOnce
<1> HIDE DEF rounds, reached
<1>2. CASE \E d \in 1..n : x \in reached[d]
    <2> DEFINE comes == {d \in 1..n : x \in reached[d]}
    <2>1. comes \in SUBSET Nat /\ comes # {}
        BY <1>2
    <2>2. PICK first \in comes : \A d \in comes : first <= d
        BY <2>1, LeastExists, Zenon
    <2>3. reads = {first}
        <3>1. first \in 1..n /\ x \in reached[first] /\ 1..n \subseteq 1..5
            BY <2>2
        <3>2. \A k \in 1..5 : k < first => x \notin reached[k]
            BY <2>2, <3>1
        <3>3. \A d \in 1..n : x \in rounds[d].asked => d = first
            BY <1>1, <2>2, <3>1
        <3> QED
            BY <1>1, <3>1, <3>2, <3>3
    <2>4. Cardinality(reads) = 1
        BY <2>3, FS_Singleton
    <2> QED
        BY <1>2, <2>4 DEF rounds, reached
<1>3. CASE ~\E d \in 1..n : x \in reached[d]
    <2>1. reads = {}
        BY <1>1, <1>3
    <2>2. Cardinality(reads) = 0
        BY <2>1, FS_EmptySet
    <2> QED
        BY <1>3, <2>2 DEF rounds, reached
<1> QED
    BY <1>2, <1>3

\* Whatever links recordEvent, the worker and clients made, and however they run
\* in circles: getLinks finds every link in its depth, and once.
THEOREM LinksAlwaysFoundOnce == LinksSpec => []LinksFoundOnce
<1>1. LinksFoundOnce
    <2> SUFFICES ASSUME NEW start, NEW relation, NEW depth \in 0..6
                 PROVE  GetLinks(start, relation, depth)
                        = [l \in Followed(relation) |->
                              IF \E d \in 1..Clamped(depth) : l.from \in Reached(start, relation)[d]
                              THEN 1 ELSE 0]
        BY DEF LinksFoundOnce
    <2>1. Clamped(depth) \in 1..5
        BY DEF Clamped
    <2>2. \A l \in Followed(relation) :
              Cardinality({d \in 1..Clamped(depth) : l.from \in Rounds(start, relation)[d].asked})
              = IF \E d \in 1..Clamped(depth) : l.from \in Reached(start, relation)[d]
                THEN 1 ELSE 0
        BY <2>1, ReadOnce
    <2> QED
        BY <2>2, Zenon DEF GetLinks
<1> QED
    BY <1>1, PTL

------------------------------------------------------------------------------
(* Synchronisation *)

\* The store holds of every id what its history of pushes allows.
StoreInv ==
    /\ store \in [RecordId -> Rec \cup {NoRecord}]
    /\ newest \in [RecordId -> 0..LastTime]
    /\ \A i \in RecordId : /\ store[i].at <= newest[i]
                           /\ newest[i] > 0 => store[i].at > 0
                           /\ i \notin forced => store[i].at = newest[i]

\* A call of syncConnector that is under way.
Running == [state : {"pull", "push"}, asked : Seq(Change), todo : Seq(Change),
            synced : Nat, failed : BOOLEAN]

\* What is left to push is the end of what was asked for, and what is behind it
\* has a page or is a delete, unless a request failed.
Pushing(j) ==
    /\ Len(j.todo) <= Len(j.asked)
    /\ j.state = "pull" => Len(j.todo) = Len(j.asked)
    /\ \A n \in 1..Len(j.todo) : j.todo[n] = j.asked[Len(j.asked) - Len(j.todo) + n]
    /\ j.failed \/ \A n \in 1..Len(j.asked) - Len(j.todo) :
                      j.asked[n] \in Deletes \/ pages[j.asked[n]] > 0

ConnectorInv ==
    /\ pages \in [Change -> Nat]
    /\ job = NoJob \/ (job \in Running /\ Pushing(job))
    /\ reply.asked \subseteq Change
    /\ OkMeansPushed

\* Change records carry times from 1 on, so that the absence of one is told
\* apart by 0.
LEMMA RecordTimes ==
    /\ LastTime \in Nat
    /\ NoRecord.at = 0
    /\ \A r \in Rec : r.at \in 1..LastTime /\ r # NoRecord
<1>1. LastTime \in Nat
    BY SyncAssumption
<1> QED
    BY <1>1 DEF Rec, NoRecord

\* Merging a record into the store under a policy.
LEMMA Merging ==
    \A local \in Rec \cup {NoRecord}, remote \in Rec, policy \in Policy :
        /\ MergedRecord(local, remote, policy) \in Rec
        /\ \/ MergedRecord(local, remote, policy).at = local.at
           \/ MergedRecord(local, remote, policy).at = remote.at
        /\ policy = "last-write-wins" /\ remote.at > local.at =>
              MergedRecord(local, remote, policy).at = remote.at
        /\ policy = "last-write-wins" /\ ~(remote.at > local.at) =>
              MergedRecord(local, remote, policy).at = local.at
<1> TAKE local \in Rec \cup {NoRecord}, remote \in Rec, policy \in Policy
<1>1. local.at \in 0..LastTime /\ remote.at \in 1..LastTime /\ LastTime \in Nat
      /\ (local # NoRecord => local \in Rec) /\ (local = NoRecord => local.at = 0)
    BY RecordTimes
<1>2. CASE local = NoRecord
    <2>1. MergedRecord(local, remote, policy) = remote
        BY <1>2 DEF MergedRecord
    <2> QED
        BY <1>1, <1>2, <2>1
<1>3. CASE local # NoRecord /\ local.at = remote.at
    <2>1. MergedRecord(local, remote, policy) = local
        BY <1>3 DEF MergedRecord
    <2> QED
        BY <1>1, <1>3, <2>1
<1>4. CASE local # NoRecord /\ local.at # remote.at
    <2>1. MergedRecord(local, remote, policy) = ResolveConflict(local, remote, policy)
        BY <1>4 DEF MergedRecord
    <2> QED
        BY <1>1, <1>4, <2>1 DEF ResolveConflict
<1> QED
    BY <1>2, <1>3, <1>4

\* A changeset, whatever its records and its policy, keeps the store and its
\* history together.
LEMMA PushKeepsStore ==
    ASSUME StoreInv, NEW ids \in SUBSET RecordId, NEW changed \in [ids -> Rec],
           NEW policy \in Policy, HandleSyncPush(changed, policy)
    PROVE  StoreInv'
<1>1. DOMAIN changed = ids
    OBVIOUS
<1>2. /\ store' = [i \in RecordId |->
                     IF i \in ids THEN MergedRecord(store[i], changed[i], policy) ELSE store[i]]
      /\ newest' = [i \in RecordId |->
                     IF i \in ids /\ changed[i].at > newest[i] THEN changed[i].at ELSE newest[i]]
      /\ forced' = IF policy = "last-write-wins" THEN forced ELSE forced \cup ids
    BY <1>1 DEF HandleSyncPush
<1>3. ASSUME NEW i \in RecordId
      PROVE  /\ store'[i] \in Rec \cup {NoRecord}
             /\ newest'[i] \in 0..LastTime
             /\ store'[i].at <= newest'[i]
             /\ newest'[i] > 0 => store'[i].at > 0
             /\ i \notin forced' => store'[i].at = newest'[i]
    <2>1. /\ store[i] \in Rec \cup {NoRecord} /\ newest[i] \in 0..LastTime
          /\ store[i].at <= newest[i] /\ (newest[i] > 0 => store[i].at > 0)
          /\ (i \notin forced => store[i].at = newest[i])
        BY DEF StoreInv
    <2>2. store[i].at \in 0..LastTime /\ LastTime \in Nat
        BY <2>1, RecordTimes
    <2>3. CASE i \notin ids
        BY <1>2, <2>1, <2>3
    <2>4. CASE i \in ids
        <3> DEFINE merged == MergedRecord(store[i], changed[i], policy)
        <3>1. changed[i] \in Rec /\ changed[i].at \in 1..LastTime
            BY <2>4, RecordTimes
        <3>2. /\ merged \in Rec /\ merged.at \in 1..LastTime
              /\ merged.at = store[i].at \/ merged.at = changed[i].at
              /\ policy = "last-write-wins" =>
                    merged.at = IF changed[i].at > store[i].at THEN changed[i].at
                                ELSE store[i].at
            <4>1. store[i] \in Rec \cup {NoRecord} /\ policy \in Policy
                BY <2>1
            <4>2. /\ merged \in Rec
                  /\ merged.at = store[i].at \/ merged.at = changed[i].at
                  /\ policy = "last-write-wins" /\ changed[i].at > store[i].at =>
                        merged.at = changed[i].at
                  /\ policy = "last-write-wins" /\ ~(changed[i].at > store[i].at) =>
                        merged.at = store[i].at
                BY <3>1, <4>1, Merging, Zenon
            <4> HIDE DEF merged
            <4>3. merged.at \in 1..LastTime
                BY <4>2, RecordTimes
            <4> QED
                BY <4>2, <4>3
        <3>3. store'[i] = merged
              /\ newest'[i] = IF changed[i].at > newest[i] THEN changed[i].at ELSE newest[i]
            BY <1>2, <2>4
        <3>4. i \notin forced' => policy = "last-write-wins" /\ i \notin forced
            BY <1>2, <2>4
        <3> HIDE DEF merged
        <3> QED
            BY <2>1, <2>2, <3>1, <3>2, <3>3, <3>4
    <2> QED
        BY <2>3, <2>4
<1> QED
    BY <1>2, <1>3 DEF StoreInv

\* applyChangeset, force pushes and restarts keep the newest time per record
\* in the store.
LEMMA StoreStep == StoreInv /\ [SyncNext]_syncVars => StoreInv'
<1> SUFFICES ASSUME StoreInv, [SyncNext]_syncVars PROVE StoreInv'
    OBVIOUS
<1>1. ASSUME UNCHANGED <<store, newest, forced>> PROVE StoreInv'
    BY <1>1 DEF StoreInv
<1>2. CASE SyncRestart
    BY <1>2, RecordTimes DEF SyncRestart, StoreInv
<1>3. ASSUME NEW changed \in Changesets, NEW policy \in Policy, HandleSyncPush(changed, policy)
      PROVE  StoreInv'
    <2>1. PICK ids \in SUBSET RecordId : changed \in [ids -> Rec]
        BY DEF Changesets
    <2> QED
        BY <1>3, <2>1, PushKeepsStore
<1> QED
    BY <1>1, <1>2, <1>3 DEF SyncNext, syncVars, Register, Unregister, SyncConnector,
                            ConnectorPull, ConnectorPush, ConnectorAnswer

\* A call begins with everything left to push.
LEMMA CallBegins ==
    ASSUME ConnectorInv, NEW k \in Nat, NEW changed \in [1..k -> Change], SyncConnector(changed)
    PROVE  ConnectorInv'
<1>1. pages' = pages /\ pages \in [Change -> Nat]
    BY DEF SyncConnector, ConnectorInv
<1>2. changed \in Seq(Change) /\ Len(changed) = k
    OBVIOUS
<1>3. CASE connector = "none"
    <2>1. job' = NoJob /\ reply' = [asked |-> Range(changed), ok |-> FALSE]
        BY <1>3 DEF SyncConnector
    <2>2. Range(changed) \subseteq Change
        BY <1>2 DEF Range
    <2> QED
        BY <1>1, <2>1, <2>2 DEF ConnectorInv, OkMeansPushed
<1>4. CASE connector # "none"
    <2> DEFINE j == [state |-> "pull", asked |-> changed, todo |-> changed,
                     synced |-> 0, failed |-> FALSE]
    <2>1. job' = j /\ reply' = reply
        BY <1>4 DEF SyncConnector
    <2>2. j \in Running
        BY <1>2 DEF Running
    <2>3. /\ Len(changed) <= Len(changed)
          /\ \A n \in 1..Len(changed) : changed[n] = changed[Len(changed) - Len(changed) + n]
          /\ \A n \in 1..Len(changed) - Len(changed) : FALSE
        BY <1>2
    <2>4. j.asked = changed /\ j.todo = changed /\ j.state = "pull"
        OBVIOUS
    <2> HIDE DEF j
    <2>5. Pushing(job)'
        BY <2>1, <2>3, <2>4 DEF Pushing
    <2> QED
        BY <1>1, <2>1, <2>2, <2>5 DEF ConnectorInv, OkMeansPushed
<1> QED
    BY <1>3, <1>4

\* The pull says whether it failed; the push has everything before it.
LEMMA PullEnds ==
    ASSUME ConnectorInv, NEW fails \in BOOLEAN, ConnectorPull(fails)
    PROVE  ConnectorInv'
<1>1. job \in Running /\ Pushing(job) /\ job.state = "pull"
    BY DEF ConnectorInv, ConnectorPull
<1>2. job' = [job EXCEPT !.state = "push", !.failed = fails] /\ pages' = pages /\ reply' = reply
    BY DEF ConnectorPull
<1>3. /\ job' \in Running
      /\ job'.asked = job.asked /\ job'.todo = job.todo /\ job'.state = "push"
    BY <1>1, <1>2 DEF Running
<1>4. Len(job.asked) \in Nat /\ Len(job.todo) = Len(job.asked)
    BY <1>1 DEF Running, Pushing
<1>5. Pushing(job)'
    <2>1. \A n \in 1..Len(job.asked) - Len(job.todo) : FALSE
        BY <1>4
    <2>2. \A n \in 1..Len(job.todo) :
              job.todo[n] = job.asked[Len(job.asked) - Len(job.todo) + n]
        BY <1>1 DEF Pushing
    <2>3. Len(job.todo) <= Len(job.asked)
        BY <1>4
    <2> QED
        BY <1>3, <1>4, <2>1, <2>2, <2>3 DEF Pushing
<1> QED
    BY <1>2, <1>3, <1>5 DEF ConnectorInv, OkMeansPushed

\* One change is pushed, passed over, or marks the call as failed.
LEMMA ChangePushed ==
    ASSUME ConnectorInv, NEW fails \in BOOLEAN, ConnectorPush(fails)
    PROVE  ConnectorInv'
<1> DEFINE asked == job.asked
           todo  == job.todo
           c     == Head(todo)
           done  == Len(asked) - Len(todo)
<1>1. job \in Running /\ Pushing(job) /\ job.state = "push" /\ todo # <<>>
    BY DEF ConnectorInv, ConnectorPush
<1>2. /\ asked \in Seq(Change) /\ todo \in Seq(Change)
      /\ job.synced \in Nat /\ job.failed \in BOOLEAN
      /\ Len(asked) \in Nat /\ Len(todo) \in Nat \ {0} /\ Len(todo) <= Len(asked)
    BY <1>1 DEF Running, Pushing
<1>3. c \in Change /\ c = asked[done + 1] /\ done \in Nat
    <2>1. \A n \in 1..Len(todo) : todo[n] = asked[done + n]
        BY <1>1 DEF Pushing
    <2>2. 1 \in 1..Len(todo) /\ done \in Nat /\ todo[1] \in Change /\ Head(todo) = todo[1]
        BY <1>1, <1>2
    <2> HIDE DEF asked, todo, done
    <2> QED
        BY <2>1, <2>2
<1>4. /\ Tail(todo) \in Seq(Change) /\ Len(Tail(todo)) = Len(todo) - 1
      /\ \A n \in 1..Len(todo) - 1 : Tail(todo)[n] = todo[n + 1]
    BY <1>2
<1>5. /\ reply' = reply
      /\ pages' \in [Change -> Nat]
      /\ \A d \in Change : pages[d] > 0 => pages'[d] > 0
      /\ job' \in Running
      /\ job'.asked = asked /\ job'.todo = Tail(todo) /\ job'.state = "push"
      /\ job'.failed \/ (~job.failed /\ (c \in Deletes \/ pages'[c] > 0))
    <2>1. pages \in [Change -> Nat]
        BY DEF ConnectorInv
    <2>2. CASE c \in Deletes
        <3>1. job' = [job EXCEPT !.todo = Tail(todo)] /\ pages' = pages /\ reply' = reply
            BY <2>2 DEF ConnectorPush
        <3>2. /\ job' \in Running /\ job'.asked = asked /\ job'.todo = Tail(todo)
              /\ job'.state = "push" /\ job'.failed = job.failed
            BY <1>1, <1>2, <1>4, <3>1 DEF Running
        <3> QED
            BY <1>2, <2>1, <2>2, <3>1, <3>2
    <2>3. CASE c \notin Deletes
        <3>1. /\ \E y \in Nat, f \in BOOLEAN :
                    /\ job' = [job EXCEPT !.todo = Tail(todo), !.synced = y, !.failed = f]
                    /\ f \/ (~job.failed /\ ~fails)
              /\ pages' = IF fails THEN pages ELSE [pages EXCEPT ![c] = pages[c] + 1]
              /\ reply' = reply
            <4>1. /\ job' = [job EXCEPT !.todo = Tail(todo),
                                        !.synced = IF fails THEN job.synced ELSE job.synced + 1,
                                        !.failed = job.failed \/ fails]
                  /\ pages' = IF fails THEN pages ELSE [pages EXCEPT ![c] = pages[c] + 1]
                  /\ reply' = reply
                BY <2>3 DEF ConnectorPush
            <4>2. CASE fails
                <5>1. job' = [job EXCEPT !.todo = Tail(todo), !.synced = job.synced,
                                         !.failed = TRUE]
                    BY <4>1, <4>2
                <5> QED
                    BY <1>2, <4>1, <5>1
            <4>3. CASE ~fails
                <5>1. job' = [job EXCEPT !.todo = Tail(todo), !.synced = job.synced + 1,
                                         !.failed = job.failed]
                    BY <1>2, <4>1, <4>3
                <5>2. job.synced + 1 \in Nat /\ job.failed \in BOOLEAN
                    BY <1>2
                <5> QED
                    BY <4>1, <4>3, <5>1, <5>2
            <4> QED
                BY <4>2, <4>3
        <3>2. /\ job' \in Running /\ job'.asked = asked /\ job'.todo = Tail(todo)
              /\ job'.state = "push" /\ (job'.failed \/ (~job.failed /\ ~fails))
            BY <1>1, <1>2, <1>4, <3>1, ZenonT(60) DEF Running
        <3>3. /\ pages' \in [Change -> Nat] /\ \A d \in Change : pages[d] > 0 => pages'[d] > 0
              /\ fails \/ pages'[c] > 0
            BY <1>3, <2>1, <3>1
        <3> QED
            BY <1>2, <3>1, <3>2, <3>3
    <2> QED
        BY <2>2, <2>3
<1>6. \A d \in Change : d \in Deletes \/ pages[d] > 0 => d \in Deletes \/ pages'[d] > 0
    BY <1>5
<1>7. \A n \in 1..Len(asked) : asked[n] \in Change
    BY <1>2
<1>8. \A n \in 1..Len(todo) : todo[n] = asked[done + n]
    BY <1>1 DEF Pushing
<1>9. job.failed \/ \A n \in 1..done : asked[n] \in Deletes \/ pages[asked[n]] > 0
    BY <1>1 DEF Pushing
<1> HIDE DEF asked, todo, done, c
<1>10. Len(asked) - Len(Tail(todo)) = done + 1 /\ Len(asked) = done + Len(todo)
    BY <1>2, <1>4 DEF done
<1>11. \A n \in 1..Len(Tail(todo)) : Tail(todo)[n] = asked[done + 1 + n]
    <2> SUFFICES ASSUME NEW n \in 1..Len(Tail(todo))
                 PROVE  Tail(todo)[n] = asked[done + 1 + n]
        OBVIOUS
    <2>1. n \in 1..Len(todo) - 1 /\ n + 1 \in 1..Len(todo) /\ done + (n + 1) = done + 1 + n
        BY <1>2, <1>3, <1>4
    <2> QED
        BY <1>4, <1>8, <2>1
<1>12. job'.failed \/ \A n \in 1..done + 1 : asked[n] \in Deletes \/ pages'[asked[n]] > 0
    <2> SUFFICES ASSUME ~job'.failed, NEW n \in 1..done + 1
                 PROVE  asked[n] \in Deletes \/ pages'[asked[n]] > 0
        OBVIOUS
    <2>1. n \in 1..Len(asked)
        BY <1>2, <1>3, <1>10
    <2>2. CASE n = done + 1
        BY <1>3, <1>5, <2>2
    <2>3. CASE n # done + 1
        <3>1. n \in 1..done
            BY <1>3, <2>3
        <3> QED
            BY <1>5, <1>6, <1>7, <1>9, <2>1, <3>1
    <2> QED
        BY <2>2, <2>3
<1>13. Pushing(job)'
    <2>1. Len(Tail(todo)) <= Len(asked)
        BY <1>2, <1>4
    <2> QED
        BY <1>5, <1>10, <1>11, <1>12, <2>1 DEF Pushing
<1>14. OkMeansPushed'
    <2>1. OkMeansPushed /\ reply.asked \subseteq Change
        BY DEF ConnectorInv
    <2>2. CASE ~reply.ok
        BY <1>5, <2>2 DEF OkMeansPushed
    <2>3. CASE reply.ok
        BY <1>5, <2>1, <2>3 DEF OkMeansPushed
    <2> QED
        BY <2>2, <2>3
<1> QED
    BY <1>5, <1>13, <1>14 DEF ConnectorInv

\* An answer is ok only when everything asked for is behind.
LEMMA CallAnswers ==
    ASSUME ConnectorInv, ConnectorAnswer
    PROVE  ConnectorInv'
<1>1. job \in Running /\ Pushing(job) /\ job.todo = <<>>
    BY DEF ConnectorInv, ConnectorAnswer
<1>2. /\ reply' = [asked |-> Range(job.asked), ok |-> ~job.failed]
      /\ job' = NoJob /\ pages' = pages
    BY DEF ConnectorAnswer
<1>3. job.asked \in Seq(Change) /\ Len(job.asked) \in Nat /\ Len(job.todo) = 0
    BY <1>1 DEF Running
<1>4. job.failed \/ \A n \in 1..Len(job.asked) :
                       job.asked[n] \in Deletes \/ pages[job.asked[n]] > 0
    BY <1>1, <1>3 DEF Pushing
<1>5. Range(job.asked) = {job.asked[n] : n \in 1..Len(job.asked)}
    BY <1>3 DEF Range
<1>6. Range(job.asked) \subseteq Change
    BY <1>3, <1>5
<1>7. reply'.asked = Range(job.asked) /\ (reply'.ok => ~job.failed)
    BY <1>2
<1>8. OkMeansPushed'
    BY <1>2, <1>4, <1>5, <1>7 DEF OkMeansPushed
<1> QED
    BY <1>2, <1>6, <1>7, <1>8 DEF ConnectorInv

\* Every step of a connector's run and of the push handler keeps what the
\* answer may claim.
LEMMA ConnectorStep == ConnectorInv /\ [SyncNext]_syncVars => ConnectorInv'
<1> SUFFICES ASSUME ConnectorInv, [SyncNext]_syncVars PROVE ConnectorInv'
    OBVIOUS
<1>1. ASSUME UNCHANGED <<job, pages, reply>> PROVE ConnectorInv'
    BY <1>1 DEF ConnectorInv, Pushing, OkMeansPushed
<1>2. ASSUME NEW changed \in Changesets, NEW policy \in Policy, HandleSyncPush(changed, policy)
      PROVE  ConnectorInv'
    BY <1>1, <1>2 DEF HandleSyncPush
<1>3. CASE SyncRestart
    BY <1>3 DEF SyncRestart, ConnectorInv, OkMeansPushed
<1>4. CASE Register \/ Unregister
    BY <1>1, <1>4 DEF Register, Unregister
<1>5. ASSUME NEW k \in 0..2, NEW changed \in [1..k -> Change], SyncConnector(changed)
      PROVE  ConnectorInv'
    BY <1>5, CallBegins
<1>6. ASSUME NEW fails \in BOOLEAN, ConnectorPull(fails) \/ ConnectorPush(fails)
      PROVE  ConnectorInv'
    BY <1>6, PullEnds, ChangePushed
<1>7. CASE ConnectorAnswer
    BY <1>7, CallAnswers
<1>8. CASE UNCHANGED syncVars
    BY <1>1, <1>8 DEF syncVars
<1> QED
    BY <1>2, <1>3, <1>4, <1>5, <1>6, <1>7, <1>8 DEF SyncNext

\* Whatever the order, the repetition and the overlap of changesets, the store
\* keeps the newest record of an id under last-write-wins and a pull from before
\* returns it; whichever requests of a connector fail and whenever the daemon
\* restarts, ok means that every change has its page.
THEOREM SyncConverges == SyncSpec => []SyncSound
<1>1. SyncInit => StoreInv /\ ConnectorInv
    <2> SUFFICES ASSUME SyncInit PROVE StoreInv /\ ConnectorInv
        OBVIOUS
    <2>1. StoreInv
        BY RecordTimes DEF SyncInit, StoreInv
    <2>2. ConnectorInv
        BY DEF SyncInit, ConnectorInv, OkMeansPushed
    <2> QED
        BY <2>1, <2>2
<1>2. StoreInv => LastWriteWins
    <2> SUFFICES ASSUME StoreInv, NEW i \in RecordId
                 PROVE  /\ store[i].at <= newest[i]
                        /\ newest[i] > 0 => store[i].at > 0
                        /\ i \notin forced =>
                             /\ store[i].at = newest[i]
                             /\ \A t \in 0..LastTime :
                                   t < newest[i] => i \in HandleSyncPull(t)
        BY DEF LastWriteWins
    <2>1. /\ store[i] \in Rec \cup {NoRecord} /\ newest[i] \in 0..LastTime
          /\ store[i].at <= newest[i] /\ (newest[i] > 0 => store[i].at > 0)
          /\ (i \notin forced => store[i].at = newest[i])
        BY DEF StoreInv
    <2>2. LastTime \in Nat /\ (store[i].at > 0 => store[i] # NoRecord)
        BY <2>1, RecordTimes
    <2> QED
        BY <2>1, <2>2 DEF HandleSyncPull
<1>3. ConnectorInv => OkMeansPushed
    BY DEF ConnectorInv
<1>4. SyncSpec => [](StoreInv /\ ConnectorInv)
    BY <1>1, StoreStep, ConnectorStep, PTL DEF SyncSpec
<1> QED
    BY <1>2, <1>3, <1>4, PTL DEF SyncSound

------------------------------------------------------------------------------
(* The files that MCP servers share *)

\* What holds of the broadcast file and of every stale copy a trim is about to
\* write: n messages were sent, and those of c were sent while somebody trimmed.
Copy(s, n, c) ==
    /\ s \in Seq(Nat)
    /\ \A i \in 1..Len(s) : s[i] \in 1..n
    /\ \A i, j \in 1..Len(s) : i < j => s[i] < s[j]
    /\ \A m \in 1..n : \/ \E i \in 1..Len(s) : s[i] = m
                       \/ m \in c
                       \/ n - m >= Kept

BroadcastInv ==
    /\ sent \in Nat
    /\ trimmed \in [Process -> Seq(Nat) \cup {Nothing}]
    /\ Copy(broadcasts, sent, crossed)
    /\ \A p \in Process : trimmed[p] # Nothing => Copy(trimmed[p], sent, crossed)

\* A trim is under way, or has been, only after more messages than are kept.
CutInv == cut # {} \/ (\E p \in Process : trimmed[p] # Nothing) => sent > Kept

\* Sessions that have registered and are not exposed are known to everybody who is
\* registering and listed by the file; of two that register at once both are exposed.
Settled == (registrations \ Underway) \ exposed

Registering == [at : {"loaded", "open"}, session : SessionId, list : SUBSET SessionId]

RegisterInv ==
    /\ registrations \subseteq SessionId
    /\ active \in (SUBSET registrations) \cup {Nothing}
    /\ register \in [Process -> Registering \cup {Nothing}]
    /\ active = Nothing => \E p \in Process : register[p] # Nothing
    /\ active # Nothing => Settled \subseteq active
    /\ \A p \in Process : register[p] # Nothing =>
          /\ register[p].session \in register[p].list
          /\ register[p].list \subseteq registrations
          /\ Settled \subseteq register[p].list
          /\ \A q \in Process \ {p} : register[q] # Nothing => register[p].session \in exposed

\* Message numbers that ascend are at least as far apart as their places.
LEMMA Spread ==
    ASSUME NEW s \in Seq(Nat), \A i, j \in 1..Len(s) : i < j => s[i] < s[j]
    PROVE  \A i, j \in 1..Len(s) : i <= j => j - i <= s[j] - s[i]
<1> SUFFICES ASSUME NEW i \in 1..Len(s) PROVE \A j \in 1..Len(s) : i <= j => j - i <= s[j] - s[i]
    OBVIOUS
<1> DEFINE Far(j) == j - i <= s[j] - s[i]
           Bad == {j \in 1..Len(s) : i <= j /\ ~Far(j)}
<1>1. \A j \in 1..Len(s) : s[j] \in Nat
    BY ElementOfSeq, LenProperties
<1>2. SUFFICES ASSUME Bad # {} PROVE FALSE
    OBVIOUS
<1>3. Bad \in SUBSET Nat
    BY LenProperties
<1>4. PICK j \in Bad : \A k \in Bad : j <= k
    BY <1>2, <1>3, LeastExists
<1>5. j \in 1..Len(s) /\ i <= j /\ ~(j - i <= s[j] - s[i])
    BY <1>4
<1>6. j # i
    BY <1>1, <1>5
<1>7. j - 1 \in 1..Len(s) /\ i <= j - 1 /\ j - 1 < j
    BY <1>5, <1>6, LenProperties
<1>8. j - 1 \notin Bad
    BY <1>3, <1>4, <1>5, LenProperties
<1>9. (j - 1) - i <= s[j - 1] - s[i]
    BY <1>7, <1>8
<1>10. s[j - 1] < s[j]
    BY <1>5, <1>7
<1>11. i \in Int /\ j \in Int /\ s[i] \in Nat /\ s[j] \in Nat /\ s[j - 1] \in Nat
    BY <1>1, <1>5, <1>7, LenProperties
<1>12. ~(j - i <= s[j] - s[i])
    BY <1>5
<1> HIDE DEF Bad, Far
<1> QED
    BY <1>9, <1>10, <1>11, <1>12, SMTT(60)

\* messages.slice(-MAX) of a file that is longer drops only messages that as
\* many newer ones have followed.
LEMMA TrimmedCopy ==
    ASSUME NEW s, NEW n \in Nat, NEW c, Copy(s, n, c), Len(s) > Kept
    PROVE  Copy(NewestKept(s), n, c)
<1> DEFINE t == NewestKept(s)
           d == Len(s) - Kept
<1>1. s \in Seq(Nat) /\ Len(s) \in Nat /\ Kept \in Nat /\ d \in Nat /\ d >= 1
    BY LenProperties, SessionFilesAssumption DEF Copy
<1>2. \A i \in 1..Len(s) : s[i] \in Nat /\ s[i] <= n /\ 1 <= s[i]
    BY DEF Copy
<1>3. /\ t \in Seq(Nat) /\ Len(t) = Kept
      /\ \A i \in 1..Kept : t[i] = s[d + i]
    <2>1. d + 1 \in 1..(Len(s) + 1) /\ Len(s) \in d..Len(s)
        BY <1>1
    <2>2. t = SubSeq(s, d + 1, Len(s))
        BY <1>1 DEF NewestKept
    <2>3. \A i \in (d + 1)..Len(s) : s[i] \in Nat
        BY <1>1, <1>2
    <2>4. t \in Seq(Nat)
        BY <1>1, <2>2, <2>3, SubSeqProperties
    <2>5. Len(t) = IF d + 1 <= Len(s) THEN Len(s) - (d + 1) + 1 ELSE 0
        BY <1>1, <2>2, <2>3, SubSeqProperties
    <2>6. \A i \in 1..(Len(s) - (d + 1) + 1) : t[i] = s[(d + 1) + i - 1]
        BY <1>1, <2>2, <2>3, SubSeqProperties
    <2>7. Len(s) - (d + 1) + 1 = Kept
        BY <1>1
    <2>8. Len(t) = Kept
        <3> HIDE DEF t
        <3> QED
            BY <1>1, <2>5, <2>7
    <2>9. \A i \in 1..Kept : (d + 1) + i - 1 = d + i
        BY <1>1
    <2>10. \A i \in 1..Kept : t[i] = s[d + i]
        <3> HIDE DEF t, d
        <3> QED
            BY <2>6, <2>7, <2>9
    <2> QED
        BY <2>4, <2>8, <2>10
<1>4. \A i \in 1..Kept : d + i \in 1..Len(s)
    BY <1>1
<1>5. \A i \in 1..Len(t) : t[i] \in 1..n
    BY <1>3, <1>4 DEF Copy
<1>6. \A i, j \in 1..Len(t) : i < j => t[i] < t[j]
    <2> SUFFICES ASSUME NEW i \in 1..Kept, NEW j \in 1..Kept, i < j PROVE t[i] < t[j]
        BY <1>3
    <2>1. d + i \in 1..Len(s) /\ d + j \in 1..Len(s) /\ d + i < d + j
        BY <1>1
    <2>2. s[d + i] < s[d + j]
        BY <2>1 DEF Copy
    <2> QED
        BY <1>3, <2>2
<1>7. ASSUME NEW m \in 1..n, m \notin c, ~(n - m >= Kept)
      PROVE  \E i \in 1..Len(t) : t[i] = m
    <2>1. PICK i \in 1..Len(s) : s[i] = m
        BY <1>7 DEF Copy
    <2>2. Len(s) - i <= s[Len(s)] - m
        <3>1. \A k, l \in 1..Len(s) : k <= l => l - k <= s[l] - s[k]
            BY <1>1, Spread DEF Copy
        <3>2. Len(s) \in 1..Len(s) /\ i <= Len(s)
            BY <1>1, <2>1
        <3> QED
            BY <2>1, <3>1, <3>2
    <2>3. Len(s) \in 1..Len(s) /\ s[Len(s)] <= n /\ s[Len(s)] \in Nat
        BY <1>1, <1>2
    <2>4. i > d
        BY <1>1, <1>7, <2>1, <2>2, <2>3, SMTT(60)
    <2>5. i - d \in 1..Kept
        BY <1>1, <2>1, <2>4
    <2>6. t[i - d] = s[d + (i - d)]
        BY <1>3, <2>5
    <2>7. t[i - d] = m
        BY <1>1, <2>1, <2>6
    <2> QED
        BY <1>3, <2>5, <2>7
<1> HIDE DEF t
<1> QED
    BY <1>3, <1>5, <1>6, <1>7 DEF Copy, t

\* A copy that is not written back to yet stays one as long as what is sent
\* meanwhile counts as crossed.
LEMMA CopyAges ==
    ASSUME NEW s, NEW n \in Nat, NEW c, Copy(s, n, c)
    PROVE  Copy(s, n + 1, c \cup {n + 1})
<1>1. \A m \in 1..(n + 1) : m = n + 1 \/ m \in 1..n
    OBVIOUS
<1>2. Kept \in Nat
    BY SessionFilesAssumption
<1> QED
    BY <1>1, <1>2 DEF Copy

\* The file to which a message is appended.
LEMMA CopyGrows ==
    ASSUME NEW s, NEW n \in Nat, NEW c, NEW d, Copy(s, n, c), c \subseteq d
    PROVE  Copy(Append(s, n + 1), n + 1, d)
<1> DEFINE t == Append(s, n + 1)
<1>1. s \in Seq(Nat) /\ Len(s) \in Nat /\ Kept \in Nat
    BY LenProperties, SessionFilesAssumption DEF Copy
<1>2. /\ t \in Seq(Nat) /\ Len(t) = Len(s) + 1
      /\ t[Len(s) + 1] = n + 1
      /\ \A i \in 1..Len(s) : t[i] = s[i]
    BY <1>1, AppendProperties
<1> HIDE DEF t
<1>3. \A i \in 1..Len(t) : i = Len(s) + 1 \/ i \in 1..Len(s)
    BY <1>1, <1>2
<1>4. \A i \in 1..Len(s) : s[i] \in 1..n
    BY DEF Copy
<1>5. \A i \in 1..Len(t) : t[i] \in 1..(n + 1)
    BY <1>2, <1>3, <1>4
<1>6. \A i, j \in 1..Len(t) : i < j => t[i] < t[j]
    <2> SUFFICES ASSUME NEW i \in 1..Len(t), NEW j \in 1..Len(t), i < j PROVE t[i] < t[j]
        OBVIOUS
    <2>1. i \in 1..Len(s)
        BY <1>1, <1>2, <1>3
    <2>2. CASE j = Len(s) + 1
        <3>1. s[i] \in 1..n /\ t[i] = s[i] /\ t[j] = n + 1
            BY <1>2, <1>4, <2>1, <2>2
        <3> QED
            BY <3>1
    <2>3. CASE j \in 1..Len(s)
        BY <1>2, <2>1, <2>3 DEF Copy
    <2> QED
        BY <1>3, <2>2, <2>3
<1>7. ASSUME NEW m \in 1..(n + 1)
      PROVE  (\E i \in 1..Len(t) : t[i] = m) \/ m \in d \/ (n + 1) - m >= Kept
    <2>1. CASE m = n + 1
        BY <1>1, <1>2, <2>1
    <2>2. CASE m # n + 1
        <3>1. m \in 1..n
            BY <2>2
        <3>2. CASE \E i \in 1..Len(s) : s[i] = m
            BY <1>1, <1>2, <3>2
        <3>3. CASE m \in c
            BY <3>3
        <3>4. CASE n - m >= Kept
            BY <1>1, <3>1, <3>4
        <3> QED
            BY <3>1, <3>2, <3>3, <3>4 DEF Copy
    <2> QED
        BY <2>1, <2>2
<1> QED
    BY <1>2, <1>5, <1>6, <1>7 DEF Copy, t

\* Broadcasts and the two steps of a trim keep the file and all stale copies.
LEMMA BroadcastStep == BroadcastInv /\ [SessionFilesNext]_sessionFileVars => BroadcastInv'
<1> SUFFICES ASSUME BroadcastInv, [SessionFilesNext]_sessionFileVars PROVE BroadcastInv'
    OBVIOUS
<1>1. ASSUME UNCHANGED <<broadcasts, sent, trimmed, crossed>> PROVE BroadcastInv'
    BY <1>1 DEF BroadcastInv, Copy
<1>2. ASSUME NEW p \in Process, Broadcast(p) PROVE BroadcastInv'
    <2>1. sent \in Nat /\ sent' = sent + 1 /\ broadcasts' = Append(broadcasts, sent + 1)
          /\ trimmed' = trimmed /\ crossed \subseteq crossed'
        BY <1>2 DEF Broadcast, BroadcastInv
    <2>2. Copy(broadcasts', sent', crossed')
        BY <2>1, CopyGrows DEF BroadcastInv
    <2>3. ASSUME NEW q \in Process, trimmed[q] # Nothing PROVE Copy(trimmed[q], sent', crossed')
        <3>1. crossed' = crossed \cup {sent + 1}
            BY <1>2, <2>1, <2>3 DEF Broadcast
        <3>2. Copy(trimmed[q], sent, crossed)
            BY <2>3 DEF BroadcastInv
        <3> QED
            BY <2>1, <3>1, <3>2, CopyAges
    <2>4. sent' \in Nat
        BY <2>1
    <2> QED
        BY <2>1, <2>2, <2>3, <2>4 DEF BroadcastInv
<1>3. ASSUME NEW p \in Process, LoadBroadcasts(p) PROVE BroadcastInv'
    <2>1. UNCHANGED <<broadcasts, sent, crossed>>
        BY <1>3 DEF LoadBroadcasts
    <2>2. CASE Len(broadcasts) > Kept
        <3>1. trimmed' = [trimmed EXCEPT ![p] = NewestKept(broadcasts)]
            BY <1>3, <2>2 DEF LoadBroadcasts
        <3>2. Copy(NewestKept(broadcasts), sent, crossed)
            BY <2>2, TrimmedCopy DEF BroadcastInv
        <3>3. NewestKept(broadcasts) \in Seq(Nat)
            BY <3>2 DEF Copy
        <3>4. \A q \in Process : trimmed'[q] = IF q = p THEN NewestKept(broadcasts) ELSE trimmed[q]
            BY <3>1 DEF BroadcastInv
        <3>5. \A q \in Process : trimmed'[q] # Nothing => Copy(trimmed'[q], sent, crossed)
            BY <3>2, <3>4, Zenon DEF BroadcastInv
        <3>6. trimmed' \in [Process -> Seq(Nat) \cup {Nothing}]
            BY <3>1, <3>3 DEF BroadcastInv
        <3> QED
            BY <2>1, <3>5, <3>6 DEF BroadcastInv
    <2>3. CASE ~(Len(broadcasts) > Kept)
        BY <1>1, <1>3, <2>1, <2>3 DEF LoadBroadcasts
    <2> QED
        BY <2>2, <2>3
<1>4. ASSUME NEW p \in Process, WriteTrimmed(p) PROVE BroadcastInv'
    <2>1. UNCHANGED <<sent, crossed>> /\ broadcasts' = trimmed[p] /\ trimmed[p] # Nothing
          /\ trimmed' = [trimmed EXCEPT ![p] = Nothing]
        BY <1>4 DEF WriteTrimmed
    <2>2. \A q \in Process : trimmed'[q] # Nothing => trimmed'[q] = trimmed[q]
        BY <2>1 DEF BroadcastInv
    <2>3. trimmed' \in [Process -> Seq(Nat) \cup {Nothing}]
        BY <2>1 DEF BroadcastInv
    <2> QED
        BY <2>1, <2>2, <2>3 DEF BroadcastInv
<1>5. ASSUME NEW p \in Process, NEW s \in SessionId, LoadSessions(p, s) PROVE BroadcastInv'
    BY <1>1, <1>5 DEF LoadSessions
<1>6. ASSUME NEW p \in Process, OpenSessions(p) \/ SaveSessions(p) PROVE BroadcastInv'
    BY <1>1, <1>6 DEF OpenSessions, SaveSessions
<1> QED
    BY <1>1, <1>2, <1>3, <1>4, <1>5, <1>6 DEF SessionFilesNext, sessionFileVars

\* A file with more messages than are kept: as many were sent.
LEMMA LongFile ==
    ASSUME NEW s, NEW n \in Nat, NEW c, Copy(s, n, c), Len(s) > Kept
    PROVE  n > Kept
<1>1. s \in Seq(Nat) /\ Len(s) \in Nat /\ Kept \in Nat
    BY LenProperties, SessionFilesAssumption DEF Copy
<1>2. 1 \in 1..Len(s) /\ Len(s) \in 1..Len(s) /\ 1 <= Len(s)
    BY <1>1
<1>3. Len(s) - 1 <= s[Len(s)] - s[1]
    <2>1. \A k, l \in 1..Len(s) : k <= l => l - k <= s[l] - s[k]
        BY <1>1, Spread DEF Copy
    <2> QED
        BY <1>2, <2>1
<1>4. s[1] \in 1..n /\ s[Len(s)] \in 1..n
    BY <1>2 DEF Copy
<1> QED
    BY <1>1, <1>3, <1>4

LEMMA CutStep ==
    BroadcastInv /\ CutInv /\ [SessionFilesNext]_sessionFileVars => CutInv'
<1> SUFFICES ASSUME BroadcastInv, CutInv, [SessionFilesNext]_sessionFileVars PROVE CutInv'
    OBVIOUS
<1>0. sent \in Nat /\ Kept \in Nat
    BY SessionFilesAssumption DEF BroadcastInv
<1>1. ASSUME UNCHANGED <<cut, trimmed, sent>> PROVE CutInv'
    BY <1>1 DEF CutInv
<1>2. ASSUME NEW p \in Process, Broadcast(p) PROVE CutInv'
    BY <1>0, <1>2 DEF Broadcast, CutInv
<1>3. ASSUME NEW p \in Process, LoadBroadcasts(p) PROVE CutInv'
    <2>1. UNCHANGED <<cut, sent>>
        BY <1>3 DEF LoadBroadcasts
    <2>2. CASE Len(broadcasts) > Kept
        <3>1. sent > Kept
            BY <2>2, LongFile DEF BroadcastInv
        <3> QED
            BY <2>1, <3>1 DEF CutInv
    <2>3. CASE ~(Len(broadcasts) > Kept)
        BY <1>1, <1>3, <2>1, <2>3 DEF LoadBroadcasts
    <2> QED
        BY <2>2, <2>3
<1>4. ASSUME NEW p \in Process, WriteTrimmed(p) PROVE CutInv'
    BY <1>4 DEF WriteTrimmed, CutInv
<1>5. ASSUME NEW p \in Process, NEW s \in SessionId, LoadSessions(p, s) PROVE CutInv'
    BY <1>1, <1>5 DEF LoadSessions
<1>6. ASSUME NEW p \in Process, OpenSessions(p) \/ SaveSessions(p) PROVE CutInv'
    BY <1>1, <1>6 DEF OpenSessions, SaveSessions
<1> QED
    BY <1>1, <1>2, <1>3, <1>4, <1>5, <1>6 DEF SessionFilesNext, sessionFileVars

\* handleRegister, step by step.
LEMMA RegistrationBegins ==
    ASSUME RegisterInv, NEW p \in Process, NEW s \in SessionId, LoadSessions(p, s)
    PROVE  RegisterInv'
<1> DEFINE listed == IF active = Nothing THEN {} ELSE active
           r == [at |-> "loaded", session |-> s, list |-> listed \cup {s}]
<1>1. /\ register[p] = Nothing /\ s \notin registrations
      /\ registrations' = registrations \cup {s} /\ active' = active
      /\ register' = [register EXCEPT ![p] = r]
      /\ exposed' = exposed \cup (IF Underway = {} THEN {} ELSE Underway \cup {s})
                            \cup (IF active = Nothing THEN registrations ELSE {})
    BY DEF LoadSessions
<1>2. /\ listed \subseteq registrations
      /\ active # Nothing => listed = active
    BY DEF RegisterInv
<1>3. r \in Registering /\ r.session = s /\ r.list = listed \cup {s}
    BY <1>2 DEF Registering, RegisterInv
<1> HIDE DEF listed, r
<1>4. r # Nothing
    BY <1>3, SessionFilesAssumption DEF Registering
<1>5. /\ register' \in [Process -> Registering \cup {Nothing}]
      /\ register'[p] = r /\ \A q \in Process \ {p} : register'[q] = register[q]
    BY <1>1, <1>3 DEF RegisterInv
<1>6. \A x : x \in Underway' <=> x \in Underway \/ x = s
    BY <1>1, <1>3, <1>4, <1>5 DEF Underway
<1>7. /\ exposed \subseteq exposed'
      /\ Underway # {} => s \in exposed' /\ Underway \subseteq exposed'
      /\ active = Nothing => registrations \subseteq exposed'
    BY <1>1
<1>8. Settled' \subseteq Settled /\ Settled' \subseteq registrations
      /\ Settled' \cap exposed' = {}
    BY <1>1, <1>6, <1>7 DEF Settled
<1>9. active = Nothing => Settled' = {}
    BY <1>7, <1>8
<1>10. Settled' \subseteq r.list /\ r.list \subseteq registrations'
    BY <1>1, <1>2, <1>3, <1>8, <1>9 DEF RegisterInv
<1>11. \A q \in Process \ {p} : register[q] # Nothing => Underway # {} /\ register[q].session \in Underway
    BY DEF Underway
<1>12. ASSUME NEW q \in Process, register'[q] # Nothing
       PROVE  /\ register'[q].session \in register'[q].list
              /\ register'[q].list \subseteq registrations'
              /\ Settled' \subseteq register'[q].list
              /\ \A o \in Process \ {q} : register'[o] # Nothing => register'[q].session \in exposed'
    <2>1. CASE q = p
        BY <1>3, <1>5, <1>7, <1>10, <1>11, <2>1
    <2>2. CASE q # p
        <3>1. register'[q] = register[q] /\ register[q] # Nothing
            BY <1>5, <1>12, <2>2
        <3>2. register[q].session \in exposed'
            BY <1>7, <1>11, <2>2, <3>1
        <3> QED
            BY <1>1, <1>8, <3>1, <3>2 DEF RegisterInv
    <2> QED
        BY <2>1, <2>2
<1>13. /\ registrations' \subseteq SessionId
       /\ active' \in (SUBSET registrations') \cup {Nothing}
       /\ active' = Nothing => \E q \in Process : register'[q] # Nothing
       /\ active' # Nothing => Settled' \subseteq active'
    BY <1>1, <1>4, <1>5, <1>8 DEF RegisterInv
<1> QED
    BY <1>5, <1>12, <1>13 DEF RegisterInv

LEMMA FileOpened ==
    ASSUME RegisterInv, NEW p \in Process, OpenSessions(p)
    PROVE  RegisterInv'
<1> DEFINE r == [register[p] EXCEPT !.at = "open"]
<1>1. /\ UNCHANGED <<registrations, exposed>> /\ active' = Nothing /\ register[p] # Nothing
      /\ register' = [register EXCEPT ![p] = r]
    BY DEF OpenSessions
<1>2. register[p] \in Registering
    BY <1>1 DEF RegisterInv
<1>3. r \in Registering /\ r.list = register[p].list /\ r.session = register[p].session
    BY <1>2 DEF Registering
<1> HIDE DEF r
<1>4. r # Nothing
    BY <1>3, SessionFilesAssumption DEF Registering
<1>5. /\ register' \in [Process -> Registering \cup {Nothing}]
      /\ register'[p] = r /\ \A q \in Process \ {p} : register'[q] = register[q]
    BY <1>1, <1>3 DEF RegisterInv
<1>6. \A q \in Process : /\ register'[q] # Nothing <=> register[q] # Nothing
                         /\ register[q] # Nothing => /\ register'[q].list = register[q].list
                                                    /\ register'[q].session = register[q].session
    BY <1>1, <1>3, <1>4, <1>5
<1>7. Underway' = Underway
    BY <1>6 DEF Underway
<1>8. Settled' = Settled
    BY <1>1, <1>7 DEF Settled
<1>9. \E q \in Process : register'[q] # Nothing
    BY <1>4, <1>5
<1> QED
    BY <1>1, <1>5, <1>6, <1>8, <1>9 DEF RegisterInv

LEMMA FileSaved ==
    ASSUME RegisterInv, NEW p \in Process, SaveSessions(p)
    PROVE  RegisterInv'
<1> DEFINE r == register[p]
<1>1. /\ UNCHANGED <<registrations, exposed>> /\ active' = r.list /\ r # Nothing
      /\ register' = [register EXCEPT ![p] = Nothing]
    BY DEF SaveSessions
<1>2. r \in Registering /\ r.session \in r.list /\ r.list \subseteq registrations /\ Settled \subseteq r.list
    BY <1>1 DEF RegisterInv
<1>3. /\ register' \in [Process -> Registering \cup {Nothing}]
      /\ register'[p] = Nothing /\ \A q \in Process \ {p} : register'[q] = register[q]
    BY <1>1 DEF RegisterInv
<1>4. \A x : x \in Underway => x = r.session \/ x \in Underway'
    BY <1>3 DEF Underway
<1>5. \A x \in Settled' : x \in Settled \/ (x = r.session /\ x \notin exposed)
    BY <1>1, <1>4 DEF Settled
<1> HIDE DEF r
<1>6. Settled' \subseteq r.list
    BY <1>2, <1>5
<1>7. r.list # Nothing
    BY <1>2, SessionFilesAssumption DEF Registering
<1>8. ASSUME NEW q \in Process, register'[q] # Nothing
      PROVE  /\ register'[q].session \in register'[q].list
             /\ register'[q].list \subseteq registrations'
             /\ Settled' \subseteq register'[q].list
             /\ \A o \in Process \ {q} : register'[o] # Nothing => register'[q].session \in exposed'
    <2>1. q # p /\ register'[q] = register[q] /\ register[q] # Nothing
        BY <1>3, <1>8
    <2>2. r.session \in exposed
        BY <1>1, <2>1 DEF RegisterInv, r
    <2>3. Settled' \subseteq register'[q].list
        BY <1>5, <2>1, <2>2 DEF RegisterInv
    <2>4. \A o \in Process \ {q} : register'[o] # Nothing => register[o] # Nothing
        BY <1>3
    <2> QED
        BY <1>1, <2>1, <2>3, <2>4 DEF RegisterInv
<1>9. /\ registrations' \subseteq SessionId
      /\ active' \in (SUBSET registrations') \cup {Nothing}
      /\ active' # Nothing /\ Settled' \subseteq active'
    BY <1>1, <1>2, <1>6, <1>7 DEF RegisterInv
<1> QED
    BY <1>3, <1>8, <1>9 DEF RegisterInv

LEMMA RegisterStep == RegisterInv /\ [SessionFilesNext]_sessionFileVars => RegisterInv'
<1> SUFFICES ASSUME RegisterInv, [SessionFilesNext]_sessionFileVars PROVE RegisterInv'
    OBVIOUS
<1>1. ASSUME UNCHANGED <<active, register, registrations, exposed>> PROVE RegisterInv'
    BY <1>1 DEF RegisterInv, Settled, Underway
<1>2. ASSUME NEW p \in Process, Broadcast(p) \/ LoadBroadcasts(p) \/ WriteTrimmed(p)
      PROVE  RegisterInv'
    BY <1>1, <1>2 DEF Broadcast, LoadBroadcasts, WriteTrimmed
<1> QED
    BY <1>1, <1>2, RegistrationBegins, FileOpened, FileSaved DEF SessionFilesNext, sessionFileVars

\* For any number of MCP servers and any limit: a message leaves the broadcast
\* file only behind as many newer ones or because it crossed somebody's trim, and
\* loses its further lines only once more messages were sent than are kept; and
\* the session file lists every registration that overlapped no other one and was
\* not there when somebody read the file half written, whatever overlaps later.
THEOREM SharedFilesKept == SessionFilesSpec => []FilesKept
<1>1. SessionFilesInit => BroadcastInv /\ CutInv /\ RegisterInv
    <2> SUFFICES ASSUME SessionFilesInit PROVE BroadcastInv /\ CutInv /\ RegisterInv
        OBVIOUS
    <2>1. Copy(broadcasts, sent, crossed)
        <3>1. broadcasts = <<>> /\ sent = 0
            BY DEF SessionFilesInit
        <3>2. <<>> \in Seq(Nat) /\ Len(<<>>) = 0
            OBVIOUS
        <3> QED
            BY <3>1, <3>2 DEF Copy
    <2>2. BroadcastInv
        BY <2>1 DEF SessionFilesInit, BroadcastInv
    <2>3. RegisterInv
        <3>1. active # Nothing
            BY SessionFilesAssumption DEF SessionFilesInit
        <3>2. /\ register \in [Process -> Registering \cup {Nothing}]
              /\ \A p \in Process : register[p] = Nothing
            BY DEF SessionFilesInit
        <3>3. Settled = {} /\ registrations = {} /\ active = {}
            BY DEF SessionFilesInit, Settled
        <3> QED
            BY <3>1, <3>2, <3>3 DEF RegisterInv
    <2>4. CutInv
        BY DEF SessionFilesInit, CutInv
    <2> QED
        BY <2>2, <2>3, <2>4
<1>2. BroadcastInv => LostOnlyCrossing
    <2> SUFFICES ASSUME BroadcastInv PROVE LostOnlyCrossing
        OBVIOUS
    <2>1. Copy(broadcasts, sent, crossed) /\ DOMAIN broadcasts = 1..Len(broadcasts)
        BY LenProperties DEF BroadcastInv, Copy
    <2> QED
        BY <2>1 DEF LostOnlyCrossing, Copy, ToSet
<1>3. RegisterInv => RegisteredListed
    <2> SUFFICES ASSUME RegisterInv, \A p \in Process : register[p] = Nothing
                 PROVE  /\ active # Nothing /\ active \subseteq registrations
                        /\ registrations \ exposed \subseteq active
        BY DEF RegisteredListed
    <2>1. Underway = {}
        BY DEF Underway
    <2>2. Settled = registrations \ exposed
        BY <2>1 DEF Settled
    <2> QED
        BY <2>2 DEF RegisterInv
<1>4. CutInv => WholeUntilTrimmed
    BY DEF CutInv, WholeUntilTrimmed
<1> QED
    BY <1>1, <1>2, <1>3, <1>4, BroadcastStep, CutStep, RegisterStep, PTL
    DEF SessionFilesSpec, FilesKept

------------------------------------------------------------------------------
(* The rate limiter *)

\* The arithmetic that the provers do not find on their own.
LEMMA TimesMonotone ==
    ASSUME NEW r \in Nat, NEW a \in Int, NEW b \in Int, a <= b
    PROVE  r * a <= r * b
<1>1. PICK d \in Nat : b = a + d
    BY b = a + (b - a), b - a \in Nat
<1>2. r * b = r * a + r * d
    BY <1>1
<1>3. r * d >= 0
    OBVIOUS
<1> QED BY <1>2, <1>3

\* A window that was served before the refill began less than an interval after
\* the refill before: the whole intervals since lie in it, but for one.
LEMMA RefilledWindow ==
    ASSUME NEW c \in Nat, NEW t \in Nat, NEW left \in Nat, NEW whole \in Nat,
           NEW last \in Nat, NEW from \in Nat, NEW at \in Nat,
           left <= Burst, left <= t + whole, from <= at,
           Rate * whole <= at - last,
           last < from => c + t <= Burst /\ (c > 0 => from - last < Rate),
           last >= from => Rate * (c + t) <= Rate * Burst + (last - from) + (Rate - 1)
    PROVE  Rate * (c + left) <= Rate * Burst + (at - from) + (Rate - 1)
<1> USE RateAssumption, BurstAssumption
<1>1. Rate * (c + left) <= Rate * (c + t + whole)
    BY TimesMonotone
<1>2. Rate * (c + t + whole) = Rate * (c + t) + Rate * whole
    OBVIOUS
<1>3. CASE last >= from
    BY <1>1, <1>2, <1>3
<1>4. CASE last < from /\ c = 0
    <2>1. Rate * (c + left) <= Rate * Burst
        BY <1>4, TimesMonotone
    <2> QED BY <2>1
<1>5. CASE last < from /\ c > 0
    <2>1. Rate * (c + t) <= Rate * Burst
        BY <1>5, TimesMonotone
    <2>2. at - last <= (at - from) + (Rate - 1)
        BY <1>5
    <2> QED BY <1>1, <1>2, <2>1, <2>2
<1> QED BY <1>3, <1>4, <1>5

\* Every tryConsume, sweep and tick keeps the books of the buckets.
LEMMA RateStep == RateInv /\ [RateNext]_rateVars => RateInv'
<1> SUFFICES ASSUME RateInv, [RateNext]_rateVars
             PROVE  RateInv'
    OBVIOUS
<1> USE RateAssumption, BurstAssumption, EndAssumption
<1>1. CASE UNCHANGED rateVars
    BY <1>1 DEF RateInv, rateVars
<1>2. CASE ClockTick
    BY <1>2 DEF RateInv, ClockTick
<1>3. CASE BeginWindow
    <2>1. \A k \in Key : /\ lastRefill[k] <= clock
                         /\ lastRefill[k] >= clock =>
                              Rate * (0 + tokens[k])
                                <= Rate * Burst + (lastRefill[k] - clock) + (Rate - 1)
        <3> SUFFICES ASSUME NEW k \in Key
                     PROVE  /\ lastRefill[k] <= clock
                            /\ lastRefill[k] >= clock =>
                                 Rate * (0 + tokens[k])
                                   <= Rate * Burst + (lastRefill[k] - clock) + (Rate - 1)
            OBVIOUS
        <3>1. tokens[k] \in Nat /\ tokens[k] <= Burst /\ lastRefill[k] \in Nat
              /\ lastRefill[k] <= clock
            BY DEF RateInv
        <3>2. Rate * tokens[k] <= Rate * Burst
            BY <3>1, TimesMonotone
        <3>3. 0 + tokens[k] = tokens[k]
            BY <3>1
        <3> QED BY <3>1, <3>2, <3>3 DEF RateInv
    <2> QED BY <1>3, <2>1 DEF RateInv, BeginWindow
<1>4. ASSUME NEW k \in Key, TryConsume(k)
      PROVE  RateInv'
    <2>1. PICK whole \in 0..clock :
            LET left == IF whole > 0 THEN Refill(k, whole) ELSE Filled(k)
                at   == IF whole > 0 THEN clock ELSE FilledAt(k)
            IN  /\ Floored(whole, clock - FilledAt(k))
                /\ known' = known \cup {k}
                /\ lastRefill' = [lastRefill EXCEPT ![k] = at]
                /\ \/ /\ left >= 1
                      /\ tokens' = [tokens EXCEPT ![k] = left - 1]
                      /\ counted' = [counted EXCEPT ![k] = @ + 1]
                   \/ /\ left < 1
                      /\ tokens' = [tokens EXCEPT ![k] = left]
                      /\ UNCHANGED counted
                /\ UNCHANGED <<clock, since>>
        BY <1>4 DEF TryConsume
    <2> DEFINE left == IF whole > 0 THEN Refill(k, whole) ELSE Filled(k)
               at   == IF whole > 0 THEN clock ELSE FilledAt(k)
    <2>2. whole \in Nat /\ Rate * whole <= clock - FilledAt(k)
          /\ (whole = 0 => clock - FilledAt(k) < Rate)
        BY <2>1 DEF RateInv, Floored, FilledAt
    <2>3. left \in Nat /\ left <= Burst /\ left <= Filled(k) + whole /\ Filled(k) \in Nat
        BY <2>2 DEF RateInv, Refill, Filled
    <2>4. at \in Nat /\ at <= clock /\ FilledAt(k) \in Nat
        BY DEF RateInv, FilledAt
    <2>5. counted[k] \in Nat /\ clock \in Nat /\ since \in Nat /\ since <= clock
        BY DEF RateInv
    \* What the bucket holds for the client before it is asked.
    <2>6. /\ at < since => counted[k] + left <= Burst /\ since - at < Rate
          /\ at >= since => Rate * (counted[k] + left)
                              <= Rate * Burst + (at - since) + (Rate - 1)
        <3>1. CASE k \notin known
            <4>1. counted[k] = 0 /\ FilledAt(k) = clock
                BY <3>1 DEF RateInv, FilledAt
            <4>2. Rate * left <= Rate * Burst
                BY <2>3, TimesMonotone
            <4>3. at = clock
                BY <4>1
            <4> QED BY <4>1, <4>2, <4>3, <2>3, <2>5
        <3>2. CASE k \in known
            <4>1. FilledAt(k) = lastRefill[k] /\ Filled(k) = tokens[k]
                BY <3>2 DEF FilledAt, Filled
            <4>2. /\ lastRefill[k] < since => counted[k] + tokens[k] <= Burst
                        /\ (counted[k] > 0 => since - lastRefill[k] < Rate)
                  /\ lastRefill[k] >= since =>
                        Rate * (counted[k] + tokens[k])
                          <= Rate * Burst + (lastRefill[k] - since) + (Rate - 1)
                BY <3>2 DEF RateInv
            <4>3. CASE whole = 0
                <5>1. left = tokens[k] /\ at = lastRefill[k]
                    BY <4>1, <4>3
                <5>2. since - lastRefill[k] < Rate
                    BY <2>2, <2>4, <2>5, <4>1, <4>3
                <5> QED BY <4>2, <5>1, <5>2
            <4>4. CASE whole > 0
                <5>1. at = clock
                    BY <4>4
                <5>2. Rate * (counted[k] + left)
                        <= Rate * Burst + (clock - since) + (Rate - 1)
                    <6> HIDE DEF left, at
                    <6>1. Rate * whole <= clock - lastRefill[k]
                        BY <2>2, <4>1
                    <6>2. left <= tokens[k] + whole
                        BY <2>3, <4>1
                    <6>3. lastRefill[k] \in Nat /\ tokens[k] \in Nat
                        BY <2>3, <2>4, <4>1
                    <6> QED BY <2>2, <2>3, <2>5, <4>2, <6>1, <6>2, <6>3, RefilledWindow
                <5> QED BY <5>1, <5>2, <2>5
            <4> QED BY <4>3, <4>4, <2>2
        <3> QED BY <3>1, <3>2
    <2> HIDE DEF left, at
    <2>7. /\ known' = known \cup {k} /\ UNCHANGED <<clock, since>>
          /\ lastRefill' = [lastRefill EXCEPT ![k] = at]
        BY <2>1 DEF left, at
    <2>8. \E c \in Nat, t \in Nat :
            /\ tokens' = [tokens EXCEPT ![k] = t] /\ counted' = [counted EXCEPT ![k] = c]
            /\ t <= Burst /\ c + t = counted[k] + left
        <3>1. CASE left >= 1
            <4>1. tokens' = [tokens EXCEPT ![k] = left - 1]
                  /\ counted' = [counted EXCEPT ![k] = counted[k] + 1]
                BY <2>1, <3>1, <2>3 DEF left, at
            <4>2. left - 1 \in Nat /\ counted[k] + 1 \in Nat /\ left - 1 <= Burst
                  /\ (counted[k] + 1) + (left - 1) = counted[k] + left
                BY <2>3, <2>5, <3>1
            <4> QED BY <4>1, <4>2
        <3>2. CASE left < 1
            <4>1. tokens' = [tokens EXCEPT ![k] = left] /\ counted' = counted
                BY <2>1, <3>2, <2>3 DEF left, at
            <4>2. counted' = [counted EXCEPT ![k] = counted[k]]
                BY <4>1 DEF RateInv
            <4> QED BY <4>1, <4>2, <2>3, <2>5
        <3> QED BY <3>1, <3>2, <2>3
    <2>9. PICK c \in Nat, t \in Nat :
            /\ tokens' = [tokens EXCEPT ![k] = t] /\ counted' = [counted EXCEPT ![k] = c]
            /\ t <= Burst /\ c + t = counted[k] + left
        BY <2>8
    <2>10. /\ clock' \in Nat /\ since' \in Nat /\ since' <= clock' /\ known' \subseteq Key
           /\ tokens' \in [Key -> Nat] /\ lastRefill' \in [Key -> Nat]
           /\ counted' \in [Key -> Nat]
        BY <2>4, <2>7, <2>9 DEF RateInv
    <2>11. /\ at < since => c + t <= Burst /\ since - at < Rate
           /\ at >= since => Rate * (c + t) <= Rate * Burst + (at - since) + (Rate - 1)
        BY <2>6, <2>9
    <2>12. ASSUME NEW j \in Key
           PROVE  /\ tokens'[j] <= Burst
                  /\ lastRefill'[j] <= clock'
                  /\ j \notin known' => counted'[j] = 0
                  /\ j \in known' /\ lastRefill'[j] < since' =>
                       /\ counted'[j] + tokens'[j] <= Burst
                       /\ counted'[j] > 0 => since' - lastRefill'[j] < Rate
                  /\ j \in known' /\ lastRefill'[j] >= since' =>
                       Rate * (counted'[j] + tokens'[j])
                           <= Rate * Burst + (lastRefill'[j] - since') + (Rate - 1)
        <3>1. CASE j = k
            <4>1. tokens'[j] = t /\ counted'[j] = c /\ lastRefill'[j] = at /\ j \in known'
                BY <3>1, <2>7, <2>9 DEF RateInv
            <4> QED BY <4>1, <2>4, <2>7, <2>9, <2>11
        <3>2. CASE j # k
            <4>1. tokens'[j] = tokens[j] /\ counted'[j] = counted[j]
                  /\ lastRefill'[j] = lastRefill[j] /\ (j \in known' <=> j \in known)
                BY <3>2, <2>7, <2>9 DEF RateInv
            <4> QED BY <4>1, <2>7 DEF RateInv
        <3> QED BY <3>1, <3>2
    <2> QED BY <2>10, <2>12 DEF RateInv
<1> QED BY <1>1, <1>2, <1>3, <1>4 DEF RateNext

\* The books of the buckets are right in every state of the limiter.
LEMMA RateInvHolds == RateSpec => []RateInv
<1>1. RateInit => RateInv
    BY RateAssumption, BurstAssumption DEF RateInit, RateInv
<1> QED BY <1>1, RateStep, PTL DEF RateSpec

\* Whatever the rate, the burst and the clients: in no stretch of time does
\* tryConsume admit more requests of a client than WindowBounded allows.
THEOREM NoClientSavesUp == RateSpec => []WindowBounded
<1>1. RateInv => WindowBounded
    <2> SUFFICES ASSUME RateInv, NEW k \in Key
                 PROVE  Rate * counted[k] <= Rate * Burst + (clock - since) + (Rate - 1)
        BY DEF WindowBounded
    <2> USE RateAssumption, BurstAssumption
    <2>1. counted[k] \in Nat /\ tokens[k] \in Nat /\ lastRefill[k] \in Nat
          /\ clock \in Nat /\ since \in Nat /\ since <= clock /\ lastRefill[k] <= clock
        BY DEF RateInv
    <2>2. CASE k \in known /\ lastRefill[k] >= since
        <3>1. Rate * counted[k] <= Rate * (counted[k] + tokens[k])
            BY <2>1, TimesMonotone
        <3>2. Rate * (counted[k] + tokens[k])
                <= Rate * Burst + (lastRefill[k] - since) + (Rate - 1)
            BY <2>2 DEF RateInv
        <3> QED BY <2>1, <3>1, <3>2
    <2>3. CASE ~(k \in known /\ lastRefill[k] >= since)
        <3>1. counted[k] <= Burst
            BY <2>1, <2>3 DEF RateInv
        <3>2. Rate * counted[k] <= Rate * Burst
            BY <2>1, <3>1, TimesMonotone
        <3> QED BY <2>1, <3>2
    <2> QED BY <2>2, <2>3
<1> QED BY <1>1, RateInvHolds, PTL

----------------------------------------------------------------------------
\* What a refusal leaves behind: a bucket, and a time told that is at least one
\* refill interval after the bucket's last refill.
RetryInv ==
    /\ resetAt \in [Key -> Int]
    /\ \A k \in Key : resetAt[k] # -1 => k \in known /\ resetAt[k] >= lastRefill[k] + Rate

\* Every step keeps a told reset time at least one refill away from the
\* bucket's last refill.
LEMMA RetryStep == RateInv /\ RetryInv /\ [RateNext]_rateVars => RetryInv'
<1> SUFFICES ASSUME RateInv, RetryInv, [RateNext]_rateVars
             PROVE  RetryInv'
    OBVIOUS
<1> USE RateAssumption, BurstAssumption, EndAssumption
<1>1. CASE UNCHANGED rateVars
    BY <1>1 DEF RetryInv, rateVars
<1>2. CASE ClockTick \/ BeginWindow
    BY <1>2 DEF RetryInv, ClockTick, BeginWindow
<1>3. ASSUME NEW k \in Key, TryConsume(k)
      PROVE  RetryInv'
    <2>1. PICK whole \in 0..clock :
            LET left == IF whole > 0 THEN Refill(k, whole) ELSE Filled(k)
                at   == IF whole > 0 THEN clock ELSE FilledAt(k)
            IN  /\ known' = known \cup {k}
                /\ lastRefill' = [lastRefill EXCEPT ![k] = at]
                /\ \/ resetAt' = [resetAt EXCEPT ![k] = -1]
                   \/ /\ left < 1
                      /\ resetAt' = [resetAt EXCEPT ![k] = ResetTime(left, at)]
        BY <1>3 DEF TryConsume
    <2> DEFINE left == IF whole > 0 THEN Refill(k, whole) ELSE Filled(k)
               at   == IF whole > 0 THEN clock ELSE FilledAt(k)
    <2>2. left \in Nat
        BY DEF RateInv, Refill, Filled
    <2>3. at \in Nat /\ at <= clock /\ clock \in Nat
        BY DEF RateInv, FilledAt
    <2>4. left < 1 => ResetTime(left, at) = clock + Rate
        <3> HIDE DEF left, at
        <3>1. left < 1 => left = 0
            BY <2>2
        <3>2. ASSUME left = 0 PROVE ResetTime(left, at) = clock + (1 - 0) * Rate
            BY <3>2 DEF ResetTime
        <3>3. clock + (1 - 0) * Rate = clock + Rate
            BY <2>3
        <3> QED BY <3>1, <3>2, <3>3
    <2>5. \E reset \in Int : /\ resetAt' = [resetAt EXCEPT ![k] = reset]
                             /\ reset # -1 => reset = clock + Rate
        <3>1. CASE resetAt' = [resetAt EXCEPT ![k] = -1]
            <4>1. -1 \in Int
                OBVIOUS
            <4> QED BY <3>1, <4>1, Zenon
        <3>2. CASE left < 1 /\ resetAt' = [resetAt EXCEPT ![k] = ResetTime(left, at)]
            <4>1. clock + Rate \in Int
                BY <2>3
            <4> QED BY <2>4, <3>2, <4>1
        <3> QED BY <2>1, <3>1, <3>2
    <2>6. known' = known \cup {k} /\ lastRefill' = [lastRefill EXCEPT ![k] = at]
        BY <2>1
    <2> HIDE DEF left, at
    <2> QED BY <2>3, <2>5, <2>6 DEF RateInv, RetryInv
<1> QED BY <1>1, <1>2, <1>3 DEF RateNext

\* The whole intervals in a stretch of time, what Math.floor computes.
LEMMA FlooredExists ==
    ASSUME NEW elapsed \in Nat
    PROVE  \E whole \in Nat : Floored(whole, elapsed)
<1> USE RateAssumption
<1> DEFINE beyond == {w \in Nat : elapsed < Rate * (w + 1)}
<1>1. elapsed \in beyond
    <2>1. 1 * (elapsed + 1) <= (elapsed + 1) * Rate
        BY TimesMonotone
    <2> QED BY <2>1
<1>2. PICK w \in beyond : \A n \in beyond : w <= n
    <2> HIDE DEF beyond
    <2>1. beyond \in SUBSET Nat
        BY DEF beyond
    <2> QED BY <1>1, <2>1, LeastExists, Zenon
<1>3. Rate * w <= elapsed
    <2>1. CASE w = 0
        BY <2>1
    <2>2. CASE w > 0
        <3>1. w - 1 \in Nat /\ w - 1 \notin beyond
            BY <1>2, <2>2
        <3>2. Rate * ((w - 1) + 1) <= elapsed
            BY <3>1
        <3> QED BY <3>2
    <2> QED BY <2>1, <2>2
<1> QED BY <1>3 DEF Floored

\* What tryConsume promises, both what it admits and what it tells the clients
\* it refuses: whoever comes back after the Retry-After finds a token.
THEOREM RatePromisesKept == RateSpec => []RateKept
<1> USE RateAssumption, BurstAssumption
<1>1. RateInit => RetryInv
    BY DEF RateInit, RetryInv
<1>2. RateInv /\ RetryInv => RetryAfterHonest
    <2> SUFFICES ASSUME RateInv, RetryInv, NEW k \in Key,
                        resetAt[k] # -1, clock >= resetAt[k]
                 PROVE  \E whole \in 0..clock : /\ Floored(whole, clock - FilledAt(k))
                                                /\ Refill(k, whole) >= 1
        BY DEF RetryAfterHonest
    <2>1. /\ k \in known /\ lastRefill[k] \in Nat /\ clock \in Nat /\ tokens[k] \in Nat
          /\ clock - lastRefill[k] >= Rate
        BY DEF RateInv, RetryInv
    <2>2. FilledAt(k) = lastRefill[k] /\ Filled(k) = tokens[k]
        BY <2>1 DEF FilledAt, Filled
    <2>3. PICK whole \in Nat : Floored(whole, clock - lastRefill[k])
        BY <2>1, FlooredExists
    <2>4. whole >= 1
        BY <2>1, <2>3 DEF Floored
    <2>5. whole <= clock
        <3>1. 1 * whole <= whole * Rate
            BY TimesMonotone
        <3> QED BY <2>1, <2>3, <3>1 DEF Floored
    <2>6. Refill(k, whole) >= 1
        BY <2>1, <2>2, <2>4 DEF Refill
    <2> QED BY <2>1, <2>2, <2>3, <2>4, <2>5, <2>6
<1>3. RateSpec => []RetryInv
    BY <1>1, RateInvHolds, RetryStep, PTL DEF RateSpec
<1> QED BY <1>2, <1>3, RateInvHolds, NoClientSavesUp, PTL DEF RateKept

------------------------------------------------------------------------------
(* The MCP tools *)

\* Nothing that a handler checks or a route asks for is missing in the schema.
Agree(h, s, t) ==
    h[t].checks \subseteq s[t] /\ (t # "bulk_add" => Asks(h[t].route) \subseteq s[t])

\* The three lists of each group of tools, tool by tool.
LEMMA SearchAgree == \A t \in DOMAIN HandlerOfSearch : Agree(HandlerOfSearch, SchemaOfReads, t)
<1>1. Agree(HandlerOfSearch, SchemaOfReads, "resume_pack")
    BY DEF Agree, HandlerOfSearch, SchemaOfReads, Calls, Asks
<1>2. Agree(HandlerOfSearch, SchemaOfReads, "search")
    BY DEF Agree, HandlerOfSearch, SchemaOfReads, Calls, Asks
<1>3. DOMAIN HandlerOfSearch = {"resume_pack", "search"}
    BY DEF HandlerOfSearch
<1> QED BY <1>1, <1>2, <1>3, Zenon

\* The tools that read ...
LEMMA ReadsAgree == \A t \in DOMAIN HandlerOfReads : Agree(HandlerOfReads, SchemaOfReads, t)
<1>1. Agree(HandlerOfReads, SchemaOfReads, "sessions_list")
    BY DEF Agree, HandlerOfReads, SchemaOfReads, Calls, Asks
<1>2. Agree(HandlerOfReads, SchemaOfReads, "session_thread")
    BY DEF Agree, HandlerOfReads, SchemaOfReads, Calls, Asks
<1>3. Agree(HandlerOfReads, SchemaOfReads, "search_facets")
    BY DEF Agree, HandlerOfReads, SchemaOfReads, Calls, Asks
<1>4. Agree(HandlerOfReads, SchemaOfReads, "timeline")
    BY DEF Agree, HandlerOfReads, SchemaOfReads, Calls, Asks
<1>5. Agree(HandlerOfReads, SchemaOfReads, "get_observations")
    BY DEF Agree, HandlerOfReads, SchemaOfReads, Calls, Asks
<1>6. DOMAIN HandlerOfReads = {"sessions_list", "session_thread", "search_facets", "timeline",
                      "get_observations"}
    BY DEF HandlerOfReads
<1> QED BY <1>1, <1>2, <1>3, <1>4, <1>5, <1>6, Zenon

\* ... that write ...
LEMMA WritesAgree == \A t \in DOMAIN HandlerOfWrites : Agree(HandlerOfWrites, SchemaOfWrites, t)
<1>1. Agree(HandlerOfWrites, SchemaOfWrites, "record_checkpoint")
    BY DEF Agree, HandlerOfWrites, SchemaOfWrites, Calls, Asks
<1>2. Agree(HandlerOfWrites, SchemaOfWrites, "finalize_session")
    BY DEF Agree, HandlerOfWrites, SchemaOfWrites, Calls, Asks
<1>3. Agree(HandlerOfWrites, SchemaOfWrites, "record_event")
    BY DEF Agree, HandlerOfWrites, SchemaOfWrites, Calls, Asks
<1>4. Agree(HandlerOfWrites, SchemaOfWrites, "health")
    BY DEF Agree, HandlerOfWrites, SchemaOfWrites, Calls, Asks
<1>5. Agree(HandlerOfWrites, SchemaOfWrites, "delete_observation")
    BY DEF Agree, HandlerOfWrites, SchemaOfWrites, Calls, Asks
<1>6. DOMAIN HandlerOfWrites = {"record_checkpoint", "finalize_session", "record_event", "health",
                      "delete_observation"}
    BY DEF HandlerOfWrites
<1> QED BY <1>1, <1>2, <1>3, <1>4, <1>5, <1>6, Zenon

\* ... of the operator ...
LEMMA AdminAgree == \A t \in DOMAIN HandlerOfAdmin : Agree(HandlerOfAdmin, SchemaOfAdmin, t)
<1>1. Agree(HandlerOfAdmin, SchemaOfAdmin, "admin_reindex_vectors")
    BY DEF Agree, HandlerOfAdmin, SchemaOfAdmin, Calls, Asks
<1>2. Agree(HandlerOfAdmin, SchemaOfAdmin, "admin_import_claude_mem")
    BY DEF Agree, HandlerOfAdmin, SchemaOfAdmin, Calls, Asks
<1>3. Agree(HandlerOfAdmin, SchemaOfAdmin, "admin_import_status")
    BY DEF Agree, HandlerOfAdmin, SchemaOfAdmin, Calls, Asks
<1>4. Agree(HandlerOfAdmin, SchemaOfAdmin, "admin_verify_import")
    BY DEF Agree, HandlerOfAdmin, SchemaOfAdmin, Calls, Asks
<1>5. Agree(HandlerOfAdmin, SchemaOfAdmin, "admin_metrics")
    BY DEF Agree, HandlerOfAdmin, SchemaOfAdmin, Calls, Asks
<1>6. Agree(HandlerOfAdmin, SchemaOfAdmin, "admin_consolidation_run")
    BY DEF Agree, HandlerOfAdmin, SchemaOfAdmin, Calls, Asks
<1>7. Agree(HandlerOfAdmin, SchemaOfAdmin, "admin_consolidation_status")
    BY DEF Agree, HandlerOfAdmin, SchemaOfAdmin, Calls, Asks
<1>8. Agree(HandlerOfAdmin, SchemaOfAdmin, "admin_audit_log")
    BY DEF Agree, HandlerOfAdmin, SchemaOfAdmin, Calls, Asks
<1>9. DOMAIN HandlerOfAdmin = {"admin_reindex_vectors", "admin_import_claude_mem",
                      "admin_import_status", "admin_verify_import", "admin_metrics",
                      "admin_consolidation_run", "admin_consolidation_status",
                      "admin_audit_log"}
    BY DEF HandlerOfAdmin
<1> QED BY <1>1, <1>2, <1>3, <1>4, <1>5, <1>6, <1>7, <1>8, <1>9, Zenon

\* ... and the others.
LEMMA TheRestAgree == \A t \in DOMAIN HandlerOfTheRest : Agree(HandlerOfTheRest, SchemaOfTheRest, t)
<1>1. Agree(HandlerOfTheRest, SchemaOfTheRest, "add_relation")
    BY DEF Agree, HandlerOfTheRest, SchemaOfTheRest, Calls, Asks
<1>2. Agree(HandlerOfTheRest, SchemaOfTheRest, "bulk_add")
    BY DEF Agree, HandlerOfTheRest, SchemaOfTheRest, Calls, Asks
<1>3. Agree(HandlerOfTheRest, SchemaOfTheRest, "bulk_delete")
    BY DEF Agree, HandlerOfTheRest, SchemaOfTheRest, Calls, Asks
<1>4. Agree(HandlerOfTheRest, SchemaOfTheRest, "export")
    BY DEF Agree, HandlerOfTheRest, SchemaOfTheRest, Calls, Asks
<1>5. Agree(HandlerOfTheRest, SchemaOfTheRest, "compress")
    BY DEF Agree, HandlerOfTheRest, SchemaOfTheRest, Calls, Asks
<1>6. Agree(HandlerOfTheRest, SchemaOfTheRest, "stats")
    BY DEF Agree, HandlerOfTheRest, SchemaOfTheRest, Calls, Asks
<1>7. Agree(HandlerOfTheRest, SchemaOfTheRest, "ingest")
    BY DEF Agree, HandlerOfTheRest, SchemaOfTheRest, Calls, Asks
<1>8. Agree(HandlerOfTheRest, SchemaOfTheRest, "graph")
    BY DEF Agree, HandlerOfTheRest, SchemaOfTheRest, Calls, Asks
<1>9. Agree(HandlerOfTheRest, SchemaOfTheRest, "share_to_team")
    BY DEF Agree, HandlerOfTheRest, SchemaOfTheRest, Calls, Asks
<1>10. DOMAIN HandlerOfTheRest = {"add_relation", "bulk_add", "bulk_delete", "export", "compress",
                      "stats", "ingest", "graph", "share_to_team"}
    BY DEF HandlerOfTheRest
<1> QED BY <1>1, <1>2, <1>3, <1>4, <1>5, <1>6, <1>7, <1>8, <1>9, <1>10, Zenon

\* The entries of a group in the joined tables.
Entries(h, s) == \A t \in DOMAIN h : Handler[t] = h[t] /\ Schema[t] = s[t]

\* The published tools are the handled ones, and an entry of the joined tables
\* is the entry of its group.
LEMMA TablesJoin ==
    /\ Tool = DOMAIN Handler
    /\ Tool = DOMAIN HandlerOfSearch \cup DOMAIN HandlerOfReads \cup DOMAIN HandlerOfWrites
              \cup DOMAIN HandlerOfAdmin \cup DOMAIN HandlerOfTheRest
    /\ Entries(HandlerOfSearch, SchemaOfReads)
    /\ Entries(HandlerOfReads, SchemaOfReads)
    /\ Entries(HandlerOfWrites, SchemaOfWrites)
    /\ Entries(HandlerOfAdmin, SchemaOfAdmin)
    /\ Entries(HandlerOfTheRest, SchemaOfTheRest)
<1>1. Tool = DOMAIN Handler
    BY ZenonT(60) DEF Tool, Handler, Schema, Joined, HandlerOfSearch, HandlerOfReads, HandlerOfWrites,
           HandlerOfAdmin, HandlerOfTheRest, SchemaOfReads, SchemaOfWrites, SchemaOfAdmin,
           SchemaOfTheRest
<1>2. DOMAIN Handler = DOMAIN HandlerOfSearch \cup DOMAIN HandlerOfReads \cup DOMAIN HandlerOfWrites
              \cup DOMAIN HandlerOfAdmin \cup DOMAIN HandlerOfTheRest
    BY DEF Handler, Joined
<1>3. ASSUME NEW t \in DOMAIN HandlerOfSearch
      PROVE  Handler[t] = HandlerOfSearch[t] /\ Schema[t] = SchemaOfReads[t]
    <2>1. Handler[t] = HandlerOfSearch[t]
        BY DEF Handler, Joined, HandlerOfSearch, HandlerOfReads, HandlerOfWrites, HandlerOfAdmin,
               HandlerOfTheRest
    <2>2. Schema[t] = SchemaOfReads[t]
        BY DEF Schema, Joined, HandlerOfSearch, SchemaOfReads, SchemaOfWrites, SchemaOfAdmin,
               SchemaOfTheRest
    <2> QED BY <2>1, <2>2
<1>4. ASSUME NEW t \in DOMAIN HandlerOfReads
      PROVE  Handler[t] = HandlerOfReads[t] /\ Schema[t] = SchemaOfReads[t]
    <2>1. Handler[t] = HandlerOfReads[t]
        BY DEF Handler, Joined, HandlerOfSearch, HandlerOfReads, HandlerOfWrites, HandlerOfAdmin,
               HandlerOfTheRest
    <2>2. Schema[t] = SchemaOfReads[t]
        BY DEF Schema, Joined, HandlerOfReads, SchemaOfReads, SchemaOfWrites, SchemaOfAdmin,
               SchemaOfTheRest
    <2> QED BY <2>1, <2>2
<1>5. ASSUME NEW t \in DOMAIN HandlerOfWrites
      PROVE  Handler[t] = HandlerOfWrites[t] /\ Schema[t] = SchemaOfWrites[t]
    <2>1. Handler[t] = HandlerOfWrites[t]
        BY DEF Handler, Joined, HandlerOfSearch, HandlerOfReads, HandlerOfWrites, HandlerOfAdmin,
               HandlerOfTheRest
    <2>2. Schema[t] = SchemaOfWrites[t]
        BY DEF Schema, Joined, HandlerOfWrites, SchemaOfReads, SchemaOfWrites, SchemaOfAdmin,
               SchemaOfTheRest
    <2> QED BY <2>1, <2>2
<1>6. ASSUME NEW t \in DOMAIN HandlerOfAdmin
      PROVE  Handler[t] = HandlerOfAdmin[t] /\ Schema[t] = SchemaOfAdmin[t]
    <2>1. Handler[t] = HandlerOfAdmin[t]
        BY DEF Handler, Joined, HandlerOfSearch, HandlerOfReads, HandlerOfWrites, HandlerOfAdmin,
               HandlerOfTheRest
    <2>2. Schema[t] = SchemaOfAdmin[t]
        BY DEF Schema, Joined, HandlerOfAdmin, SchemaOfReads, SchemaOfWrites, SchemaOfAdmin,
               SchemaOfTheRest
    <2> QED BY <2>1, <2>2
<1>7. ASSUME NEW t \in DOMAIN HandlerOfTheRest
      PROVE  Handler[t] = HandlerOfTheRest[t] /\ Schema[t] = SchemaOfTheRest[t]
    <2>1. Handler[t] = HandlerOfTheRest[t]
        BY DEF Handler, Joined, HandlerOfSearch, HandlerOfReads, HandlerOfWrites, HandlerOfAdmin,
               HandlerOfTheRest
    <2>2. Schema[t] = SchemaOfTheRest[t]
        BY DEF Schema, Joined, HandlerOfTheRest, SchemaOfReads, SchemaOfWrites, SchemaOfAdmin,
               SchemaOfTheRest
    <2> QED BY <2>1, <2>2
<1> QED BY <1>1, <1>2, <1>3, <1>4, <1>5, <1>6, <1>7, Zenon DEF Entries

\* The three lists agree for every tool.
LEMMA ListsAgree == ASSUME NEW t \in Tool PROVE Agree(Handler, Schema, t)
<1>1. \/ t \in DOMAIN HandlerOfSearch \/ t \in DOMAIN HandlerOfReads
      \/ t \in DOMAIN HandlerOfWrites \/ t \in DOMAIN HandlerOfAdmin
      \/ t \in DOMAIN HandlerOfTheRest
    <2>1. t \in DOMAIN HandlerOfSearch \cup DOMAIN HandlerOfReads \cup DOMAIN HandlerOfWrites
               \cup DOMAIN HandlerOfAdmin \cup DOMAIN HandlerOfTheRest
        BY TablesJoin, Zenon
    <2> QED BY <2>1
<1>2. CASE t \in DOMAIN HandlerOfSearch
    BY <1>2, SearchAgree, TablesJoin, Zenon DEF Entries, Agree
<1>3. CASE t \in DOMAIN HandlerOfReads
    BY <1>3, ReadsAgree, TablesJoin, Zenon DEF Entries, Agree
<1>4. CASE t \in DOMAIN HandlerOfWrites
    BY <1>4, WritesAgree, TablesJoin, Zenon DEF Entries, Agree
<1>5. CASE t \in DOMAIN HandlerOfAdmin
    BY <1>5, AdminAgree, TablesJoin, Zenon DEF Entries, Agree
<1>6. CASE t \in DOMAIN HandlerOfTheRest
    BY <1>6, TheRestAgree, TablesJoin, Zenon DEF Entries, Agree
<1> QED BY <1>1, <1>2, <1>3, <1>4, <1>5, <1>6, Zenon
\* A call in progress, and what is true of a process: of its call c, its last
\* answer a, and the events i under way and r recorded of its last bulk_add.
CallInProgress == [tool : Tool, args : SUBSET UNION {Arguments(t) : t \in Tool},
                   at : {"ensure", "attempt", "send", "bulk"}, left : Nat]

InProgress(c, a, i, r) ==
    c # Idle => /\ a = Idle
                /\ IF c.at = "bulk" THEN c.tool = "bulk_add" /\ i \cup r = Events ELSE i = {}

Answered(a, i, r) ==
    a # Idle => /\ a.said \in {"incomplete", "bad request"} => ~a.complete
                /\ a.tool = "bulk_add" /\ a.said = "ok" => i = {} /\ r = Events

\* The inductive invariant of McpTools.
McpInv ==
    /\ call \in [Server -> CallInProgress \cup {Idle}]
    /\ answer = [p \in Server |-> answer[p]]
    /\ inflight \in [Server -> SUBSET Events] /\ recorded \in [Server -> SUBSET Events]
    /\ \A p \in Server : /\ InProgress(call[p], answer[p], inflight[p], recorded[p])
                         /\ Answered(answer[p], inflight[p], recorded[p])

\* A step of one process keeps the invariant if it leaves that process right.
LEMMA OthersKeep ==
    ASSUME McpInv, NEW p \in Server, NEW c \in CallInProgress \cup {Idle},
           NEW a, NEW i \in SUBSET Events, NEW r \in SUBSET Events,
           call' = [call EXCEPT ![p] = c], answer' = [answer EXCEPT ![p] = a],
           inflight' = [inflight EXCEPT ![p] = i], recorded' = [recorded EXCEPT ![p] = r],
           InProgress(c, a, i, r), Answered(a, i, r)
    PROVE  McpInv'
<1>1. /\ call' \in [Server -> CallInProgress \cup {Idle}] /\ answer' = [q \in Server |-> answer'[q]]
      /\ inflight' \in [Server -> SUBSET Events] /\ recorded' \in [Server -> SUBSET Events]
    BY DEF McpInv
<1>2. ASSUME NEW q \in Server
      PROVE  /\ InProgress(call'[q], answer'[q], inflight'[q], recorded'[q])
             /\ Answered(answer'[q], inflight'[q], recorded'[q])
    <2>1. CASE q = p
        <3>1. call'[q] = c /\ answer'[q] = a /\ inflight'[q] = i /\ recorded'[q] = r
            BY <2>1 DEF McpInv
        <3> QED BY <3>1
    <2>2. CASE q # p
        <3>1. /\ call'[q] = call[q] /\ answer'[q] = answer[q]
              /\ inflight'[q] = inflight[q] /\ recorded'[q] = recorded[q]
            BY <2>2 DEF McpInv
        <3>2. /\ InProgress(call[q], answer[q], inflight[q], recorded[q])
              /\ Answered(answer[q], inflight[q], recorded[q])
            BY DEF McpInv
        <3> QED BY <3>1, <3>2
    <2> QED BY <2>1, <2>2
<1> QED BY <1>1, <1>2 DEF McpInv

\* What is known of the process that takes a step.
LEMMA OneProcess ==
    ASSUME McpInv, NEW p \in Server
    PROVE  /\ call[p] \in CallInProgress \cup {Idle}
           /\ inflight[p] \in SUBSET Events /\ recorded[p] \in SUBSET Events
           /\ InProgress(call[p], answer[p], inflight[p], recorded[p])
           /\ Answered(answer[p], inflight[p], recorded[p])
           /\ call = [call EXCEPT ![p] = call[p]]
           /\ answer = [answer EXCEPT ![p] = answer[p]]
           /\ inflight = [inflight EXCEPT ![p] = inflight[p]]
           /\ recorded = [recorded EXCEPT ![p] = recorded[p]]
<1>1. /\ call[p] \in CallInProgress \cup {Idle}
      /\ inflight[p] \in SUBSET Events /\ recorded[p] \in SUBSET Events
      /\ InProgress(call[p], answer[p], inflight[p], recorded[p])
      /\ Answered(answer[p], inflight[p], recorded[p])
    BY DEF McpInv
<1>2. call = [call EXCEPT ![p] = call[p]]
    BY DEF McpInv
<1>3. answer = [answer EXCEPT ![p] = answer[p]]
    BY DEF McpInv
<1>4. inflight = [inflight EXCEPT ![p] = inflight[p]]
    BY DEF McpInv
<1>5. recorded = [recorded EXCEPT ![p] = recorded[p]]
    BY DEF McpInv
<1> QED BY <1>1, <1>2, <1>3, <1>4, <1>5

\* The parts of an answer.
LEMMA AnswerParts ==
    \A t, args, said :
        /\ Answer(t, args, said).said = said
        /\ ~(Schema[t] \subseteq args) => ~Answer(t, args, said).complete
        /\ Answer(t, args, said).tool = "bulk_add" => t = "bulk_add"
BY DEF Answer

\* A call passes the checks of its handler, or is refused for a missing argument.
LEMMA CallStep ==
    ASSUME McpInv, NEW p \in Server, NEW t \in Tool, NEW args \in SUBSET Arguments(t),
           CallTool(p, t, args)
    PROVE  McpInv'
<1> DEFINE begun == [tool |-> t, args |-> args, at |-> "ensure", left |-> Attempts]
           refused == Answer(t, args, "incomplete")
<1>1. call[p] = Idle /\ inflight[p] = {} /\ inflight' = inflight /\ recorded' = recorded
    BY DEF CallTool
<1>2. CASE /\ call' = [call EXCEPT ![p] = begun] /\ answer' = [answer EXCEPT ![p] = Idle]
    <2>1. begun \in CallInProgress
        BY McpAssumption DEF CallInProgress
    <2>2. begun.at # "bulk"
        OBVIOUS
    <2> HIDE DEF begun
    <2>3. /\ InProgress(begun, Idle, inflight[p], recorded[p])
          /\ Answered(Idle, inflight[p], recorded[p])
        BY <1>1, <2>2 DEF InProgress, Answered
    <2> QED BY <1>1, <1>2, <2>1, <2>3, OneProcess, OthersKeep
<1>3. CASE /\ ~(Handler[t].checks \subseteq args)
           /\ answer' = [answer EXCEPT ![p] = refused] /\ call' = call
    <2>1. ~(Schema[t] \subseteq args)
        BY <1>3, ListsAgree DEF Agree
    <2>2. refused.said = "incomplete" /\ ~refused.complete
        BY <2>1, AnswerParts, Zenon
    <2> HIDE DEF refused
    <2>3. Answered(refused, inflight[p], recorded[p])
        BY <2>2 DEF Answered
    <2>4. InProgress(call[p], refused, inflight[p], recorded[p])
        BY <1>1 DEF InProgress
    <2>5. call' = [call EXCEPT ![p] = call[p]]
        BY <1>3, OneProcess
    <2> QED BY <1>1, <1>3, <2>3, <2>4, <2>5, OneProcess, OthersKeep, ZenonT(60)
<1> QED BY <1>2, <1>3 DEF CallTool

\* A process whose call goes on to another place, none of them the bulk request.
LEMMA MovesOn ==
    ASSUME McpInv, NEW p \in Server, call[p] # Idle, call[p].at # "bulk",
           NEW c \in CallInProgress, c.at # "bulk",
           call' = [call EXCEPT ![p] = c], answer' = answer,
           inflight' = inflight, recorded' = recorded
    PROVE  McpInv'
<1>1. answer[p] = Idle /\ inflight[p] = {}
    BY OneProcess DEF InProgress
<1>2. InProgress(c, answer[p], inflight[p], recorded[p])
    BY <1>1 DEF InProgress
<1> QED BY <1>2, OneProcess, OthersKeep

\* A process whose call is over with an answer that claims nothing wrong.
LEMMA Reports ==
    ASSUME McpInv, NEW p \in Server, call[p] # Idle, NEW said, Report(p, said),
           NEW i \in SUBSET Events, NEW r \in SUBSET Events,
           inflight' = [inflight EXCEPT ![p] = i], recorded' = [recorded EXCEPT ![p] = r],
           said \in {"incomplete", "bad request"} => ~(Schema[call[p].tool] \subseteq call[p].args),
           call[p].tool = "bulk_add" /\ said = "ok" => i = {} /\ r = Events
    PROVE  McpInv'
<1> DEFINE a == Answer(call[p].tool, call[p].args, said)
<1>1. /\ a.said = said
      /\ ~(Schema[call[p].tool] \subseteq call[p].args) => ~a.complete
      /\ a.tool = "bulk_add" => call[p].tool = "bulk_add"
    <2> DEFINE tool == call[p].tool
               args == call[p].args
    <2> HIDE DEF tool, args
    <2>1. /\ Answer(tool, args, said).said = said
          /\ ~(Schema[tool] \subseteq args) => ~Answer(tool, args, said).complete
          /\ Answer(tool, args, said).tool = "bulk_add" => tool = "bulk_add"
        BY AnswerParts, ZenonT(60)
    <2> QED BY <2>1 DEF tool, args
<1>2. call' = [call EXCEPT ![p] = Idle] /\ answer' = [answer EXCEPT ![p] = a]
    BY DEF Report
<1> HIDE DEF a
<1>3. InProgress(Idle, a, i, r)
    BY DEF InProgress
<1>4. Answered(a, i, r)
    <2>1. a.said \in {"incomplete", "bad request"} => ~a.complete
        BY <1>1, Zenon
    <2>2. a.tool = "bulk_add" /\ a.said = "ok" => i = {} /\ r = Events
        BY <1>1, Zenon
    <2> QED BY <2>1, <2>2, Zenon DEF Answered
<1> QED BY <1>2, <1>3, <1>4, OthersKeep

\* The same for GoOn.
LEMMA GoesOn ==
    ASSUME McpInv, NEW p \in Server, call[p] # Idle, call[p].at # "bulk",
           NEW to \in {"ensure", "attempt", "send"}, GoOn(p, to),
           inflight' = inflight, recorded' = recorded
    PROVE  McpInv'
<1> DEFINE c == [call[p] EXCEPT !.at = to]
<1>1. call[p] \in CallInProgress
    BY OneProcess
<1>2. c \in CallInProgress /\ c.at # "bulk"
    BY <1>1 DEF CallInProgress
<1>3. call' = [call EXCEPT ![p] = c] /\ answer' = answer
    BY DEF GoOn
<1> HIDE DEF c
<1> QED BY <1>2, <1>3, MovesOn

\* Answers that claim nothing are always honest.
LEMMA ReportsFailure ==
    ASSUME McpInv, NEW p \in Server, call[p] # Idle,
           Report(p, "unavailable") \/ Report(p, "not found") \/ Report(p, "failed"),
           NEW i \in SUBSET Events, inflight' = [inflight EXCEPT ![p] = i],
           recorded' = recorded
    PROVE  McpInv'
<1>1. /\ recorded' = [recorded EXCEPT ![p] = recorded[p]]
      /\ recorded[p] \in SUBSET Events
    BY OneProcess
<1>2. PICK said \in {"unavailable", "not found", "failed"} : Report(p, said)
    OBVIOUS
<1>3. said \notin {"incomplete", "bad request"} /\ said # "ok"
    OBVIOUS
<1> QED BY <1>1, <1>2, <1>3, Reports

\* The same for a call that found no daemon.
LEMMA ReportsUnavailable ==
    ASSUME McpInv, NEW p \in Server, call[p] # Idle, call[p].at # "bulk",
           Report(p, "unavailable"), inflight' = inflight, recorded' = recorded
    PROVE  McpInv'
<1>1. /\ inflight' = [inflight EXCEPT ![p] = inflight[p]]
      /\ inflight[p] \in SUBSET Events
    BY OneProcess
<1> QED BY <1>1, ReportsFailure

\* ensureDaemon.
LEMMA EnsureStep ==
    ASSUME McpInv, NEW p \in Server, EnsureDaemon(p) PROVE McpInv'
<1>1. call[p] # Idle /\ call[p].at # "bulk" /\ inflight' = inflight /\ recorded' = recorded
    BY DEF EnsureDaemon
<1>2. GoOn(p, "send") \/ GoOn(p, "attempt") \/ Report(p, "unavailable")
    BY DEF EnsureDaemon
<1> QED BY <1>1, <1>2, GoesOn, ReportsUnavailable

\* Its attempts after a start.
LEMMA AwaitStep ==
    ASSUME McpInv, NEW p \in Server, AwaitDaemon(p) PROVE McpInv'
<1>1. call[p] # Idle /\ call[p].at # "bulk" /\ inflight' = inflight /\ recorded' = recorded
    BY DEF AwaitDaemon
<1>2. \/ GoOn(p, "send") \/ Report(p, "unavailable")
      \/ /\ call[p].left > 0 /\ answer' = answer
         /\ call' = [call EXCEPT ![p].left = @ - 1]
    BY DEF AwaitDaemon
<1>3. CASE /\ call[p].left > 0 /\ answer' = answer
           /\ call' = [call EXCEPT ![p].left = @ - 1]
    <2> DEFINE c == [call[p] EXCEPT !.left = @ - 1]
    <2>1. call[p] \in CallInProgress
        BY <1>1, OneProcess
    <2>2. c \in CallInProgress /\ c.at # "bulk"
        BY <1>1, <1>3, <2>1 DEF CallInProgress
    <2>3. call' = [call EXCEPT ![p] = c]
        BY <1>3
    <2> HIDE DEF c
    <2> QED BY <1>1, <1>3, <2>2, <2>3, MovesOn
<1> QED BY <1>1, <1>2, <1>3, GoesOn, ReportsUnavailable

\* callMemoryApi: what the route misses, the schema required.
LEMMA RequestStep ==
    ASSUME McpInv, NEW p \in Server, CallMemoryApi(p) PROVE McpInv'
<1> DEFINE route == Handler[call[p].tool].route
<1>1. /\ call[p] # Idle /\ call[p].tool # "bulk_add"
      /\ inflight' = inflight /\ recorded' = recorded
    BY DEF CallMemoryApi
<1>2. /\ inflight' = [inflight EXCEPT ![p] = inflight[p]]
      /\ recorded' = [recorded EXCEPT ![p] = recorded[p]]
      /\ inflight[p] \in SUBSET Events /\ recorded[p] \in SUBSET Events
    BY <1>1, OneProcess
<1>3. \/ Report(p, "unavailable") \/ Report(p, "not found") \/ Report(p, "failed")
      \/ Report(p, Served(route))
      \/ ~(Asks(route) \subseteq Sent(call[p])) /\ Report(p, "bad request")
    BY DEF CallMemoryApi
<1>4. CASE Report(p, "unavailable") \/ Report(p, "not found") \/ Report(p, "failed")
    BY <1>1, <1>2, <1>4, ReportsFailure
<1>5. CASE Report(p, Served(route))
    <2>1. Served(route) \notin {"incomplete", "bad request"}
        BY DEF Served
    <2> HIDE DEF route
    <2> QED BY <1>1, <1>2, <1>5, <2>1, Reports
<1>6. CASE ~(Asks(route) \subseteq Sent(call[p])) /\ Report(p, "bad request")
    <2>1. call[p].tool \in Tool
        BY <1>1, OneProcess DEF CallInProgress
    <2>2. Sent(call[p]) = call[p].args
        BY <1>1 DEF Sent
    <2>3. Asks(route) \subseteq Schema[call[p].tool]
        BY <1>1, <2>1, ListsAgree DEF Agree
    <2> HIDE DEF route
    <2>4. ~(Schema[call[p].tool] \subseteq call[p].args)
        BY <1>6, <2>2, <2>3
    <2> QED BY <1>1, <1>2, <1>6, <2>4, Reports, ZenonT(60)
<1> QED BY <1>3, <1>4, <1>5, <1>6

\* A bulk_add sends its events ...
LEMMA SendStep ==
    ASSUME McpInv, NEW p \in Server, SendBulk(p) PROVE McpInv'
<1> DEFINE c == [call[p] EXCEPT !.at = "bulk"]
<1>1. /\ call[p] # Idle /\ call[p].at = "send" /\ call[p].tool = "bulk_add"
      /\ inflight' = [inflight EXCEPT ![p] = Events]
      /\ recorded' = [recorded EXCEPT ![p] = {}]
      /\ call' = [call EXCEPT ![p] = c] /\ answer' = answer
    BY DEF SendBulk, GoOn
<1>2. call[p] \in CallInProgress /\ answer[p] = Idle
    BY <1>1, OneProcess DEF InProgress
<1>3. c \in CallInProgress /\ c.at = "bulk" /\ c.tool = "bulk_add"
    BY <1>1, <1>2 DEF CallInProgress
<1> HIDE DEF c
<1>4. InProgress(c, answer[p], Events, {}) /\ Answered(answer[p], Events, {})
    BY <1>2, <1>3 DEF InProgress, Answered
<1>5. answer' = [answer EXCEPT ![p] = answer[p]]
    BY <1>1, OneProcess
<1>6. Events \in SUBSET Events /\ {} \in SUBSET Events
    OBVIOUS
<1> QED BY <1>1, <1>3, <1>4, <1>5, <1>6, OthersKeep

\* ... and answers ok with the last of them, if none failed.
LEMMA BulkStep ==
    ASSUME McpInv, NEW p \in Server, NEW e \in Events, BulkRequest(p, e) PROVE McpInv'
<1> DEFINE i == inflight[p] \ {e}
<1>1. e \in inflight[p] /\ inflight' = [inflight EXCEPT ![p] = i] /\ i \in SUBSET Events
    BY OneProcess DEF BulkRequest
<1>2. inflight'[p] = i
    BY <1>1 DEF McpInv
<1>3. call[p] # Idle => /\ answer[p] = Idle /\ call[p].at = "bulk" /\ call[p].tool = "bulk_add"
                        /\ inflight[p] \cup recorded[p] = Events
    BY <1>1, OneProcess DEF InProgress
<1>4. answer[p] # Idle =>
          /\ answer[p].said \in {"incomplete", "bad request"} => ~answer[p].complete
          /\ ~(answer[p].tool = "bulk_add" /\ answer[p].said = "ok")
    BY <1>1, OneProcess DEF Answered
<1>5. /\ recorded[p] \in SUBSET Events /\ recorded[p] \cup {e} \in SUBSET Events
      /\ call[p] \in CallInProgress \cup {Idle}
      /\ call = [call EXCEPT ![p] = call[p]] /\ answer = [answer EXCEPT ![p] = answer[p]]
      /\ recorded = [recorded EXCEPT ![p] = recorded[p]]
    BY OneProcess
<1>6. \/ /\ recorded' = [recorded EXCEPT ![p] = @ \cup {e}]
         /\ IF call[p] # Idle /\ i = {} THEN Report(p, "ok") ELSE call' = call /\ answer' = answer
      \/ /\ IF call[p] # Idle THEN Report(p, "failed") ELSE call' = call /\ answer' = answer
         /\ recorded' = recorded
    BY <1>2 DEF BulkRequest
<1>7. CASE /\ recorded' = [recorded EXCEPT ![p] = @ \cup {e}]
           /\ IF call[p] # Idle /\ i = {} THEN Report(p, "ok") ELSE call' = call /\ answer' = answer
    <2> DEFINE r == recorded[p] \cup {e}
    <2>1. recorded' = [recorded EXCEPT ![p] = r] /\ r \in SUBSET Events
        BY <1>5, <1>7
    <2>2. i = {} /\ call[p] # Idle => r = Events
        BY <1>1, <1>3
    <2>3. call[p] # Idle => i \cup r = Events
        BY <1>1, <1>3
    <2> HIDE DEF i, r
    <2>4. CASE call[p] # Idle /\ i = {}
        <3>1. PICK said \in {"ok"} : Report(p, said)
            BY <1>7, <2>4
        <3>2. said \notin {"incomplete", "bad request"}
            OBVIOUS
        <3> QED BY <1>1, <2>1, <2>2, <2>4, <3>1, <3>2, Reports
    <2>5. CASE ~(call[p] # Idle /\ i = {})
        <3>1. call' = call /\ answer' = answer
            BY <1>7, <2>5
        <3>2. InProgress(call[p], answer[p], i, r)
            BY <1>3, <2>3 DEF InProgress
        <3>3. Answered(answer[p], i, r)
            BY <1>4 DEF Answered
        <3> QED BY <1>1, <1>5, <2>1, <3>1, <3>2, <3>3, OthersKeep
    <2> QED BY <2>4, <2>5
<1>8. CASE /\ IF call[p] # Idle THEN Report(p, "failed") ELSE call' = call /\ answer' = answer
           /\ recorded' = recorded
    <2>1. recorded' = [recorded EXCEPT ![p] = recorded[p]]
        BY <1>5, <1>8
    <2> HIDE DEF i
    <2>2. CASE call[p] # Idle
        BY <1>1, <1>8, <2>2, ReportsFailure
    <2>3. CASE call[p] = Idle
        <3>1. call' = call /\ answer' = answer
            BY <1>8, <2>3
        <3>2. InProgress(call[p], answer[p], i, recorded[p])
            BY <2>3 DEF InProgress
        <3>3. Answered(answer[p], i, recorded[p])
            BY <1>4 DEF Answered
        <3> QED BY <1>1, <1>5, <2>1, <3>1, <3>2, <3>3, OthersKeep
    <2> QED BY <2>2, <2>3
<1> QED BY <1>6, <1>7, <1>8

\* Every step keeps the invariant.
LEMMA McpStep == McpInv /\ [McpNext]_mcpVars => McpInv'
<1> SUFFICES ASSUME McpInv, [McpNext]_mcpVars PROVE McpInv'
    OBVIOUS
<1>1. CASE UNCHANGED mcpVars \/ DaemonDies \/ DaemonStarted \/ McpTick
    <2>1. /\ call' = call /\ answer' = answer /\ inflight' = inflight
          /\ recorded' = recorded
        BY <1>1 DEF mcpVars, DaemonDies, DaemonStarted, McpTick
    <2> QED BY <2>1, Zenon DEF McpInv
<1>2. ASSUME NEW p \in Server, NEW t \in Tool, NEW args \in SUBSET Arguments(t),
             CallTool(p, t, args)
      PROVE  McpInv'
    BY <1>2, CallStep
<1>3. ASSUME NEW p \in Server,
             EnsureDaemon(p) \/ AwaitDaemon(p) \/ CallMemoryApi(p) \/ SendBulk(p)
      PROVE  McpInv'
    BY <1>3, EnsureStep, AwaitStep, RequestStep, SendStep
<1>4. ASSUME NEW p \in Server, NEW e \in Events, BulkRequest(p, e)
      PROVE  McpInv'
    BY <1>4, BulkStep
<1> QED BY <1>1, <1>2, <1>3, <1>4 DEF McpNext

\* For any number of MCP servers, calls and events: a call with all that its
\* published schema requires is never refused as incomplete by handler or
\* route, and a bulk_add that reports success stored every event.
THEOREM AnswersStayHonest == McpSpec => []AnswersHonest
<1>1. McpInit => McpInv
    <2> SUFFICES ASSUME McpInit PROVE McpInv
        OBVIOUS
    <2>1. /\ call = [p \in Server |-> Idle] /\ answer = [p \in Server |-> Idle]
          /\ inflight = [p \in Server |-> {}] /\ recorded = [p \in Server |-> {}]
        BY DEF McpInit
    <2>2. ASSUME NEW p \in Server
          PROVE  /\ InProgress(call[p], answer[p], inflight[p], recorded[p])
                 /\ Answered(answer[p], inflight[p], recorded[p])
        BY <2>1 DEF InProgress, Answered
    <2> QED BY <2>1, <2>2 DEF McpInv
<1>2. McpInv /\ [McpNext]_mcpVars => McpInv'
    BY McpStep
<1>3. McpInv => AnswersHonest
    BY DEF McpInv, Answered, AnswersHonest, CompleteCallsAccepted, BulkOkMeansAll
<1> QED BY <1>1, <1>2, <1>3, PTL DEF McpSpec

------------------------------------------------------------------------------
(* Projects *)

\* For any names, paths, links and repositories: every row is found under the name
\* its project is listed by, whatever spelling of it was stored (getCanonicalProjectName
\* names no path, so that expandProjectSelection looks through the stored names).
THEOREM ListedProjectsFound == ProjectSpec => []ListedProjectFound
<1>1. ListedProjectFound
    <2> SUFFICES ASSUME NEW p \in StoredNames
                 PROVE  p \in ExpandProjectSelection(CanonicalizeProjectName(p))
        BY DEF ListedProjectFound
    <2> DEFINE name == CanonicalizeProjectName(p)
    <2>1. name \notin Absolute
        <3>1. CASE p \in Absolute
            <4>1. ExplicitPath(p) \in Absolute
                BY <3>1, ProjectAssumption DEF ExplicitPath, DirectGitRoot
            <4> QED BY <3>1, <4>1, ProjectAssumption DEF CanonicalizeProjectName
        <3>2. CASE p \notin Absolute
            BY <3>2 DEF CanonicalizeProjectName
        <3> QED BY <3>1, <3>2
    <2>2. CanonicalizeProjectName(name) = name
        <3> HIDE DEF name
        <3> QED BY <2>1 DEF CanonicalizeProjectName
    <2> HIDE DEF name
    <2>3. p \in {q \in StoredNames : CanonicalizeProjectName(q) = CanonicalizeProjectName(name)}
        BY <2>2 DEF name
    <2>4. p \in ExpandProjectSelection(name)
        BY <2>1, <2>3 DEF ExpandProjectSelection
    <2> QED BY <2>4 DEF name
<1> QED BY <1>1, PTL
==============================================================================
