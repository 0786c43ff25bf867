-------------------------------- MODULE Teams ---------------------------------
(***************************************************************************)
(* The admin endpoints for teams and their members (server.ts) over        *)
(* SqliteTeamRepository: the tables mem_teams and mem_team_members, with   *)
(* the foreign key between them (schema.ts, PRAGMA foreign_keys=ON).       *)
(*                                                                         *)
(* Each method of the repository is one statement, but update, which       *)
(* awaits a look at the row before it writes: other requests come between. *)
(* Listings change nothing and are left out, as are descriptions.          *)
(***************************************************************************)
EXTENDS Naturals

CONSTANTS
    TeamId,         \* ids of teams
    Invitee,        \* users that are made members
    Role,           \* roles
    Nobody,         \* the role of who is not a member
    MaxTeamCalls    \* requests

ASSUME TeamsAssumption == MaxTeamCalls \in Nat /\ Nobody \notin Role

VARIABLES
    teams,      \* mem_teams: the ids
    names,      \* mem_teams: how often each team was renamed
    role,       \* mem_team_members: the role of each user in each team
    renaming,   \* updates of each team that found it and have not written yet
    status,     \* the status of the last request: 200, 201, 404 or 500
    told,       \* history: the roles that answers gave a member since it joined
    teamCalls   \* history: requests so far

teamVars == <<teams, names, role, renaming, status, told, teamCalls>>

TeamsTypeOK ==
    /\ teams \subseteq TeamId /\ renaming \in [TeamId -> Nat]
    /\ names \in [TeamId -> Nat]
    /\ role \in [TeamId -> [Invitee -> Role \cup {Nobody}]]
    /\ told \in [TeamId -> [Invitee -> SUBSET Role]]

TeamsInit ==
    /\ teams = {} /\ renaming = [t \in TeamId |-> 0]
    /\ names = [t \in TeamId |-> 0]
    /\ role = [t \in TeamId |-> [u \in Invitee |-> Nobody]]
    /\ told = [t \in TeamId |-> [u \in Invitee |-> {}]]
    /\ status = 200 /\ teamCalls = 0

TeamRequest == teamCalls < MaxTeamCalls /\ teamCalls' = teamCalls + 1

-----------------------------------------------------------------------------
\* POST /v1/admin/teams: an id that is taken throws.
CreateTeam(t) ==
    /\ TeamRequest
    /\ status' = IF t \in teams THEN 500 ELSE 201
    /\ teams' = teams \cup {t}
    /\ names' = IF t \in teams THEN names ELSE [names EXCEPT ![t] = 0]
    /\ UNCHANGED <<role, renaming, told>>

\* PUT: update looks for the team first.
UpdateTeam(t) ==
    /\ TeamRequest
    /\ renaming' = IF t \in teams THEN [renaming EXCEPT ![t] = @ + 1] ELSE renaming
    /\ status' = IF t \in teams THEN status ELSE 404
    /\ UNCHANGED <<teams, names, role, told>>

\* UPDATE and the second look: a team that is gone by now is not found.
UpdateWrite(t) ==
    /\ renaming[t] > 0
    /\ renaming' = [renaming EXCEPT ![t] = @ - 1]
    /\ names' = IF t \in teams THEN [names EXCEPT ![t] = @ + 1] ELSE names
    /\ status' = IF t \in teams THEN 200 ELSE 404
    /\ UNCHANGED <<teams, role, told, teamCalls>>

\* Mutant: foreign keys are off, and the rows of the members stay.
DeleteTeamOnly(t) ==
    /\ TeamRequest
    /\ status' = IF t \in teams THEN 200 ELSE 404
    /\ teams' = teams \ {t}
    /\ told' = [told EXCEPT ![t] = [u \in Invitee |-> {}]]
    /\ UNCHANGED <<names, role, renaming>>

\* DELETE of a team takes its members' rows along (ON DELETE CASCADE).
DeleteTeam(t) ==
    /\ TeamRequest
    /\ status' = IF t \in teams THEN 200 ELSE 404
    /\ teams' = teams \ {t}
    /\ role' = [role EXCEPT ![t] = [u \in Invitee |-> Nobody]]
    /\ told' = [told EXCEPT ![t] = [u \in Invitee |-> {}]]
    /\ UNCHANGED <<names, renaming>>

\* POST .../members: INSERT OR IGNORE.  A team that does not exist fails the
\* foreign key and throws; a member keeps its row, whatever role the answer names.
AddMember(t, u, r) ==
    /\ TeamRequest
    /\ IF t \notin teams
       THEN status' = 500 /\ UNCHANGED <<role, told>>
       ELSE /\ status' = 201
            /\ role' = IF role[t][u] = Nobody THEN [role EXCEPT ![t][u] = r] ELSE role
            /\ told' = [told EXCEPT ![t][u] = @ \cup {r}]
    /\ UNCHANGED <<teams, names, renaming>>

\* PATCH .../members/:userId.
UpdateMemberRole(t, u, r) ==
    /\ TeamRequest
    /\ IF role[t][u] = Nobody
       THEN status' = 404 /\ UNCHANGED <<role, told>>
       ELSE /\ status' = 200
            /\ role' = [role EXCEPT ![t][u] = r]
            /\ told' = [told EXCEPT ![t][u] = @ \cup {r}]
    /\ UNCHANGED <<teams, names, renaming>>

\* DELETE .../members/:userId.
RemoveMember(t, u) ==
    /\ TeamRequest
    /\ status' = IF role[t][u] = Nobody THEN 404 ELSE 200
    /\ role' = [role EXCEPT ![t][u] = Nobody]
    /\ told' = [told EXCEPT ![t][u] = {}]
    /\ UNCHANGED <<teams, names, renaming>>

TeamsNext ==
    \/ \E t \in TeamId : CreateTeam(t) \/ UpdateTeam(t) \/ UpdateWrite(t) \/ DeleteTeam(t)
    \/ \E t \in TeamId, u \in Invitee :
          RemoveMember(t, u) \/ \E r \in Role : AddMember(t, u, r) \/ UpdateMemberRole(t, u, r)

TeamsSpec == TeamsInit /\ [][TeamsNext]_teamVars

-----------------------------------------------------------------------------
(***************************************************************************)
(* Membership follows the answers: a team that does not exist has no       *)
(* members, one that is created again under its old id starts without the  *)
(* members it had, and a user is a member exactly if an answer said so     *)
(* since the team was created or the user removed - in a role that one of  *)
(* these answers named.                                                    *)
(***************************************************************************)
MembersAsTold ==
    \A t \in TeamId, u \in Invitee :
        /\ role[t][u] # Nobody => t \in teams /\ role[t][u] \in told[t][u]
        /\ told[t][u] # {} => role[t][u] # Nobody
=============================================================================
