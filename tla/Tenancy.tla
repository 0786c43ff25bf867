------------------------------- MODULE Tenancy -------------------------------
(***************************************************************************)
(* Tenant scoping shared by the lease and the signal store.  An            *)
(* authenticated member carries a user and possibly a team; an admin and a *)
(* caller of a deployment without auth carry neither.                      *)
(***************************************************************************)
CONSTANTS User,  \* user ids handed out by the token resolver
          Team,  \* team ids
          NULL   \* SQL NULL, and JavaScript's undefined

ASSUME TenancyAssumption == NULL \notin User /\ NULL \notin Team

\* The tenant columns of a row, and the scope of a caller.
Tenant == [user : User \cup {NULL}, team : Team \cup {NULL}]

\* No stamp on the row / no identity on the request.
Untagged == [user |-> NULL, team |-> NULL]

\* A caller without identity sees every row, an untagged row is seen by every
\* caller, and otherwise the user or the team has to agree.
MatchesTenant(row, caller) ==
    \/ caller = Untagged
    \/ row = Untagged
    \/ caller.user # NULL /\ row.user = caller.user
    \/ caller.team # NULL /\ row.team = caller.team
==============================================================================
