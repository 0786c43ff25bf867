--------------------------- MODULE MCCoordination ----------------------------
(***************************************************************************)
(* Small instances of the lease table and of the signals, checked in one   *)
(* run.  They share no state: part says which one a behaviour is about.    *)
(*   leases  : two ids on one target, agents spelled with and without      *)
(*             blanks                                                      *)
(*   inbox   : two signals without project, addressed or for everybody,    *)
(*             some of which expire, one per page                          *)
(*   threads : three signals for everybody, in a project or in none, so    *)
(*             that a reply is itself answered; one agent reads them       *)
(***************************************************************************)
EXTENDS LeaseStore, SignalStore

VARIABLE part

MCAgent == {"a", " a"}
MCTrim == [x \in MCAgent |-> IF x = " a" THEN "a" ELSE x]
MCTtlArg == {0, 1, 4}
MCCaller == {Untagged}

------------------------------------------------------------------------------
\* Ids are opaque: it is enough to hand them out from the first one.
LeasesInOrder ==
    \A k, l \in LeaseId : k < l /\ leases[l].status # "absent" => leases[k].status # "absent"

Staged ==
    /\ \A s \in Sent : 1..s \subseteq Sent
    /\ part = "inbox" => Sent \subseteq 1..2 /\ \A s \in Sent : signals[s].project = NULL
    /\ part = "threads" =>
          /\ moment = 0 /\ inbox[" a"] = {}
          /\ \A s \in Sent : /\ signals[s].to = NULL /\ signals[s].expiresAt = NULL
                             /\ signals[s].ackedBy \in {NULL, "a"}

OnStage(A) == part # "leases" /\ UNCHANGED <<part, vars>> /\ A /\ Staged'

CoordinationInit == part \in {"leases", "inbox", "threads"} /\ Init /\ SignalInit

CoordinationNext ==
    \/ part = "leases" /\ UNCHANGED <<part, signalVars>> /\ Next /\ LeasesInOrder'
    \/ OnStage(SignalNext)

coordinationVars == <<part, vars, signalVars>>

\* An agent polls the project of its scene.
Polled == IF part = "threads" THEN CHOOSE p \in SignalProject : TRUE ELSE NULL

\* SignalFairness.  A behaviour is about one part, so fairness of a union of
\* actions, one per part, is fairness of each.
CoordinationFairness ==
    /\ \A agent \in AgentName, tenant \in Caller :
          SF_coordinationVars(OnStage(ReadSignals(agent, TRUE, NULL, Polled, FALSE, tenant)))
    /\ \A tenant \in Caller :
          /\ \A s \in {1, 2} : SF_coordinationVars(OnStage(s \in inbox["a"] /\ Ack(s, "a", tenant)))
          /\ SF_coordinationVars(OnStage(1 \in inbox[" a"] /\ Ack(1, " a", tenant)))
          /\ SF_coordinationVars(OnStage(
                \/ part = "inbox" /\ 2 \in inbox[" a"] /\ Ack(2, " a", tenant)
                \/ part = "threads" /\ 3 \in inbox["a"] /\ Ack(3, "a", tenant)))

CoordinationSpec ==
    CoordinationInit /\ [][CoordinationNext]_coordinationVars /\ CoordinationFairness
==============================================================================
