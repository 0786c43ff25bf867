--------------------------- MODULE MCEventRecorder ---------------------------
(***************************************************************************)
(* The retry queue in two deployments, checked in one run: a prompt and a  *)
(* checkpoint that repeats its content, with two rows to retry (the module *)
(* itself), and the same behind the write queue with a single row and a    *)
(* release tag that appears (Queued).  deployment says which one a         *)
(* behaviour is about.                                                     *)
(***************************************************************************)
EXTENDS EventRecorder

VARIABLE deployment

Prompt == [hash |-> "h1", id |-> NULL, content |-> "c1", tag |-> NULL, valid |-> TRUE,
           blocked |-> FALSE, strip |-> FALSE, private |-> FALSE, checkpoint |-> FALSE]

\* A checkpoint with the content of the prompt (a URL) but another hash.
Same == [Prompt EXCEPT !.hash = "h2", !.checkpoint = TRUE]
Pair == {Prompt, Same}

Queued == INSTANCE EventRecorder WITH
    Tag <- {"v1"}, WriteQueueLimit <- 1, MaxRetryRows <- 1

retryVars == <<deployment, vars>>

RetryInit ==
    \/ deployment = "two rows" /\ Init
    \/ deployment = "queue" /\ Queued!Init

RetriesNext ==
    \/ deployment = "queue" /\ Queued!Next /\ UNCHANGED deployment
    \/ deployment = "two rows" /\ Next /\ UNCHANGED deployment

\* Fairness of each deployment in the behaviours that are about it.  Its actions
\* do not depend on what the two deployments differ in.
RetryFairness ==
    \/ deployment = "queue" /\ Queued!Fairness
    \/ deployment = "two rows" /\ Fairness

RetrySpec == RetryInit /\ [][RetriesNext]_retryVars /\ RetryFairness
==============================================================================
