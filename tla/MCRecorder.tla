----------------------------- MODULE MCRecorder ------------------------------
(***************************************************************************)
(* Two deployments of EventRecorder checked in one run: one without gate   *)
(* whose clients resend, reuse ids and repeat content (Open), and one      *)
(* whose processes boot with the gate and capture in every setting and     *)
(* write without queue (Gated).  deployment says which one a behaviour is  *)
(* about; the module itself has the values of both for the properties.     *)
(***************************************************************************)
EXTENDS EventRecorder, TLC

VARIABLE deployment

Prompt == [hash |-> "h1", id |-> NULL, content |-> "c1", tag |-> NULL, valid |-> TRUE,
           blocked |-> FALSE, strip |-> FALSE, private |-> FALSE, checkpoint |-> FALSE]

\* A checkpoint with the content of the prompt (a URL) under an id its client
\* chose, and a different event under that id.
Chosen == [Prompt EXCEPT !.hash = "h2", !.checkpoint = TRUE, !.id = "x"]
Reused == [Prompt EXCEPT !.hash = "h3", !.id = "x", !.content = NULL]
OpenEnvelope == {Prompt, Chosen, Reused}

\* Stripped and private, with closure evidence, and what the early returns refuse.
Secret == [Prompt EXCEPT !.hash = "h4", !.strip = TRUE, !.private = TRUE]
Closing == [Prompt EXCEPT !.hash = "h5", !.tag = "v1"]
Refused == [Prompt EXCEPT !.hash = "h6", !.valid = FALSE]
Hidden == [Prompt EXCEPT !.hash = "h7", !.blocked = TRUE]
GatedEnvelope == {Secret, Closing, Refused, Hidden}
AnyEnvelope == OpenEnvelope \cup GatedEnvelope

Open == INSTANCE EventRecorder WITH
    Envelope <- OpenEnvelope, Gates <- {"off"}, Captures <- {TRUE}, ManagedRequired <- TRUE,
    MaxAudit <- 0

Gated == INSTANCE EventRecorder WITH
    Envelope <- GatedEnvelope, ManagedRequired <- FALSE, WriteQueueLimit <- 0,
    Retention <- 1, MaxRetryRows <- 1

recorderVars == <<deployment, vars>>

RecorderInit ==
    \/ deployment = "open" /\ Open!Init
    \/ deployment = "gated" /\ Gated!Init

\* With the gate off nothing reads the tags of the repository.
RecorderNext ==
    \/ deployment = "open" /\ Open!Next /\ UNCHANGED <<deployment, tags>>
    \/ deployment = "gated" /\ Gated!Next /\ UNCHANGED deployment

RecorderSpec == RecorderInit /\ [][RecorderNext]_recorderVars

Symmetry == Permutations(EventId)
==============================================================================
