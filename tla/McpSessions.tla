---------------------------- MODULE McpSessions ----------------------------
(***************************************************************************)
(* The session tools of the MCP servers (mcp-server/src/tools/session.ts): *)
(* processes that share two files without a lock. Each step of one process *)
(* is synchronous; the steps of two processes interleave at every file     *)
(* operation. A message is the number of its broadcast; of its text the    *)
(* model knows whether lines after the first one are still in the file.    *)
(* Reading never shows them: the lazy expression of loadBroadcasts ends a  *)
(* message at the end of its first line.                                   *)
(***************************************************************************)
EXTENDS Naturals, Sequences, FiniteSets, SequencesExt

CONSTANTS
    Process,       \* MCP servers
    SessionId,
    Kept,          \* MAX_BROADCAST_MESSAGES
    MaxSent,       \* bound: broadcasts
    MaxRegistered, \* bound: registrations
    Nothing        \* no operation under way

ASSUME SessionFilesAssumption ==
    /\ Kept \in Nat
    /\ \A list \in SUBSET SessionId :
          /\ Nothing # list
          /\ \A at \in {"loaded", "open"}, s \in SessionId :
                Nothing # [at |-> at, session |-> s, list |-> list]

VARIABLES
    broadcasts,    \* the messages in the broadcast file
    cut,           \* the messages of which the file has only the first line
    sent,          \* broadcasts so far
    trims,         \* [Process -> trims put off with setImmediate]
    trimmed,       \* [Process -> Nothing, or what its trim is about to write]
    crossed,       \* history: messages appended while another process trimmed
    active,        \* the sessions in the other file; Nothing: it does not parse
    register,      \* [Process -> Nothing, or a registration under way]
    registrations,
    exposed        \* history: sessions whose registration overlapped another one,
                   \* or that were to be read when the file was empty

sessionFileVars == <<broadcasts, cut, sent, trims, trimmed, crossed, active, register,
                     registrations, exposed>>

SessionFilesInit ==
    /\ broadcasts = <<>> /\ cut = {} /\ sent = 0 /\ crossed = {}
    /\ trims = [p \in Process |-> 0]
    /\ trimmed = [p \in Process |-> Nothing]
    /\ active = {} /\ registrations = {} /\ exposed = {}
    /\ register = [p \in Process |-> Nothing]

----------------------------------------------------------------------------

\* handleBroadcast, appendBroadcast: the message is appended, trimming put off.
Broadcast(p) ==
    /\ sent < MaxSent /\ sent' = sent + 1
    /\ broadcasts' = Append(broadcasts, sent')
    /\ trims' = [trims EXCEPT ![p] = @ + 1]
    /\ crossed' = IF \E q \in Process : trimmed[q] # Nothing
                  THEN crossed \cup {sent'} ELSE crossed
    /\ UNCHANGED <<cut, trimmed, active, register, registrations, exposed>>

\* Mutant: the oldest messages are kept.
OldestKept(s) == SubSeq(s, 1, Kept)

\* messages.slice(-MAX_BROADCAST_MESSAGES)
NewestKept(s) == SubSeq(s, Len(s) - Kept + 1, Len(s))

\* The put-off trim reads the file.  It goes on only over a file with more messages
\* than are kept, and then holds the first lines of the newest ones.
LoadBroadcasts(p) ==
    /\ trims[p] > 0 /\ trimmed[p] = Nothing
    /\ trims' = [trims EXCEPT ![p] = @ - 1]
    /\ trimmed' = IF Len(broadcasts) > Kept
                  THEN [trimmed EXCEPT ![p] = NewestKept(broadcasts)] ELSE trimmed
    /\ UNCHANGED <<broadcasts, cut, sent, crossed, active, register, registrations, exposed>>

\* It writes them over whatever the file holds by then.
WriteTrimmed(p) ==
    /\ trimmed[p] # Nothing
    /\ broadcasts' = trimmed[p] /\ cut' = cut \cup ToSet(trimmed[p])
    /\ trimmed' = [trimmed EXCEPT ![p] = Nothing]
    /\ UNCHANGED <<sent, trims, crossed, active, register, registrations, exposed>>

----------------------------------------------------------------------------

\* The sessions whose registration is under way.
Underway == {register[q].session : q \in {q \in Process : register[q] # Nothing}}

\* handleRegister: loadSessions. A file that does not parse counts as empty.
LoadSessions(p, s) ==
    /\ register[p] = Nothing /\ s \notin registrations
    /\ Cardinality(registrations) < MaxRegistered
    /\ registrations' = registrations \cup {s}
    /\ exposed' = exposed \cup (IF Underway = {} THEN {} ELSE Underway \cup {s})
                         \cup (IF active = Nothing THEN registrations ELSE {})
    /\ register' = [register EXCEPT ![p] =
                      [at |-> "loaded", session |-> s,
                       list |-> (IF active = Nothing THEN {} ELSE active) \cup {s}]]
    /\ UNCHANGED <<broadcasts, cut, sent, trims, trimmed, crossed, active>>

\* safeWriteJSON: writeFileSync empties the file, then writes it.
OpenSessions(p) ==
    /\ register[p] # Nothing /\ register[p].at = "loaded"
    /\ active' = Nothing
    /\ register' = [register EXCEPT ![p].at = "open"]
    /\ UNCHANGED <<broadcasts, cut, sent, trims, trimmed, crossed, registrations, exposed>>

SaveSessions(p) ==
    /\ register[p] # Nothing /\ register[p].at = "open"
    /\ active' = register[p].list
    /\ register' = [register EXCEPT ![p] = Nothing]
    /\ UNCHANGED <<broadcasts, cut, sent, trims, trimmed, crossed, registrations, exposed>>

SessionFilesNext ==
    \E p \in Process : \/ Broadcast(p) \/ LoadBroadcasts(p) \/ WriteTrimmed(p)
                       \/ \E s \in SessionId : LoadSessions(p, s)
                       \/ OpenSessions(p) \/ SaveSessions(p)

SessionFilesSpec == SessionFilesInit /\ [][SessionFilesNext]_sessionFileVars

----------------------------------------------------------------------------

\* A broadcast is in the file until as many newer ones have been sent as the file
\* keeps, or it came while another process was trimming: the trims that every
\* broadcast leaves behind, in any order and over stale copies, lose nothing
\* else and keep the order.
LostOnlyCrossing ==
    /\ \A i, j \in DOMAIN broadcasts : i < j => broadcasts[i] < broadcasts[j]
    /\ \A m \in 1..sent :
         m \in ToSet(broadcasts) \cup crossed \/ sent - m >= Kept

\* A message of several lines stays whole until more have been sent than are kept:
\* only then a trim writes it back, with its first line.
WholeUntilTrimmed == cut # {} => sent > Kept

\* Between two registrations the session file lists every session but those that
\* two processes could lose for it: sessions that registered while another one
\* did, and all that had registered when somebody read a file that was just being
\* written.  A session that registered by itself survives all later overlaps.
RegisteredListed ==
    (\A p \in Process : register[p] = Nothing) =>
        /\ active # Nothing /\ active \subseteq registrations
        /\ registrations \ exposed \subseteq active

\* What the session files lose is what two processes wrote at the same time, and
\* the further lines of messages that were trimmed.
FilesKept == LostOnlyCrossing /\ WholeUntilTrimmed /\ RegisteredListed
============================================================================
