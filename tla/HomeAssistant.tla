----------------------------- MODULE HomeAssistant -----------------------------
(***************************************************************************)
(* Home Assistant's side of the command queue                              *)
(* (custom_components/icloud_reminders_bridge/runtime.py).  One action per *)
(* transaction: here a transaction that commits is one step and one that   *)
(* rolls back changes nothing.                                             *)
(***************************************************************************)
EXTENDS Webhook

CONSTANTS
    QueueCap,     \* MAX_COMMANDS
    ResponseCap,  \* how many commands fit in a response (MAX_PAYLOAD_BYTES)
    MaxEpoch      \* bound on the epochs Home Assistant creates

VARIABLES
    queue,        \* commands waiting for an acknowledgement, durable
    haEpoch,      \* the epoch stored with the queue
    haView,       \* commands whose effect the last accepted snapshot shows
    haWritable,   \* lists that snapshot published as writable
    epochOf       \* history: the epoch a command was accepted in

haVars == <<queue, haEpoch, haView, haWritable, epochOf>>

ASSUME QueueCapAssumption == QueueCap \in Nat \ {0}
ASSUME ResponseCapAssumption == ResponseCap \in Nat
ASSUME MaxEpochAssumption == MaxEpoch \in Nat \ {0}

IsAccepted(c) == rank[c] # 0

\* The commands Home Assistant has ever accepted, in whatever epoch.
AcceptedCommands == {c \in Cmd : IsAccepted(c)}

\* A user edits a todo entity.  The call is refused unless the last snapshot
\* shows the list as writable and the queue has room; it returns success after
\* the queue is stored.
QueueCommand(c) ==
    /\ ~IsAccepted(c)
    /\ ListOf[c] \in haWritable
    /\ Cardinality(queue) < QueueCap
    /\ queue' = queue \cup {c}
    /\ rank' = [rank EXCEPT ![c] = Cardinality(AcceptedCommands) + 1]
    /\ epochOf' = [epochOf EXCEPT ![c] = haEpoch]
    /\ UNCHANGED <<haEpoch, haView, haWritable, netVars, faults>>

\* What the response to snapshot r offers: every command still queued whose
\* list r publishes as writable.  The others stay queued, withheld.
Deliverable(r) == {c \in queue \ r.acked : ListOf[c] \in r.writable}

TooLarge(r) == Cardinality(Deliverable(r)) > ResponseCap

\* Home Assistant answers the process that sent r, if it still listens; the
\* response may be lost on the way.
Answer(r, response) ==
    \/ /\ reply' = IF r.awaited THEN [reply EXCEPT ![r.from] = response] ELSE reply
       /\ UNCHANGED faults
    \/ /\ r.awaited
       /\ Spend("loss")
       /\ UNCHANGED reply

\* A faulty variant of AcceptSnapshot: sent_at is not compared.
AcceptAnySnapshot(i) ==
    LET r == requests[i] IN
    /\ ~TooLarge(r)
    /\ queue' = queue \ r.acked
    /\ haView' = r.view
    /\ haWritable' = r.writable
    /\ requests' = Accepted(i)
    /\ Answer(r, [kind |-> "ok", epoch |-> haEpoch, commands |-> Deliverable(r)])
    /\ UNCHANGED <<haEpoch, epochOf, rank>>

\* A snapshot newer than the last accepted one: forget the commands it
\* acknowledges, adopt its lists, answer with the commands left.
AcceptSnapshot(i) ==
    LET r == requests[i] IN
    /\ ~r.stale
    /\ ~TooLarge(r)
    /\ queue' = queue \ r.acked
    /\ haView' = r.view
    /\ haWritable' = r.writable
    /\ requests' = Accepted(i)
    /\ Answer(r, [kind |-> "ok", epoch |-> haEpoch, commands |-> Deliverable(r)])
    /\ UNCHANGED <<haEpoch, epochOf, rank>>

\* A snapshot whose sent_at is not newer, or whose response would be too large:
\* ProtocolError, HTTP 400, and the transaction rolls back, acknowledgements
\* included.
RejectSnapshot(i) ==
    LET r == requests[i] IN
    /\ r.stale \/ TooLarge(r)
    /\ requests' = Without(i)
    /\ Answer(r, ErrorReply)
    /\ UNCHANGED <<haVars, rank>>

\* The integration's storage is lost: async_load starts from nothing, under a
\* fresh epoch, and no snapshot is too old for it.
NewStorage ==
    /\ haEpoch < MaxEpoch
    /\ haEpoch' = haEpoch + 1
    /\ queue' = {}
    /\ haView' = {}
    /\ haWritable' = {}
    /\ requests' = [j \in 1 .. Len(requests) |-> [requests[j] EXCEPT !.stale = FALSE]]
    /\ UNCHANGED <<epochOf, reply, rank, faults>>

HAInit ==
    /\ queue = {}
    /\ haEpoch = 1
    /\ haView = {}
    /\ haWritable = {}
    /\ epochOf = [c \in Cmd |-> NoEpoch]
================================================================================
