-------------------------------- MODULE Webhook --------------------------------
(***************************************************************************)
(* The HTTP path between the Mac and Home Assistant, and the budget of     *)
(* faults a behaviour may spend.                                           *)
(*                                                                         *)
(* requests holds the snapshots on their way, in the order the bridge      *)
(* stamped them with sent_at.  Nothing keeps a request from overtaking an  *)
(* earlier one, or from arriving after the bridge that sent it has given   *)
(* up on it (awaited is FALSE).  A request is stale once Home Assistant    *)
(* has accepted one with a later sent_at: that is the outcome of comparing *)
(* its sent_at with last_snapshot_sent_at, kept with the request so that   *)
(* the model needs no unbounded clock.                                     *)
(***************************************************************************)
EXTENDS BridgeState, FiniteSets

CONSTANTS
    Proc,            \* the serve and sync-once processes of one Mac
    NoProc,          \* nobody holds the state lock
    List,            \* the reminder lists on the allowlist of both sides
    ListOf,          \* the list each command is for
    MaxOutstanding,  \* bound on the requests in the network at one time
    FaultBound       \* how many faults of each kind a behaviour may have

VARIABLES
    requests,   \* snapshots in the network, oldest sent_at first
    reply,      \* per process, the response to its awaited request
    rank,       \* the position at which Home Assistant accepted a command,
                \* 0 before that: every command list is in this order
    faults      \* how many faults of each kind have happened

netVars == <<requests, reply>>

\* A process stops; a state save fails; a helper call fails; a message is lost;
\* an answer comes after the client's timeout; a list becomes read-only; the
\* operator asks to retry.
Fault == {"crash", "save", "helper", "loss", "delay", "toggle", "retry"}

ASSUME NoProcAssumption == NoProc \notin Proc
ASSUME ListOfAssumption == ListOf \in [Cmd -> List]
ASSUME MaxOutstandingAssumption == MaxOutstanding \in Nat
ASSUME FaultBoundAssumption == FaultBound \in [Fault -> Nat]

Request == [from     : Proc,
            awaited  : BOOLEAN,
            stale    : BOOLEAN,
            acked    : SUBSET Cmd,    \* applied_command_ids
            view     : SUBSET Cmd,    \* commands whose effect the lists show
            writable : SUBSET List]   \* lists published as not read_only

Reply == [kind     : {"none", "error", "ok"},
          epoch    : Nat,
          commands : SUBSET Cmd]

NoReply    == [kind |-> "none",  epoch |-> NoEpoch, commands |-> {}]
ErrorReply == [kind |-> "error", epoch |-> NoEpoch, commands |-> {}]

\* A faulty variant of IsFirst: commands are walked in any order.
IsAny(c, commands) == c \in commands

\* The first command of a command list.
IsFirst(c, commands) ==
    c \in commands /\ \A d \in commands : rank[c] <= rank[d]

Spend(f) ==
    /\ faults[f] < FaultBound[f]
    /\ faults' = [faults EXCEPT ![f] = @ + 1]

\* The requests once the i-th has been delivered.
Without(i) ==
    [j \in 1 .. Len(requests) - 1 |->
        IF j < i THEN requests[j] ELSE requests[j + 1]]

\* The same when the i-th was accepted: what was sent before it is now stale.
Accepted(i) ==
    [j \in 1 .. Len(requests) - 1 |->
        IF j < i THEN [requests[j] EXCEPT !.stale = TRUE] ELSE requests[j + 1]]

\* The requests once process p no longer waits for an answer.
Abandoned(p) ==
    [j \in 1 .. Len(requests) |->
        IF requests[j].from = p THEN [requests[j] EXCEPT !.awaited = FALSE]
                                ELSE requests[j]]

Awaits(p) == \E j \in 1 .. Len(requests) : requests[j].from = p /\ requests[j].awaited

\* The network loses the i-th request before Home Assistant sees it (or Home
\* Assistant fails before it changes anything): the bridge will time out.
LoseRequest(i) ==
    /\ Spend("loss")
    /\ requests' = Without(i)
    /\ UNCHANGED <<reply, rank>>
================================================================================
