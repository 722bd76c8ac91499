------------------------------- MODULE MacBridge -------------------------------
(***************************************************************************)
(* The bridge processes of one Mac: serve and sync-once                    *)
(* (cmd/icloud-reminders-bridge/main.go, internal/hasync/client.go), the   *)
(* operator commands recover and reset-queue-epoch, the state file and its *)
(* lock (internal/state/state.go), and the EventKit helper they start.     *)
(*                                                                         *)
(* A process is at one of these places:                                    *)
(*   down        not running                                               *)
(*   loaded      state.Load has returned, state.Acquire not yet called     *)
(*   idle        holds the lock, between two calls of SyncOnce             *)
(*   await       SyncOnce has posted its snapshot                          *)
(*   walk        in the loop over the commands of the response             *)
(*   helper      the in-flight command is journalled, its helper runs      *)
(*   committed   EventKit has committed, the helper has not yet reported   *)
(*   await2      SyncOnce has posted the snapshot that confirms them       *)
(***************************************************************************)
EXTENDS Webhook

CONSTANTS
    Invalid   \* commands Home Assistant accepts and validateCommand refuses

VARIABLES
    disk,        \* the state file
    lock,        \* the holder of the advisory lock, or NoProc
    pc,          \* where each process is
    mem,         \* the state each process has in memory
    todo,        \* the commands of the response still to walk
    applied,     \* this SyncOnce has applied a command
    shown,       \* EventKit: the commands whose effect its lists show
    writable,    \* EventKit: the lists that can be modified
    execs,       \* history: how often each command took effect since the
                 \* operator last resolved it "retry"
    attested     \* history: commands the operator resolved "applied"

eventKitVars == <<shown, writable, execs>>
macVars == <<disk, lock, pc, mem, todo, applied, shown, writable, execs, attested>>

ASSUME InvalidAssumption == Invalid \subseteq Cmd

Place == {"down", "loaded", "idle", "await", "walk", "helper", "committed", "await2"}

\* The places at which a process holds the lock.
Locked == Place \ {"down", "loaded"}

Goto(p, place) == pc' = [pc EXCEPT ![p] = place]

\* SyncOnce returns: the serve loop waits for its next round.
EndSync(p) ==
    /\ Goto(p, "idle")
    /\ todo' = [todo EXCEPT ![p] = {}]
    /\ applied' = [applied EXCEPT ![p] = FALSE]

(***************************************************************************)
(* The state file.                                                         *)
(***************************************************************************)

\* Save validates, writes a temporary file and renames it over the old one.
Save(s) == Valid(s) /\ disk' = s

\* Save returns an error: validate refuses the state, or the file system fails.
\* The rename is the commit point: an error before it leaves the old state, one
\* after it (the directory sync) the new state.
SaveFails(s) ==
    \/ ~Valid(s) /\ UNCHANGED <<disk, faults>>
    \/ /\ Spend("save")
       /\ UNCHANGED disk \/ Save(s)

(***************************************************************************)
(* Starting and stopping.                                                  *)
(***************************************************************************)

\* run: the state is read before the lock is taken.
LoadState(p) ==
    /\ pc[p] = "down"
    /\ Goto(p, "loaded")
    /\ mem' = [mem EXCEPT ![p] = disk]
    /\ UNCHANGED <<disk, lock, todo, applied, eventKitVars, attested, netVars, rank, faults>>

\* A faulty variant of AcquireLock: it takes a lock that is held.
AcquireHeldLock(p) ==
    /\ pc[p] = "loaded"
    /\ lock' = p
    /\ Goto(p, "idle")
    /\ UNCHANGED <<disk, mem, todo, applied, eventKitVars, attested, netVars, rank, faults>>

\* run: take the lock and keep what was loaded, or exit when it is held.
AcquireLock(p) ==
    /\ pc[p] = "loaded"
    /\ IF lock = NoProc
       THEN lock' = p /\ Goto(p, "idle") /\ UNCHANGED mem
       ELSE /\ Goto(p, "down")
            /\ mem' = [mem EXCEPT ![p] = EmptyState]
            /\ UNCHANGED lock
    /\ UNCHANGED <<disk, todo, applied, eventKitVars, attested, netVars, rank, faults>>

\* The process is gone: its memory is lost and the kernel drops its lock.
Dies(p) ==
    /\ Goto(p, "down")
    /\ lock' = IF lock = p THEN NoProc ELSE lock
    /\ mem' = [mem EXCEPT ![p] = EmptyState]
    /\ todo' = [todo EXCEPT ![p] = {}]
    /\ applied' = [applied EXCEPT ![p] = FALSE]
    /\ requests' = Abandoned(p)
    /\ reply' = [reply EXCEPT ![p] = NoReply]
    /\ UNCHANGED <<disk, writable, attested, rank>>

TakesEffect(c) ==
    /\ shown' = shown \cup {c}
    /\ execs' = [execs EXCEPT ![c] = @ + 1]

\* A crash, a kill or an orderly exit.  A helper that is running may still
\* commit, but does not outlive the process: launchd ends the whole job.
Crash(p) ==
    /\ pc[p] # "down"
    /\ Spend("crash")
    /\ Dies(p)
    /\ \/ UNCHANGED <<shown, execs>>
       \/ pc[p] = "helper" /\ TakesEffect(mem[p].inFlight)

\* The operator stops a bridge between two rounds: recover and
\* reset-queue-epoch need the lock that serve keeps.
StopBridge(p) ==
    /\ pc[p] = "idle"
    /\ Dies(p)
    /\ UNCHANGED <<shown, execs, faults>>

(***************************************************************************)
(* SyncOnce.                                                               *)
(***************************************************************************)

\* A faulty variant of SnapshotOf: it omits the acknowledgements.
SnapshotWithoutLedger(p) ==
    [from     |-> p,
     awaited  |-> TRUE,
     stale    |-> FALSE,
     acked    |-> {},
     view     |-> shown,
     writable |-> writable]

\* The snapshot and the ledger that a post of process p carries.
SnapshotOf(p) ==
    [from     |-> p,
     awaited  |-> TRUE,
     stale    |-> FALSE,
     acked    |-> Range(mem[p].applied),
     view     |-> shown,
     writable |-> writable]

Post(p) ==
    /\ Len(requests) < MaxOutstanding
    /\ requests' = Append(requests, SnapshotOf(p))
    /\ UNCHANGED reply

\* A faulty variant of PostSnapshot: it syncs with a command in flight.
PostWhileInFlight(p) ==
    /\ pc[p] = "idle"
    /\ Post(p)
    /\ Goto(p, "await")
    /\ UNCHANGED <<disk, lock, mem, todo, applied, eventKitVars, attested, rank, faults>>

\* SyncOnce refuses while a command is in flight; otherwise it reads EventKit
\* and posts.
PostSnapshot(p) ==
    /\ pc[p] = "idle"
    /\ mem[p].inFlight = NoCmd
    /\ Post(p)
    /\ Goto(p, "await")
    /\ UNCHANGED <<disk, lock, mem, todo, applied, eventKitVars, attested, rank, faults>>

\* The post fails: the client's timeout, or a connection that breaks.
PostFails(p) ==
    /\ pc[p] \in {"await", "await2"}
    /\ reply[p] = NoReply
    /\ IF Awaits(p) THEN Spend("delay") ELSE UNCHANGED faults
    /\ requests' = Abandoned(p)
    /\ EndSync(p)
    /\ UNCHANGED <<reply, disk, lock, mem, eventKitVars, attested, rank>>

Consume(p) ==
    /\ reply' = [reply EXCEPT ![p] = NoReply]
    /\ UNCHANGED requests

\* postSnapshot's verdict on a response: every command it has not applied yet
\* must be valid, or the whole response is an error.
ResponseOK(p) ==
    /\ reply[p].kind = "ok"
    /\ \A c \in reply[p].commands : Has(mem[p], c) \/ c \notin Invalid

\* acceptQueueEpoch: refuse an epoch that changed or that went away.
EpochRefused(p) ==
    /\ mem[p].epoch # NoEpoch
    /\ reply[p].epoch # mem[p].epoch

Answered(p, place) == pc[p] = place /\ reply[p].kind # "none"

RejectResponse(p) ==
    /\ Answered(p, "await")
    /\ ~ResponseOK(p) \/ EpochRefused(p)
    /\ Consume(p)
    /\ EndSync(p)
    /\ UNCHANGED <<disk, lock, mem, eventKitVars, attested, rank, faults>>

\* A faulty variant of AcceptResponse: it does not compare the epochs.
AcceptAnyEpoch(p) ==
    /\ Answered(p, "await")
    /\ ResponseOK(p)
    /\ mem[p].epoch # NoEpoch
    /\ Consume(p)
    /\ Goto(p, "walk")
    /\ todo' = [todo EXCEPT ![p] = reply[p].commands]
    /\ UNCHANGED <<disk, lock, mem, applied, eventKitVars, attested, rank, faults>>

\* The response is good and its epoch is the one already accepted.
AcceptResponse(p) ==
    /\ Answered(p, "await")
    /\ ResponseOK(p)
    /\ reply[p].epoch = mem[p].epoch
    /\ Consume(p)
    /\ Goto(p, "walk")
    /\ todo' = [todo EXCEPT ![p] = reply[p].commands]
    /\ UNCHANGED <<disk, lock, mem, applied, eventKitVars, attested, rank, faults>>

\* A faulty variant of AdoptEpoch: a changed epoch is adopted like a first one.
AdoptAnyEpoch(p) ==
    LET s == [mem[p] EXCEPT !.epoch = reply[p].epoch] IN
    /\ Answered(p, "await")
    /\ ResponseOK(p)
    /\ mem[p].epoch # reply[p].epoch
    /\ Consume(p)
    /\ \/ /\ Save(s)
          /\ mem' = [mem EXCEPT ![p] = s]
          /\ Goto(p, "walk")
          /\ todo' = [todo EXCEPT ![p] = reply[p].commands]
          /\ UNCHANGED <<applied, faults>>
       \/ SaveFails(s) /\ EndSync(p) /\ UNCHANGED mem
    /\ UNCHANGED <<lock, eventKitVars, attested, rank>>

\* The first epoch this Mac sees is saved before any command is applied.
AdoptEpoch(p) ==
    LET s == [mem[p] EXCEPT !.epoch = reply[p].epoch] IN
    /\ Answered(p, "await")
    /\ ResponseOK(p)
    /\ mem[p].epoch = NoEpoch
    /\ Consume(p)
    /\ \/ /\ Save(s)
          /\ mem' = [mem EXCEPT ![p] = s]
          /\ Goto(p, "walk")
          /\ todo' = [todo EXCEPT ![p] = reply[p].commands]
          /\ UNCHANGED <<applied, faults>>
       \/ SaveFails(s) /\ EndSync(p) /\ UNCHANGED mem
    /\ UNCHANGED <<lock, eventKitVars, attested, rank>>

\* The loop skips a command that is already in the ledger.
SkipApplied(p) ==
    /\ pc[p] = "walk"
    /\ \E c \in todo[p] :
        /\ IsFirst(c, todo[p])
        /\ Has(mem[p], c)
        /\ todo' = [todo EXCEPT ![p] = @ \ {c}]
    /\ UNCHANGED <<disk, lock, pc, mem, applied, eventKitVars, attested, netVars, rank, faults>>

\* The command is journalled and its helper started, or the journal cannot be
\* written and SyncOnce returns with the command still in flight in memory.
JournalCommand(p) ==
    /\ pc[p] = "walk"
    /\ \E c \in todo[p] :
        LET s == [mem[p] EXCEPT !.inFlight = c] IN
        /\ IsFirst(c, todo[p])
        /\ ~Has(mem[p], c)
        /\ mem' = [mem EXCEPT ![p] = s]
        /\ \/ /\ Save(s)
              /\ Goto(p, "helper")
              /\ todo' = [todo EXCEPT ![p] = @ \ {c}]
              /\ UNCHANGED <<applied, faults>>
           \/ SaveFails(s) /\ EndSync(p)
    /\ UNCHANGED <<lock, eventKitVars, attested, netVars, rank>>

\* The helper saves the reminder: the list must be writable at that moment.
HelperCommits(p) ==
    /\ pc[p] = "helper"
    /\ ListOf[mem[p].inFlight] \in writable
    /\ TakesEffect(mem[p].inFlight)
    /\ Goto(p, "committed")
    /\ UNCHANGED <<disk, lock, mem, todo, applied, writable, attested, netVars, rank, faults>>

\* A faulty variant of HelperFails: it clears the journal, to try again.
HelperFailsAndForgets(p) ==
    LET s == [mem[p] EXCEPT !.inFlight = NoCmd] IN
    /\ pc[p] \in {"helper", "committed"}
    /\ IF pc[p] = "helper" /\ ListOf[mem[p].inFlight] \notin writable
       THEN UNCHANGED faults
       ELSE Spend("helper")
    /\ Save(s)
    /\ mem' = [mem EXCEPT ![p] = s]
    /\ EndSync(p)
    /\ UNCHANGED <<lock, eventKitVars, attested, netVars, rank>>

\* ApplyCommand returns an error: the helper refused, was killed by its 30 s
\* timeout, or its answer could not be used.  The command stays in flight.
HelperFails(p) ==
    /\ pc[p] \in {"helper", "committed"}
    /\ IF pc[p] = "helper" /\ ListOf[mem[p].inFlight] \notin writable
       THEN UNCHANGED faults
       ELSE Spend("helper")
    /\ EndSync(p)
    /\ UNCHANGED <<disk, lock, mem, eventKitVars, attested, netVars, rank>>

\* ApplyCommand returns success: the command moves from the journal to the
\* ledger, in memory and then on disk.
RecordApplied(p) ==
    LET s == MarkApplied(mem[p], mem[p].inFlight) IN
    /\ pc[p] = "committed"
    /\ mem' = [mem EXCEPT ![p] = s]
    /\ \/ /\ Save(s)
          /\ Goto(p, "walk")
          /\ applied' = [applied EXCEPT ![p] = TRUE]
          /\ UNCHANGED <<todo, faults>>
       \/ SaveFails(s) /\ EndSync(p)
    /\ UNCHANGED <<lock, eventKitVars, attested, netVars, rank>>

\* After the last command SyncOnce publishes what it applied, unless EventKit
\* cannot be read, or is done.
FinishWalk(p) ==
    /\ pc[p] = "walk"
    /\ todo[p] = {}
    /\ \/ /\ applied[p]
          /\ Post(p)
          /\ Goto(p, "await2")
          /\ UNCHANGED <<todo, applied, faults>>
       \/ applied[p] /\ Spend("helper") /\ EndSync(p) /\ UNCHANGED netVars
       \/ ~applied[p] /\ EndSync(p) /\ UNCHANGED <<netVars, faults>>
    /\ UNCHANGED <<disk, lock, mem, eventKitVars, attested, rank>>

\* The answer to the confirming snapshot is checked but its commands wait for
\* the next round.
ConfirmSync(p) ==
    /\ Answered(p, "await2")
    /\ Consume(p)
    /\ EndSync(p)
    /\ UNCHANGED <<disk, lock, mem, eventKitVars, attested, rank, faults>>

(***************************************************************************)
(* The operator's commands.  Each takes the lock, then loads, changes and  *)
(* saves the state.                                                        *)
(***************************************************************************)

\* A Save that fails leaves the old state, as if the command had not been run,
\* or the new one, as if it had succeeded.  Resolution "retry" clears the
\* journal.
RecoverRetry ==
    /\ lock = NoProc
    /\ disk.inFlight # NoCmd
    /\ Spend("retry")
    /\ Save([disk EXCEPT !.inFlight = NoCmd])
    /\ execs' = [execs EXCEPT ![disk.inFlight] = 0]
    /\ UNCHANGED <<lock, pc, mem, todo, applied, shown, writable, attested, netVars, rank>>

\* A faulty variant of RecoverApplied: it clears the journal only.
RecoverWithoutLedger ==
    /\ lock = NoProc
    /\ disk.inFlight # NoCmd
    /\ Save([disk EXCEPT !.inFlight = NoCmd])
    /\ attested' = attested \cup {disk.inFlight}
    /\ UNCHANGED <<lock, pc, mem, todo, applied, eventKitVars, netVars, rank, faults>>

\* A faulty variant of RecoverApplied: it does not look for a command in flight.
RecoverNothing ==
    /\ lock = NoProc
    /\ Save(MarkApplied([disk EXCEPT !.inFlight = NoCmd], disk.inFlight))
    /\ attested' = attested \cup {disk.inFlight}
    /\ UNCHANGED <<lock, pc, mem, todo, applied, eventKitVars, netVars, rank, faults>>

\* Resolution "applied" moves the command to the ledger.
RecoverApplied ==
    /\ lock = NoProc
    /\ disk.inFlight # NoCmd
    /\ Save(MarkApplied([disk EXCEPT !.inFlight = NoCmd], disk.inFlight))
    /\ attested' = attested \cup {disk.inFlight}
    /\ UNCHANGED <<lock, pc, mem, todo, applied, eventKitVars, netVars, rank, faults>>

\* reset-queue-epoch accepts the epoch the operator has reviewed, unless a
\* command is in flight.
ResetQueueEpoch(epoch) ==
    /\ lock = NoProc
    /\ disk.inFlight = NoCmd
    /\ disk.epoch # epoch
    /\ Save([disk EXCEPT !.epoch = epoch])
    /\ UNCHANGED <<lock, pc, mem, todo, applied, eventKitVars, attested, netVars, rank, faults>>

(***************************************************************************)
(* Apple's side: a list becomes read-only, or writable again.              *)
(***************************************************************************)

MakeReadOnly(l) ==
    /\ l \in writable
    /\ Spend("toggle")
    /\ writable' = writable \ {l}
    /\ UNCHANGED <<disk, lock, pc, mem, todo, applied, shown, execs, attested, netVars, rank>>

MakeWritable(l) ==
    /\ l \notin writable
    /\ writable' = writable \cup {l}
    /\ UNCHANGED <<disk, lock, pc, mem, todo, applied, shown, execs, attested, netVars, rank, faults>>

MacInit ==
    /\ disk = EmptyState
    /\ lock = NoProc
    /\ pc = [p \in Proc |-> "down"]
    /\ mem = [p \in Proc |-> EmptyState]
    /\ todo = [p \in Proc |-> {}]
    /\ applied = [p \in Proc |-> FALSE]
    /\ shown = {}
    /\ writable = List
    /\ execs = [c \in Cmd |-> 0]
    /\ attested = {}
================================================================================
