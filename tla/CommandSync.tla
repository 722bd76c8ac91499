------------------------------ MODULE CommandSync ------------------------------
(***************************************************************************)
(* The command queue end to end: Home Assistant, the network, the bridge   *)
(* processes, the state file, EventKit and the operator.                   *)
(***************************************************************************)
EXTENDS HomeAssistant, MacBridge

\* The ledger holds as many identifiers as the queue holds commands:
\* maxAppliedCommands in internal/state/state.go and MAX_COMMANDS in const.py
\* are both 1,000.
ASSUME LedgerCoversQueue == QueueCap <= LedgerCap

vars == <<queue, haEpoch, haView, haWritable, epochOf,
          requests, reply, rank, faults,
          disk, lock, pc, mem, todo, applied,
          shown, writable, execs, attested>>

Init ==
    /\ HAInit
    /\ MacInit
    /\ requests = <<>>
    /\ reply = [p \in Proc |-> NoReply]
    /\ rank = [c \in Cmd |-> 0]
    /\ faults = [f \in Fault |-> 0]

\* What a bridge process does by itself, apart from failing.
Step(p) ==
    \/ LoadState(p) \/ AcquireLock(p)
    \/ PostSnapshot(p) \/ PostFails(p)
    \/ RejectResponse(p) \/ AcceptResponse(p) \/ AdoptEpoch(p)
    \/ SkipApplied(p) \/ JournalCommand(p)
    \/ HelperCommits(p) \/ HelperFails(p) \/ RecordApplied(p)
    \/ FinishWalk(p) \/ ConfirmSync(p)

\* Only an operator can clear these two refusals, and must stop the bridge to
\* take its lock.
RefusesInFlight(p) == pc[p] = "idle" /\ mem[p].inFlight # NoCmd
RefusesEpoch(p) == pc[p] = "idle" /\ mem[p].epoch \notin {NoEpoch, haEpoch}

OperatorStops(p) == (RefusesInFlight(p) \/ RefusesEpoch(p)) /\ StopBridge(p)

OperatorAcceptsEpoch == ResetQueueEpoch(haEpoch)

MacNext ==
    /\ \/ \E p \in Proc : Step(p) \/ Crash(p) \/ OperatorStops(p)
       \/ RecoverRetry \/ RecoverApplied \/ OperatorAcceptsEpoch
       \/ \E l \in List : MakeReadOnly(l) \/ MakeWritable(l)
    /\ UNCHANGED haVars

HANext ==
    /\ \/ \E c \in Cmd : QueueCommand(c)
       \/ \E i \in DOMAIN requests : AcceptSnapshot(i) \/ RejectSnapshot(i)
       \/ NewStorage
    /\ UNCHANGED macVars

NetNext == \E i \in DOMAIN requests : LoseRequest(i) /\ UNCHANGED <<haVars, macVars>>

Next == MacNext \/ HANext \/ NetNext

Spec == Init /\ [][Next]_vars

(***************************************************************************)
(* Safety.                                                                 *)
(***************************************************************************)

\* Every variable has its type: the record shapes of state.go, model.go and
\* the response of runtime.py.
TypeOK ==
    /\ queue \in SUBSET Cmd
    /\ haEpoch \in Nat
    /\ haView \in SUBSET Cmd
    /\ haWritable \in SUBSET List
    /\ epochOf \in [Cmd -> Nat]
    /\ requests \in Seq(Request)
    /\ reply \in [Proc -> Reply]
    /\ rank \in [Cmd -> Nat]
    /\ faults \in [Fault -> Nat]
    /\ disk \in State
    /\ lock \in Proc \cup {NoProc}
    /\ pc \in [Proc -> Place]
    /\ mem \in [Proc -> State]
    /\ todo \in [Proc -> SUBSET Cmd]
    /\ applied \in [Proc -> BOOLEAN]
    /\ shown \in SUBSET Cmd
    /\ writable \in SUBSET List
    /\ execs \in [Cmd -> Nat]
    /\ attested \in SUBSET Cmd

\* A state a process builds is never one that Save refuses or that the next
\* Load cannot read: the ledger stays bounded and without duplicates, and no
\* command is both acknowledged and in flight, whatever was lost in between.
StatesStayValid == Valid(disk) /\ \A p \in Proc : Valid(mem[p])

\* While a helper may be changing EventKit, its process holds the lock alone
\* and the state file names the command, not yet acknowledged, so that any
\* crash leaves the uncertainty on record.
JournalledBeforeEffect ==
    \A p \in Proc : pc[p] \in {"helper", "committed"} =>
        /\ lock = p
        /\ \A q \in Proc \ {p} : pc[q] \notin Locked
        /\ disk = mem[p]
        /\ disk.inFlight \in Cmd

\* A command takes effect in EventKit at most once, unless the operator
\* resolved it "retry" in between: no edit is silently applied twice.
AtMostOnce == \A c \in Cmd : execs[c] <= 1

\* The ledger, although bounded, never forgets a command that Home Assistant
\* may still send: one that took effect and was not retried, or was attested,
\* is in the ledger or in the journal as long as it is queued.
QueuedEffectsRemembered ==
    \A c \in queue :
        execs[c] > 0 \/ c \in attested => Has(disk, c) \/ disk.inFlight = c

\* Home Assistant gives up the optimistic state of an accepted command only
\* for a snapshot that shows its effect, or because an operator attested it:
\* no lost, late or reordered snapshot makes an edit disappear.
NoEditDisappears ==
    \A c \in AcceptedCommands \ (queue \cup attested) :
        epochOf[c] = haEpoch => c \in haView

\* A helper only ever runs for a command that was queued in the epoch the Mac
\* has accepted, on record in the state file.
EpochFence ==
    \A p \in Proc : pc[p] \in {"helper", "committed"} =>
        epochOf[mem[p].inFlight] = disk.epoch

\* A running bridge never goes over to another queue by itself: once it has an
\* epoch, from the file or from its first response, it keeps to that one until
\* it ends, whatever the responses and failed saves (client.go acceptQueueEpoch).
NoSilentAdoption ==
    [][\A p \in Proc :
          lock = p /\ lock' = p /\ mem[p].epoch # NoEpoch =>
              mem'[p].epoch = mem[p].epoch]_vars

\* Edits of one list take effect in the order Home Assistant accepted them.
ListOrder ==
    \A c, d \in AcceptedCommands :
        /\ ListOf[c] = ListOf[d]
        /\ epochOf[c] = epochOf[d]
        /\ rank[c] < rank[d]
        /\ d \in shown
        => c \in shown \cup attested

\* A journalled command leaves the state file only for the ledger, or by the
\* operator's "retry": nothing else forgets an uncertain outcome.
UncertainNeverForgotten ==
    [][disk.inFlight # NoCmd /\ disk'.inFlight # disk.inFlight =>
          \/ Has(disk', disk.inFlight)
          \/ RecoverRetry]_vars

\* A bridge that refuses to sync because of an uncertain command has it in its
\* state file, where doctor and recover look for it.
RefusalIsRecoverable ==
    \A p \in Proc : RefusesInFlight(p) => disk.inFlight = mem[p].inFlight

\* The queue implements the promise of DurableQueue.
Promise == INSTANCE DurableQueue WITH
    accepted  <- AcceptedCommands,
    pending   <- queue,
    uncertain <- disk.inFlight

ImplementsDurableQueue == Promise!Spec

(***************************************************************************)
(* Liveness.  The bridge is fair: launchd restarts it (KeepAlive) and the  *)
(* serve loop never stops retrying.  Home Assistant answers the requests   *)
(* that reach it.  The operator keeps to docs/command-lifecycle.md: stops  *)
(* a bridge that asks for a resolution, and repeats recover and            *)
(* reset-queue-epoch until one of them finds the lock free (a restarting   *)
(* bridge takes it again and again, hence strong fairness).  A read-only   *)
(* list becomes writable again.  Faults are finite by their bounds.        *)
(***************************************************************************)
Fairness ==
    /\ \A p \in Proc :
        /\ WF_vars(Step(p) /\ UNCHANGED haVars)
        /\ SF_vars(OperatorStops(p) /\ UNCHANGED haVars)
    /\ WF_vars(\E i \in DOMAIN requests :
                  (AcceptSnapshot(i) \/ RejectSnapshot(i)) /\ UNCHANGED macVars)
    /\ SF_vars((RecoverRetry \/ RecoverApplied) /\ UNCHANGED haVars)
    /\ SF_vars(OperatorAcceptsEpoch /\ UNCHANGED haVars)
    /\ \A l \in List : WF_vars(MakeWritable(l) /\ UNCHANGED haVars)

LiveSpec == Spec /\ Fairness

\* Every edit settles: whatever fails in between, an accepted command does not
\* stay in Home Assistant's queue for ever.
EveryEditSettles == \A c \in Cmd : c \in queue ~> c \notin queue

\* A command that the bridge refuses for good is rejected and does not stay
\* queued to be sent again (permanent_failure in docs/command-lifecycle.md).
PermanentFailureRejected ==
    \A c \in Invalid : c \in queue ~> c \notin queue
================================================================================
