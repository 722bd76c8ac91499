--------------------------- MODULE CommandSyncEffects ---------------------------
(***************************************************************************)
(* What commands do to EventKit: edits of one list take effect in the      *)
(* order Home Assistant accepted them, for any number of bridge processes; *)
(* and each at most once, none forgotten while it is queued, as            *)
(* DurableQueue promises, as long as no process syncs with a ledger that   *)
(* was out of date when it took the lock (a process alone never does).     *)
(***************************************************************************)
EXTENDS CommandSyncViews

(***************************************************************************)
(* What the single steps do.                                               *)
(***************************************************************************)

\* A step of a process changes EventKit only by its helper's commit.
LEMMA EffectStep ==
    ASSUME TypeOK, NEW p \in Proc, Step(p) \/ Crash(p) \/ OperatorStops(p)
    PROVE  \/ UNCHANGED <<shown, execs>>
           \/ pc[p] = "helper" /\ TakesEffect(mem[p].inFlight)
  <1> USE DEF eventKitVars
  <1>1. CASE LoadState(p) \/ AcquireLock(p) \/ PostSnapshot(p) \/ PostFails(p)
    BY <1>1 DEF LoadState, AcquireLock, PostSnapshot, PostFails
  <1>2. CASE RejectResponse(p) \/ ConfirmSync(p) \/ AcceptResponse(p) \/ AdoptEpoch(p)
    BY <1>2 DEF RejectResponse, ConfirmSync, AcceptResponse, AdoptEpoch
  <1>3. CASE SkipApplied(p) \/ JournalCommand(p) \/ HelperFails(p) \/ RecordApplied(p)
             \/ FinishWalk(p)
    BY <1>3 DEF SkipApplied, JournalCommand, HelperFails, RecordApplied, FinishWalk
  <1>4. CASE HelperCommits(p)
    BY <1>4 DEF HelperCommits
  <1>5. CASE Crash(p) \/ OperatorStops(p)
    BY <1>5 DEF Crash, OperatorStops, StopBridge
  <1> QED
    BY <1>1, <1>2, <1>3, <1>4, <1>5 DEF Step

\* Only a commit, heard of or not, changes EventKit.
LEMMA ChangesEffects ==
    ASSUME NEW p \in Proc, Step(p) \/ Crash(p) \/ OperatorStops(p),
           ~UNCHANGED <<shown, execs>>
    PROVE  HelperCommits(p) \/ Crash(p)
  BY DEF Step, LoadState, AcquireLock, PostSnapshot, PostFails, RejectResponse,
     AcceptResponse, AdoptEpoch, SkipApplied, JournalCommand, HelperFails, RecordApplied,
     FinishWalk, ConfirmSync, OperatorStops, StopBridge, eventKitVars

\* AdoptEpoch either walks on with the new epoch in memory and on disk, or ends
\* the round with the old one in memory.
LEMMA AdoptStep ==
    ASSUME TypeOK, NEW p \in Proc, AdoptEpoch(p)
    PROVE  LET s == [mem[p] EXCEPT !.epoch = reply[p].epoch] IN
           /\ s \in State /\ s.applied = mem[p].applied /\ s.inFlight = mem[p].inFlight
           /\ pc[p] = "await" /\ ResponseOK(p)
           /\ \/ /\ disk' = s
                 /\ mem' = [mem EXCEPT ![p] = s]
                 /\ pc' = [pc EXCEPT ![p] = "walk"]
                 /\ todo' = [todo EXCEPT ![p] = reply[p].commands]
              \/ /\ disk' \in {disk, s}
                 /\ mem' = mem
                 /\ pc' = [pc EXCEPT ![p] = "idle"]
                 /\ todo' = [todo EXCEPT ![p] = {}]
           /\ reply' = [reply EXCEPT ![p] = NoReply]
           /\ UNCHANGED <<lock, requests, shown, execs, attested, rank>>
  <1> DEFINE s == [mem[p] EXCEPT !.epoch = reply[p].epoch]
  <1>1. s \in State /\ s.applied = mem[p].applied /\ s.inFlight = mem[p].inFlight
    BY DEF TypeOK, State, Reply
  <1> HIDE DEF s
  <1>2. \/ /\ disk' = s
           /\ mem' = [mem EXCEPT ![p] = s]
           /\ Goto(p, "walk")
           /\ todo' = [todo EXCEPT ![p] = reply[p].commands]
        \/ disk' \in {disk, s} /\ mem' = mem /\ EndSync(p)
    BY DEF AdoptEpoch, Save, SaveFails, s
  <1>3. /\ pc[p] = "await" /\ ResponseOK(p)
        /\ reply' = [reply EXCEPT ![p] = NoReply]
        /\ UNCHANGED <<lock, requests, shown, execs, attested, rank>>
    BY DEF AdoptEpoch, Answered, Consume, eventKitVars
  <1> QED
    BY <1>1, <1>2, <1>3 DEF s, Goto, EndSync

\* JournalCommand takes the first command to walk and starts its helper once it
\* is on disk, or ends the round with it in flight in memory.
LEMMA JournalStep ==
    ASSUME TypeOK, NEW p \in Proc, JournalCommand(p)
    PROVE  \E c \in todo[p] : LET s == [mem[p] EXCEPT !.inFlight = c] IN
           /\ s \in State /\ s.applied = mem[p].applied /\ s.inFlight = c
           /\ pc[p] = "walk" /\ c \in Cmd
           /\ IsFirst(c, todo[p]) /\ ~Has(mem[p], c)
           /\ mem' = [mem EXCEPT ![p] = s]
           /\ \/ /\ disk' = s
                 /\ pc' = [pc EXCEPT ![p] = "helper"]
                 /\ todo' = [todo EXCEPT ![p] = @ \ {c}]
              \/ /\ disk' \in {disk, s}
                 /\ pc' = [pc EXCEPT ![p] = "idle"]
                 /\ todo' = [todo EXCEPT ![p] = {}]
           /\ UNCHANGED <<lock, requests, reply, shown, execs, attested, rank>>
  <1> PICK c \in todo[p] :
         LET s == [mem[p] EXCEPT !.inFlight = c] IN
         /\ IsFirst(c, todo[p])
         /\ ~Has(mem[p], c)
         /\ mem' = [mem EXCEPT ![p] = s]
         /\ \/ /\ disk' = s
               /\ Goto(p, "helper")
               /\ todo' = [todo EXCEPT ![p] = @ \ {c}]
            \/ disk' \in {disk, s} /\ EndSync(p)
    BY DEF JournalCommand, Save, SaveFails
  <1> DEFINE s == [mem[p] EXCEPT !.inFlight = c]
  <1>1. c \in Cmd /\ s \in State /\ s.applied = mem[p].applied /\ s.inFlight = c
    BY DEF TypeOK, State
  <1>2. pc[p] = "walk" /\ UNCHANGED <<lock, requests, reply, shown, execs, attested, rank>>
    BY DEF JournalCommand, eventKitVars, netVars
  <1> HIDE DEF s
  <1>3. /\ mem' = [mem EXCEPT ![p] = s]
        /\ \/ disk' = s /\ Goto(p, "helper") /\ todo' = [todo EXCEPT ![p] = @ \ {c}]
           \/ disk' \in {disk, s} /\ EndSync(p)
    BY DEF s
  <1> QED
    BY <1>1, <1>2, <1>3 DEF s, Goto, EndSync

\* RecordApplied moves the command from the journal to the ledger in memory, and
\* walks on once it is on disk or ends the round.
LEMMA RecordStep ==
    ASSUME TypeOK, HelperHasCommand, NEW p \in Proc, RecordApplied(p)
    PROVE  LET s == MarkApplied(mem[p], mem[p].inFlight) IN
           /\ s \in State /\ s.inFlight = NoCmd
           /\ pc[p] = "committed" /\ mem[p].inFlight \in Cmd
           /\ mem' = [mem EXCEPT ![p] = s]
           /\ \/ disk' = s /\ pc' = [pc EXCEPT ![p] = "walk"] /\ todo' = todo
              \/ /\ disk' \in {disk, s}
                 /\ pc' = [pc EXCEPT ![p] = "idle"]
                 /\ todo' = [todo EXCEPT ![p] = {}]
           /\ UNCHANGED <<lock, requests, reply, shown, execs, attested, rank>>
  <1> DEFINE s == MarkApplied(mem[p], mem[p].inFlight)
  <1>1. /\ pc[p] = "committed"
        /\ UNCHANGED <<lock, requests, reply, shown, execs, attested, rank>>
    BY DEF RecordApplied, eventKitVars, netVars
  <1>2. mem[p] \in State /\ mem[p].inFlight \in Cmd
    BY <1>1 DEF TypeOK, HelperHasCommand
  <1>3. s \in State /\ s.inFlight = NoCmd
    BY <1>2, MarkAppliedType DEF MarkApplied, State
  <1>4. /\ mem' = [mem EXCEPT ![p] = s]
        /\ \/ disk' = s /\ Goto(p, "walk") /\ todo' = todo
           \/ disk' \in {disk, s} /\ EndSync(p)
    BY DEF RecordApplied, Save, SaveFails
  <1> HIDE DEF s
  <1> QED
    BY <1>1, <1>2, <1>3, <1>4 DEF s, Goto, EndSync

\* What a process can come to have in flight, in memory or on disk: nothing new
\* but a command of the response it walks.
LEMMA InFlightStep ==
    ASSUME TypeOK, HelperHasCommand, NEW p \in Proc, Step(p) \/ Crash(p) \/ OperatorStops(p)
    PROVE  {disk'.inFlight, mem'[p].inFlight}
              \subseteq {disk.inFlight, mem[p].inFlight, NoCmd} \cup todo[p]
  <1> USE DEF TypeOK
  <1>1. CASE Quiet(p)
    BY <1>1 DEF Quiet
  <1>2. CASE AdoptEpoch(p)
    <2> DEFINE s == [mem[p] EXCEPT !.epoch = reply[p].epoch]
    <2>1. s.inFlight = mem[p].inFlight /\ disk' \in {disk, s} /\ mem'[p] \in {mem[p], s}
      BY <1>2, AdoptStep
    <2> QED
      BY <2>1
  <1>3. CASE JournalCommand(p)
    <2> PICK c \in todo[p] :
          LET s == [mem[p] EXCEPT !.inFlight = c] IN
          s.inFlight = c /\ disk' \in {disk, s} /\ mem' = [mem EXCEPT ![p] = s]
      BY <1>3, JournalStep
    <2> QED
      OBVIOUS
  <1>4. CASE RecordApplied(p)
    BY <1>4, RecordStep
  <1>5. CASE LoadState(p)
    BY <1>5 DEF LoadState
  <1>6. CASE AcquireLock(p)
    BY <1>6 DEF AcquireLock, EmptyState
  <1>7. CASE Crash(p) \/ OperatorStops(p)
    <2>1. Dies(p)
      BY <1>7 DEF Crash, OperatorStops, StopBridge
    <2> QED
      BY <2>1 DEF Dies, EmptyState
  <1> QED
    BY <1>1, <1>2, <1>3, <1>4, <1>5, <1>6, <1>7, QuietSteps DEF Step

(***************************************************************************)
(* Whatever takes effect, or is in flight, was accepted.                   *)
(***************************************************************************)

Known ==
    /\ shown \cup attested \subseteq AcceptedCommands
    /\ \A c \in Cmd : execs[c] > 0 => c \in shown
    /\ disk.inFlight \in AcceptedCommands \cup {NoCmd}
    /\ \A p \in Proc : mem[p].inFlight \in AcceptedCommands \cup {NoCmd}

\* Nothing has happened when the system starts.
LEMMA KnownInit == Init => Known
  BY DEF Init, MacInit, Known, EmptyState

\* A bridge executes what it walks, and walks what Home Assistant sent.
LEMMA KnownProcess ==
    ASSUME Types, Fence, Known, NEW p \in Proc, Step(p) \/ Crash(p) \/ OperatorStops(p),
           UNCHANGED rank
    PROVE  Known'
  <1>1. TypeOK /\ HelperHasCommand /\ AcceptedCommands' = AcceptedCommands
    BY DEF Types, AcceptedCommands, IsAccepted
  <1>2. /\ todo[p] \subseteq AcceptedCommands
        /\ pc[p] = "helper" => mem[p].inFlight \in AcceptedCommands
    BY <1>1 DEF TypeOK, Fence, WalkFenced, Fenced, AcceptedCommands, IsAccepted, HelperHasCommand
  <1>3. attested' = attested
    BY <1>1, ShownStep
  <1>4. /\ shown' \subseteq AcceptedCommands
        /\ \A c \in Cmd : execs'[c] > 0 => c \in shown'
    BY <1>1, <1>2, EffectStep DEF Known, TakesEffect, TypeOK
  <1>5. {disk'.inFlight, mem'[p].inFlight} \subseteq AcceptedCommands \cup {NoCmd}
    BY <1>1, <1>2, InFlightStep DEF Known
  <1>6. \A q \in Proc \ {p} : mem'[q] = mem[q]
    BY <1>1, ProcessFrame
  <1> QED
    BY <1>1, <1>3, <1>4, <1>5, <1>6 DEF Known

\* The operator resolves what is in flight.
LEMMA KnownOperator ==
    ASSUME Types, Known,
           \/ RecoverRetry \/ RecoverApplied \/ OperatorAcceptsEpoch
           \/ \E l \in List : MakeReadOnly(l) \/ MakeWritable(l),
           UNCHANGED rank
    PROVE  Known'
  <1> USE DEF Types, TypeOK, Known, eventKitVars
  <1>1. AcceptedCommands' = AcceptedCommands
    BY DEF AcceptedCommands, IsAccepted
  <1>2. CASE RecoverRetry
    BY <1>1, <1>2 DEF RecoverRetry, Save, State
  <1>3. CASE RecoverApplied
    BY <1>1, <1>3 DEF RecoverApplied, Save, MarkApplied, State
  <1>4. CASE OperatorAcceptsEpoch
    BY <1>1, <1>4 DEF OperatorAcceptsEpoch, ResetQueueEpoch, Save, State
  <1>5. CASE \E l \in List : MakeReadOnly(l) \/ MakeWritable(l)
    BY <1>1, <1>5 DEF MakeReadOnly, MakeWritable
  <1> QED
    BY <1>2, <1>3, <1>4, <1>5

\* Commands stay accepted.
LEMMA AcceptedGrows ==
    ASSUME Types, HANext \/ NetNext \/ UNCHANGED vars
    PROVE  AcceptedCommands \subseteq AcceptedCommands'
  <1> USE DEF Types, TypeOK, AcceptedCommands, IsAccepted
  <1>1. ASSUME NEW c \in Cmd, QueueCommand(c) PROVE AcceptedCommands \subseteq AcceptedCommands'
    <2>1. rank[c] = 0 /\ \A d \in Cmd \ {c} : rank'[d] = rank[d]
      BY <1>1 DEF QueueCommand
    <2> QED
      BY <2>1
  <1>2. CASE ~\E c \in Cmd : QueueCommand(c)
    <2>1. rank' = rank
      BY <1>2 DEF HANext, NetNext, AcceptSnapshot, RejectSnapshot, NewStorage, LoseRequest, vars
    <2> QED
      BY <2>1
  <1> QED
    BY <1>1, <1>2

\* Every step preserves the invariant.
LEMMA KnownNext == Types /\ Fence /\ Known /\ [Next]_vars => Known'
  <1> SUFFICES ASSUME Types, Fence, Known, [Next]_vars PROVE Known'
    OBVIOUS
  <1>1. CASE MacNext
    <2>1. UNCHANGED rank
      BY <1>1, MacFrame DEF Types
    <2> QED
      BY <1>1, <2>1, KnownProcess, KnownOperator DEF MacNext
  <1>2. CASE HANext \/ NetNext \/ UNCHANGED vars
    <2>1. UNCHANGED macVars
      BY <1>2 DEF HANext, NetNext, vars, macVars
    <2> QED
      BY <1>2, <2>1, AcceptedGrows DEF Known, macVars
  <1> QED
    BY <1>1, <1>2 DEF Next

\* In every reachable state what took effect, was attested or is in flight is a
\* command Home Assistant has accepted.
THEOREM KnownInvariant == Spec => []Known
  BY KnownInit, KnownNext, TypesInvariant, FenceInvariant, PTL DEF Spec

(***************************************************************************)
(* The order of effects.                                                   *)
(***************************************************************************)

\* What was accepted before d, for the same list and queue.
Earlier(d) ==
    {c \in AcceptedCommands :
        ListOf[c] = ListOf[d] /\ epochOf[c] = epochOf[d] /\ rank[c] < rank[d]}

Done == shown \cup attested

\* The command that the helper of p runs for.
Running(p) == IF pc[p] \in {"helper", "committed"} THEN {mem[p].inFlight} ELSE {}

ReplyOrdered(p) ==
    \A d \in reply[p].commands : Earlier(d) \subseteq Done \cup reply[p].commands

TodoOrdered(p) ==
    /\ \A d \in todo[p] : Earlier(d) \subseteq Done \cup todo[p] \cup Running(p)
    /\ \A d \in Running(p) : pc[p] = "helper" => Earlier(d) \subseteq Done

\* Ranks are given in sequence; what a process has still to do includes what
\* has to be done before it.
Ordered ==
    /\ \A c \in Cmd : rank[c] <= Cardinality(AcceptedCommands)
    /\ \A d \in shown : Earlier(d) \subseteq Done
    /\ \A p \in Proc : ReplyOrdered(p) /\ TodoOrdered(p)

\* No command is accepted when the system starts.
LEMMA OrderedInit == Init => Ordered
  <1> SUFFICES ASSUME Init PROVE Ordered
    OBVIOUS
  <1>1. AcceptedCommands = {} /\ \A c \in Cmd : rank[c] = 0
    BY DEF Init, AcceptedCommands, IsAccepted
  <1>2. Cardinality(AcceptedCommands) = 0
    BY <1>1, FS_EmptySet
  <1>3. \A d : Earlier(d) = {}
    BY <1>1 DEF Earlier
  <1> QED
    BY <1>1, <1>2, <1>3 DEF Ordered, ReplyOrdered, TodoOrdered

\* A response may be walked by the process that it was sent to.
LEMMA OrderedStep ==
    ASSUME Types, Fence, Views, Ordered,
           NEW p \in Proc, Step(p) \/ Crash(p) \/ OperatorStops(p),
           UNCHANGED <<epochOf, rank>>
    PROVE  ReplyOrdered(p)' /\ TodoOrdered(p)'
  <1>1. TypeOK /\ HelperHasCommand /\ ReplyOrdered(p) /\ TodoOrdered(p) /\ WalkFenced(p)
    BY DEF Types, Ordered, Fence
  <1>2. Done \subseteq Done' /\ \A d : Earlier(d)' = Earlier(d)
    BY <1>1, ShownStep DEF Done, Earlier, AcceptedCommands, IsAccepted
  <1>3. /\ pc \in [Proc -> Place] /\ mem \in [Proc -> State]
        /\ todo \in [Proc -> SUBSET Cmd] /\ reply \in [Proc -> Reply]
    BY <1>1 DEF TypeOK
  <1>4. ReplyOrdered(p)'
    <2>1. reply'[p] = reply[p] \/ reply'[p].commands = {}
      BY <1>1, <1>3, ProcessFrame DEF NoReply
    <2> QED
      BY <1>1, <1>2, <2>1 DEF ReplyOrdered
  <1> SUFFICES TodoOrdered(p)'
    BY <1>4
  <1>5. ASSUME todo'[p] = {}, pc'[p] # "helper" PROVE TodoOrdered(p)'
    BY <1>5 DEF TodoOrdered
  <1>6. ASSUME pc'[p] = "walk", todo'[p] = reply[p].commands PROVE TodoOrdered(p)'
    BY <1>1, <1>2, <1>6 DEF TodoOrdered, ReplyOrdered, Running
  <1>7. CASE EndSync(p)
    BY <1>3, <1>5, <1>7 DEF EndSync, Goto
  <1>8. CASE LoadState(p) \/ AcquireLock(p) \/ PostSnapshot(p)
    <2>1. pc[p] \notin {"walk", "helper", "committed"} /\ todo' = todo /\ pc'[p] # "helper"
      BY <1>3, <1>8 DEF LoadState, AcquireLock, PostSnapshot, Goto
    <2> QED
      BY <1>1, <1>5, <2>1 DEF WalkFenced
  <1>9. CASE Crash(p) \/ OperatorStops(p)
    <2>1. Dies(p)
      BY <1>9 DEF Crash, OperatorStops, StopBridge
    <2> QED
      BY <1>3, <1>5, <2>1 DEF Dies, Goto
  <1>10. CASE AcceptResponse(p)
    BY <1>3, <1>6, <1>10 DEF AcceptResponse, Goto
  <1>11. CASE AdoptEpoch(p)
    <2>1. \/ pc'[p] = "walk" /\ todo'[p] = reply[p].commands
          \/ pc'[p] = "idle" /\ todo'[p] = {}
      BY <1>1, <1>3, <1>11, AdoptStep
    <2> QED
      BY <1>5, <1>6, <2>1
  <1>12. CASE SkipApplied(p)
    <2> PICK c \in todo[p] : Has(mem[p], c) /\ todo' = [todo EXCEPT ![p] = @ \ {c}]
      BY <1>12 DEF SkipApplied
    <2>1. pc' = pc /\ mem' = mem /\ pc[p] = "walk"
      BY <1>12 DEF SkipApplied
    <2>2. c \in Done
      BY <1>3 DEF Views, LedgersShown, LedgerShown, Done
    <2>3. todo'[p] = todo[p] \ {c} /\ Running(p)' = Running(p)
      BY <1>3, <2>1 DEF Running
    <2> QED
      BY <1>1, <1>2, <2>1, <2>2, <2>3 DEF TodoOrdered
  <1>13. CASE JournalCommand(p)
    <2> PICK c \in todo[p] : LET s == [mem[p] EXCEPT !.inFlight = c] IN
          /\ pc[p] = "walk" /\ IsFirst(c, todo[p])
          /\ mem' = [mem EXCEPT ![p] = s] /\ s.inFlight = c
          /\ \/ /\ pc' = [pc EXCEPT ![p] = "helper"]
                /\ todo' = [todo EXCEPT ![p] = @ \ {c}]
             \/ /\ pc' = [pc EXCEPT ![p] = "idle"]
                /\ todo' = [todo EXCEPT ![p] = {}]
      BY <1>1, <1>13, JournalStep
    <2>3. mem'[p].inFlight = c
      BY <1>3
    <2>1. CASE pc' = [pc EXCEPT ![p] = "idle"] /\ todo' = [todo EXCEPT ![p] = {}]
      BY <1>3, <1>5, <2>1
    <2>2. CASE pc' = [pc EXCEPT ![p] = "helper"] /\ todo' = [todo EXCEPT ![p] = @ \ {c}]
      <3>1. Running(p) = {} /\ Running(p)' = {c} /\ todo'[p] = todo[p] \ {c}
        BY <1>3, <2>2, <2>3 DEF Running
      <3>2. \A d \in todo[p] : Earlier(d) \subseteq Done \cup todo[p]
        BY <1>1, <3>1 DEF TodoOrdered
      <3>3. Earlier(c) \cap todo[p] = {}
        <4>1. \A b \in todo[p] : rank[c] <= rank[b] /\ rank[b] \in Nat /\ rank[c] \in Nat
          BY <1>1 DEF IsFirst, TypeOK
        <4> QED
          BY <4>1 DEF Earlier
      <3>4. Earlier(c) \subseteq Done
        BY <3>2, <3>3
      <3> QED
        BY <1>2, <3>1, <3>2, <3>4 DEF TodoOrdered
    <2> QED
      BY <2>1, <2>2
  <1>14. CASE HelperCommits(p)
    <2>1. pc[p] = "helper" /\ pc'[p] = "committed" /\ todo' = todo /\ mem' = mem
      BY <1>3, <1>14 DEF HelperCommits, Goto
    <2>2. Running(p)' = Running(p)
      BY <2>1 DEF Running
    <2> QED
      BY <1>1, <1>2, <2>1, <2>2 DEF TodoOrdered
  <1>15. CASE RecordApplied(p)
    <2>1. /\ pc[p] = "committed"
          /\ \/ pc'[p] = "walk" /\ todo' = todo
             \/ pc'[p] = "idle" /\ todo'[p] = {}
      BY <1>1, <1>3, <1>15, RecordStep
    <2>2. CASE pc'[p] = "walk" /\ todo' = todo
      <3>1. Running(p) \subseteq Done /\ Running(p)' = {}
        BY <2>1, <2>2 DEF Views, LedgersShown, Running, Done
      <3> QED
        BY <1>1, <1>2, <2>2, <3>1 DEF TodoOrdered
    <2> QED
      BY <1>5, <2>1, <2>2
  <1>16. CASE FinishWalk(p)
    <2>1. /\ todo[p] = {}
          /\ \/ Goto(p, "await2") /\ todo' = todo
             \/ EndSync(p)
      BY <1>16, Zenon DEF FinishWalk
    <2> QED
      BY <1>3, <1>5, <1>7, <2>1 DEF Goto
  <1> QED
    BY <1>7, <1>8, <1>9, <1>10, <1>11, <1>12, <1>13, <1>14, <1>15, <1>16
    DEF Step, PostFails, RejectResponse, HelperFails, ConfirmSync

\* The rest of the invariant depends on nothing that a step of the Mac changes
\* but by adding to what is done.
LEMMA OrderedMac ==
    ASSUME Types, Journal, Fence, Views, Ordered, MacNext
    PROVE  Ordered'
  <1>1. TypeOK /\ HelperHasCommand
    BY DEF Types
  <1>2. UNCHANGED <<epochOf, rank>>
    BY <1>1, MacFrame
  <1>3. AcceptedCommands' = AcceptedCommands /\ \A d : Earlier(d)' = Earlier(d)
    BY <1>2 DEF Earlier, AcceptedCommands, IsAccepted
  <1>4. \A c \in Cmd : rank'[c] <= Cardinality(AcceptedCommands')
    BY <1>2, <1>3 DEF Ordered
  <1>5. ASSUME NEW p \in Proc, Step(p) \/ Crash(p) \/ OperatorStops(p)
        PROVE  Ordered'
    <2>1. Done \subseteq Done'
      BY <1>1, <1>5, ShownStep DEF Done
    <2>2. \A d \in shown' : Earlier(d) \subseteq Done'
      <3>1. ASSUME NEW d \in shown' \ shown PROVE Earlier(d) \subseteq Done
        <4>1. pc[p] = "helper" /\ d = mem[p].inFlight
          BY <1>1, <1>5, <3>1, EffectStep DEF TakesEffect
        <4> QED
          BY <4>1 DEF Ordered, TodoOrdered, Running
      <3> QED
        BY <2>1, <3>1 DEF Ordered
    <2>3. ReplyOrdered(p)' /\ TodoOrdered(p)'
      BY <1>2, <1>5, OrderedStep
    <2>4. ASSUME NEW q \in Proc \ {p} PROVE ReplyOrdered(q)' /\ TodoOrdered(q)'
      <3>1. /\ pc'[q] = pc[q] /\ mem'[q] = mem[q] /\ todo'[q] = todo[q]
            /\ reply'[q] = reply[q]
        BY <1>1, <1>5, ProcessFrame DEF TypeOK
      <3>2. Running(q)' = Running(q)
        BY <3>1 DEF Running
      <3> QED
        BY <1>3, <2>1, <3>1, <3>2 DEF Ordered, ReplyOrdered, TodoOrdered
    <2> QED
      BY <1>3, <1>4, <2>2, <2>3, <2>4 DEF Ordered
  <1>6. ASSUME \/ RecoverRetry \/ RecoverApplied \/ OperatorAcceptsEpoch
               \/ \E l \in List : MakeReadOnly(l) \/ MakeWritable(l)
        PROVE  Ordered'
    <2>1. /\ UNCHANGED <<pc, mem, todo, reply, shown>>
          /\ attested \subseteq attested'
      BY <1>6 DEF RecoverRetry, RecoverApplied, OperatorAcceptsEpoch, ResetQueueEpoch,
             MakeReadOnly, MakeWritable, netVars, eventKitVars
    <2>2. Done \subseteq Done' /\ \A q \in Proc : Running(q)' = Running(q)
      BY <2>1 DEF Done, Running
    <2> QED
      BY <1>3, <1>4, <2>1, <2>2 DEF Ordered, ReplyOrdered, TodoOrdered
  <1> QED
    BY <1>5, <1>6 DEF MacNext

\* What Home Assistant offers a process includes all that must come first; a
\* command it accepts comes last.
LEMMA OrderedHA ==
    ASSUME Types, Fence, Views, Known, Ordered, HANext
    PROVE  Ordered'
  <1>1. TypeOK /\ HelperHasCommand /\ UNCHANGED macVars
    BY DEF Types, HANext
  <1>2. Done' = Done /\ UNCHANGED <<pc, mem, todo, shown>> /\ \A p \in Proc : Running(p)' = Running(p)
    BY <1>1 DEF Done, Running, macVars
  <1>3. ASSUME NEW c \in Cmd, QueueCommand(c) PROVE Ordered'
    <2> DEFINE n == Cardinality(AcceptedCommands)
    <2>1. n \in Nat
      BY FS_CardinalityType DEF Types
    <2>2. /\ rank[c] = 0 /\ rank'[c] = n + 1 /\ UNCHANGED reply
          /\ \A d \in Cmd \ {c} : rank'[d] = rank[d] /\ epochOf'[d] = epochOf[d]
      BY <1>1, <1>3 DEF QueueCommand, IsAccepted, TypeOK, netVars
    <2>3. AcceptedCommands' = AcceptedCommands \cup {c} /\ c \notin AcceptedCommands
      BY <1>1, <2>1, <2>2 DEF AcceptedCommands, IsAccepted, TypeOK
    <2>4. Cardinality(AcceptedCommands') = n + 1
      BY <2>3, FS_AddElement DEF Types
    <2>5. \A d \in Cmd : rank'[d] <= Cardinality(AcceptedCommands')
      <3>1. rank'[c] <= n + 1
        BY <2>1, <2>2
      <3>2. ASSUME NEW d \in Cmd \ {c} PROVE rank'[d] <= n + 1
        <4>1. rank'[d] = rank[d] /\ rank[d] <= n /\ rank[d] \in Nat
          BY <1>1, <2>2 DEF Ordered, TypeOK
        <4> HIDE DEF n
        <4> QED
          BY <2>1, <4>1
      <3> QED
        BY <2>4, <3>1, <3>2
    <2>6. ASSUME NEW d \in AcceptedCommands PROVE Earlier(d)' = Earlier(d)
      <3>1. d \in Cmd /\ d # c /\ rank'[d] = rank[d] /\ epochOf'[d] = epochOf[d]
        BY <2>2, <2>3 DEF AcceptedCommands
      <3>2. ~(rank'[c] < rank'[d])
        BY <1>1, <2>1, <2>2, <3>1 DEF Ordered, TypeOK
      <3>3. \A b \in AcceptedCommands : rank'[b] = rank[b] /\ epochOf'[b] = epochOf[b]
        BY <2>2, <2>3 DEF AcceptedCommands
      <3> QED
        BY <2>3, <3>1, <3>2, <3>3 DEF Earlier
    <2>7. ASSUME NEW p \in Proc
          PROVE  /\ reply[p].commands \cup todo[p] \subseteq AcceptedCommands
                 /\ pc[p] = "helper" => Running(p) \subseteq AcceptedCommands
      <3>1. reply[p].commands \subseteq Cmd /\ todo[p] \subseteq Cmd
        BY <1>1 DEF TypeOK, Reply
      <3>2. pc[p] = "helper" => Running(p) = {mem[p].inFlight} /\ mem[p].inFlight \in Cmd
        BY <1>1 DEF HelperHasCommand, Running
      <3> QED
        BY <3>1, <3>2 DEF Fence, RepliesFenced, WalkFenced, Fenced, AcceptedCommands, IsAccepted
    <2>8. \A p \in Proc : ReplyOrdered(p)' /\ TodoOrdered(p)'
      BY <1>2, <2>2, <2>6, <2>7 DEF Ordered, ReplyOrdered, TodoOrdered
    <2>9. \A d \in shown' : Earlier(d)' \subseteq Done'
      BY <1>2, <2>6 DEF Ordered, Known
    <2> QED
      BY <2>5, <2>8, <2>9 DEF Ordered
  <1>4. ASSUME UNCHANGED <<epochOf, rank>>,
               NEW q \in Proc, NEW r, reply' = reply \/ reply' = [reply EXCEPT ![q] = r],
               \A d \in r.commands : Earlier(d) \subseteq Done \cup r.commands
        PROVE  Ordered'
    <2>1. AcceptedCommands' = AcceptedCommands /\ \A d : Earlier(d)' = Earlier(d)
      BY <1>4 DEF Earlier, AcceptedCommands, IsAccepted
    <2>2. \A p \in Proc : reply'[p] \in {reply[p], r}
      BY <1>1, <1>4 DEF TypeOK
    <2>3. \A p \in Proc : ReplyOrdered(p)'
      BY <1>2, <1>4, <2>1, <2>2 DEF Ordered, ReplyOrdered
    <2> QED
      BY <1>2, <1>4, <2>1, <2>3 DEF Ordered, TodoOrdered
  <1>5. ASSUME NEW i \in DOMAIN requests, AcceptSnapshot(i) PROVE Ordered'
    <2> DEFINE r == requests[i]
               response == [kind |-> "ok", epoch |-> haEpoch, commands |-> Deliverable(r)]
    <2>1. r.from \in Proc
      <3>1. requests[i] \in Request
        BY <1>1, RequestsType DEF TypeOK
      <3> QED
        BY <3>1 DEF Request
    <2>7. i \in 1 .. Len(requests)
      BY <1>1 DEF TypeOK
    <2>2. reply' = reply \/ reply' = [reply EXCEPT ![r.from] = response]
      BY <1>5, Zenon DEF AcceptSnapshot, Answer
    <2>3. UNCHANGED <<epochOf, rank>>
      BY <1>5 DEF AcceptSnapshot
    <2>4. r.acked \subseteq Done /\ Settled \subseteq Done
      BY <2>7 DEF Views, RequestsShow, RequestShows, Done
    <2>5. ASSUME NEW d \in Deliverable(r), NEW b \in Earlier(d)
          PROVE  b \in Done \cup Deliverable(r)
      <3>1. d \in queue /\ ListOf[d] \in r.writable
        BY DEF Deliverable
      <3>2. b \in AcceptedCommands /\ ListOf[b] = ListOf[d] /\ epochOf[b] = haEpoch
        BY <3>1 DEF Earlier, Fence, QueueFenced, Fenced
      <3>3. CASE b \in queue
        BY <2>4, <3>1, <3>2, <3>3 DEF Deliverable
      <3>4. CASE b \notin queue
        BY <2>4, <3>2, <3>4 DEF Settled, Done
      <3> QED
        BY <3>3, <3>4
    <2>6. \A d \in response.commands : Earlier(d) \subseteq Done \cup response.commands
      BY <2>5
    <2> HIDE DEF response, r
    <2> QED
      BY <1>4, <2>1, <2>2, <2>3, <2>6
  <1>6. ASSUME NEW i \in DOMAIN requests, RejectSnapshot(i) PROVE Ordered'
    <2>1. requests[i].from \in Proc
      BY <1>1, RequestsType DEF Request, TypeOK
    <2>2. reply' = reply \/ reply' = [reply EXCEPT ![requests[i].from] = ErrorReply]
      BY <1>6, Zenon DEF RejectSnapshot, Answer
    <2>3. UNCHANGED <<epochOf, rank>>
      BY <1>6 DEF RejectSnapshot, haVars
    <2>4. ErrorReply.commands = {}
      BY DEF ErrorReply
    <2> QED
      BY <1>4, <2>1, <2>2, <2>3, <2>4
  <1>7. CASE NewStorage
    <2>1. UNCHANGED <<epochOf, reply, rank>>
      BY <1>7 DEF NewStorage
    <2>2. AcceptedCommands' = AcceptedCommands /\ \A d : Earlier(d)' = Earlier(d)
      BY <2>1 DEF Earlier, AcceptedCommands, IsAccepted
    <2> QED
      BY <1>2, <2>1, <2>2 DEF Ordered, ReplyOrdered, TodoOrdered
  <1> QED
    BY <1>3, <1>5, <1>6, <1>7 DEF HANext

\* Every step preserves the order.
LEMMA OrderedNext ==
    Types /\ Journal /\ Fence /\ Views /\ Known /\ Ordered /\ [Next]_vars => Ordered'
  <1> SUFFICES ASSUME Types, Journal, Fence, Views, Known, Ordered, [Next]_vars PROVE Ordered'
    OBVIOUS
  <1>1. CASE NetNext \/ UNCHANGED vars
    <2>1. UNCHANGED <<epochOf, reply, rank, pc, mem, todo, shown, attested>>
      BY <1>1 DEF NetNext, LoseRequest, haVars, macVars, vars
    <2>2. /\ AcceptedCommands' = AcceptedCommands /\ \A d : Earlier(d)' = Earlier(d)
          /\ Done' = Done /\ \A p \in Proc : Running(p)' = Running(p)
      BY <2>1 DEF Earlier, AcceptedCommands, IsAccepted, Done, Running
    <2> QED
      BY <2>1, <2>2 DEF Ordered, ReplyOrdered, TodoOrdered
  <1> QED
    BY <1>1, OrderedMac, OrderedHA DEF Next

\* In every reachable state what a process has to do includes what comes first.
THEOREM OrderedInvariant == Spec => []Ordered
  BY OrderedInit, OrderedNext, TypesInvariant, JournalInvariant, FenceInvariant,
     ViewsInvariant, KnownInvariant, PTL DEF Spec

\* Edits of one list take effect in the order Home Assistant accepted them,
\* whatever is lost, late, withheld or walked twice, and however many processes
\* the bridge has (runtime.py command list, client.go SyncOnce).
THEOREM EditsTakeEffectInOrder == Spec => []ListOrder
  <1>1. Known /\ Ordered => ListOrder
    BY DEF Known, Ordered, Earlier, Done, ListOrder
  <1> QED
    BY <1>1, KnownInvariant, OrderedInvariant, PTL

(***************************************************************************)
(* Room in the ledger.  Home Assistant sends a process no more commands    *)
(* than the ledger has places, and none of the commands still queued is in *)
(* the ledger when it does: so the entries that MarkApplied evicts before  *)
(* the next response are of commands that are no longer queued.            *)
(***************************************************************************)

\* n more commands can be recorded in s before an entry of queue q is evicted:
\* only the newest m entries are of commands in q.
Room(s, n, q) ==
    \E m \in Nat :
        /\ m + n <= LedgerCap
        /\ \A i \in 1 .. Len(s.applied) : i + m <= Len(s.applied) => s.applied[i] \notin q

\* There is room for less, while the queue gains nothing that is in the ledger.
LEMMA RoomKept ==
    ASSUME NEW s \in State, NEW t \in State, t.applied = s.applied,
           NEW n \in Nat, NEW k \in Nat, k <= n,
           NEW q, NEW r, \A c \in r : Has(s, c) => c \in q,
           Room(s, n, q)
    PROVE  Room(t, k, r)
  <1> PICK m \in Nat :
        /\ m + n <= LedgerCap
        /\ \A i \in 1 .. Len(s.applied) : i + m <= Len(s.applied) => s.applied[i] \notin q
    BY DEF Room
  <1>1. s.applied \in Seq(Cmd) /\ DOMAIN s.applied = 1 .. Len(s.applied)
    BY DEF State
  <1>2. \A i \in 1 .. Len(s.applied) : s.applied[i] \in r => s.applied[i] \in q
    BY <1>1 DEF Has, Range
  <1>3. m + k <= LedgerCap
    BY LedgerCapAssumption
  <1> QED
    BY <1>2, <1>3 DEF Room

\* A ledger without queued commands has room for a queue.
LEMMA RoomForQueue ==
    ASSUME NEW s \in State, NEW n \in Nat, n <= LedgerCap, NEW q, \A c \in q : ~Has(s, c)
    PROVE  Room(s, n, q)
  <1>1. s.applied \in Seq(Cmd) /\ DOMAIN s.applied = 1 .. Len(s.applied)
    BY DEF State
  <1>2. \A i \in 1 .. Len(s.applied) : s.applied[i] \notin q
    BY <1>1 DEF Has, Range
  <1>3. 0 \in Nat /\ 0 + n <= LedgerCap
    OBVIOUS
  <1> QED
    BY <1>2, <1>3 DEF Room

\* MarkApplied takes one place and evicts no queued command.
LEMMA MarkAppliedRoom ==
    ASSUME NEW s \in State, Valid(s), NEW c \in Cmd, ~Has(s, c),
           NEW n \in Nat, NEW q, Room(s, n + 1, q)
    PROVE  LET t == MarkApplied(s, c) IN
           /\ Room(t, n, q)
           /\ Has(t, c)
           /\ \A d \in q : Has(s, d) => Has(t, d)
  <1> DEFINE t == MarkApplied(s, c)
             old == s.applied
             l == Append(old, c)
  <1> PICK m \in Nat :
        /\ m + (n + 1) <= LedgerCap
        /\ \A i \in 1 .. Len(old) : i + m <= Len(old) => old[i] \notin q
    BY DEF Room
  <1>1. old \in Seq(Cmd) /\ Len(old) \in Nat /\ DOMAIN old = 1 .. Len(old) /\ Len(old) <= LedgerCap
    BY DEF State, Valid
  <1>2. t.applied = Newest(l)
    BY DEF MarkApplied, State
  <1>3. /\ l \in Seq(Cmd) /\ Len(l) = Len(old) + 1
        /\ \A i \in 1 .. Len(old) : l[i] = old[i]
        /\ l[Len(old) + 1] = c
    BY <1>1
  <1> HIDE DEF t, l, old
  <1>4. m + 1 \in Nat /\ (m + 1) + n <= LedgerCap
    BY LedgerCapAssumption
  <1>5. CASE Len(old) < LedgerCap
    <2>1. t.applied = l
      BY <1>1, <1>2, <1>3, <1>5, LedgerCapAssumption DEF Newest
    <2>2. DOMAIN t.applied = 1 .. Len(old) + 1 /\ Len(t.applied) = Len(old) + 1
      BY <1>3, <2>1
    <2>3. \A i \in 1 .. Len(old) + 1 : i + (m + 1) <= Len(old) + 1 => t.applied[i] \notin q
      BY <1>1, <1>3, <2>1
    <2>4. Room(t, n, q)
      BY <1>4, <2>2, <2>3 DEF Room
    <2>5. Has(t, c)
      BY <1>1, <1>3, <2>1, <2>2 DEF Has, Range
    <2>6. \A d : Has(s, d) => Has(t, d)
      BY <1>1, <1>3, <2>1, <2>2 DEF Has, Range, old
    <2> QED
      BY <2>4, <2>5, <2>6 DEF t
  <1>6. CASE Len(old) = LedgerCap
    <2>1. /\ 1 + m <= Len(old) /\ 1 \in 1 .. Len(old)
          /\ LedgerCap \in Nat
      BY <1>1, <1>6, LedgerCapAssumption
    <2>2. old[1] \notin q
      BY <2>1
    <2>3. /\ DOMAIN t.applied = 1 .. Len(old) /\ Len(t.applied) = Len(old)
          /\ \A i \in 1 .. Len(old) : t.applied[i] = l[i + 1]
      <3>1. t.applied = SubSeq(l, 2, Len(l))
        <4>1. Len(l) > LedgerCap /\ Len(l) - LedgerCap + 1 = 2
          BY <1>3, <1>6, LedgerCapAssumption
        <4> QED
          BY <1>2, <4>1 DEF Newest
      <3>2. \A i \in 2 .. Len(l) : l[i] \in Cmd
        BY <1>1, <1>3
      <3>3. /\ SubSeq(l, 2, Len(l)) \in Seq(Cmd)
            /\ Len(SubSeq(l, 2, Len(l))) = IF 2 <= Len(l) THEN Len(l) - 2 + 1 ELSE 0
            /\ \A i \in 1 .. Len(l) - 2 + 1 : SubSeq(l, 2, Len(l))[i] = l[2 + i - 1]
        BY <1>1, <1>3, <3>2, SubSeqProperties
      <3>4. /\ Len(l) - 2 + 1 = Len(old) /\ 2 <= Len(l)
            /\ \A i \in 1 .. Len(old) : 2 + i - 1 = i + 1
        BY <1>1, <1>3, <2>1
      <3> QED
        BY <3>1, <3>3, <3>4
    <2>4. ASSUME NEW i \in 1 .. Len(old), i + (m + 1) <= Len(old)
          PROVE  t.applied[i] \notin q
      <3>1. i + 1 \in 1 .. Len(old) /\ (i + 1) + m <= Len(old)
        BY <1>1, <2>4
      <3>2. old[i + 1] \notin q
        BY <3>1
      <3> QED
        BY <1>3, <2>3, <3>1, <3>2
    <2>5. Room(t, n, q)
      BY <1>4, <2>3, <2>4 DEF Room
    <2>6. Has(t, c)
      <3>1. Len(old) \in 1 .. Len(old)
        BY <1>1, <2>1
      <3> QED
        BY <1>3, <2>3, <3>1 DEF Has, Range
    <2>7. ASSUME NEW d \in q, Has(s, d) PROVE Has(t, d)
      <3> PICK i \in 1 .. Len(old) : d = old[i]
        BY <1>1, <2>7 DEF Has, Range, old
      <3>1. i # 1
        BY <2>2
      <3>2. i - 1 \in 1 .. Len(old) /\ (i - 1) + 1 = i
        BY <1>1, <3>1
      <3>3. t.applied[i - 1] = d
        BY <1>3, <2>3, <3>2
      <3> QED
        BY <2>3, <3>2, <3>3 DEF Has, Range
    <2> QED
      BY <2>5, <2>6, <2>7 DEF t
  <1>7. Len(old) < LedgerCap \/ Len(old) = LedgerCap
    <2>1. \A a, b \in Nat : a <= b => a < b \/ a = b
      OBVIOUS
    <2>2. Len(old) \in Nat /\ LedgerCap \in Nat /\ Len(old) <= LedgerCap
      BY <1>1, LedgerCapAssumption
    <2> QED
      BY <2>1, <2>2, Zenon
  <1> QED
    BY <1>5, <1>6, <1>7, Zenon

(***************************************************************************)
(* Who waits for what.  A process waits for at most one answer, and only   *)
(* while SyncOnce does; an answer that a process can still read answers    *)
(* the ledger that the process has in memory.                              *)
(***************************************************************************)

AwaitedBy(p) == {j \in 1 .. Len(requests) : requests[j].from = p /\ requests[j].awaited}

Waiting(p) ==
    /\ pc[p] \notin {"await", "await2"} => AwaitedBy(p) = {} /\ reply[p] = NoReply
    /\ reply[p] # NoReply => AwaitedBy(p) = {}
    /\ \A i, j \in AwaitedBy(p) : i = j
    /\ \A j \in AwaitedBy(p) : requests[j].acked = Range(mem[p].applied)
    /\ pc[p] \in {"await", "walk", "await2"} => mem[p].inFlight = NoCmd

Answers == \A p \in Proc : Waiting(p)

\* Nobody waits when the system starts.
LEMMA AnswersInit == Init => Answers
  <1> SUFFICES ASSUME Init PROVE Answers
    OBVIOUS
  <1>1. Len(requests) = 0
    BY DEF Init
  <1>2. \A p : AwaitedBy(p) = {}
    BY <1>1 DEF AwaitedBy
  <1> QED
    BY <1>2 DEF Init, MacInit, Answers, Waiting

\* What a process waits for stays as it is when the requests are renumbered.
LEMMA WaitingKept ==
    ASSUME NEW q \in Proc, Waiting(q),
           pc'[q] = pc[q], mem'[q] = mem[q], reply'[q] = reply[q],
           NEW f,
           \A j \in AwaitedBy(q)' :
              f[j] \in AwaitedBy(q) /\ requests'[j].acked = requests[f[j]].acked,
           \A i, j \in AwaitedBy(q)' : f[i] = f[j] => i = j
    PROVE  Waiting(q)'
  <1>1. AwaitedBy(q) = {} => AwaitedBy(q)' = {}
    OBVIOUS
  <1>2. \A i, j \in AwaitedBy(q)' : i = j
    BY DEF Waiting
  <1>3. \A j \in AwaitedBy(q)' : requests'[j].acked = Range(mem'[q].applied)
    BY DEF Waiting
  <1> QED
    BY <1>1, <1>2, <1>3 DEF Waiting

\* What a step of process p does to the requests that are awaited.
LEMMA AwaitedStep ==
    ASSUME TypeOK, NEW p \in Proc,
           \/ requests' = requests
           \/ requests' = Abandoned(p)
           \/ requests' = Append(requests, SnapshotOf(p))
    PROVE  /\ \A q \in Proc \ {p} :
                /\ AwaitedBy(q)' = AwaitedBy(q)
                /\ \A j \in AwaitedBy(q) : requests'[j].acked = requests[j].acked
           /\ requests' = requests => AwaitedBy(p)' = AwaitedBy(p)
           /\ requests' = Abandoned(p) => AwaitedBy(p)' = {}
           /\ requests' = Append(requests, SnapshotOf(p)) =>
                /\ AwaitedBy(p)' = AwaitedBy(p) \cup {Len(requests) + 1}
                /\ \A j \in AwaitedBy(p) : requests'[j].acked = requests[j].acked
                /\ requests'[Len(requests) + 1].acked = Range(mem[p].applied)
  <1>1. /\ Len(requests) \in Nat
        /\ \A j \in 1 .. Len(requests) : requests[j] \in Request
    BY DEF TypeOK
  <1>2. CASE requests' = requests
    <2>1. \A q \in Proc : AwaitedBy(q)' = AwaitedBy(q)
      BY <1>2 DEF AwaitedBy
    <2>2. requests' # Append(requests, SnapshotOf(p))
      <3>1. Len(Append(requests, SnapshotOf(p))) = Len(requests) + 1
        BY DEF TypeOK
      <3> QED
        BY <1>1, <1>2, <3>1
    <2>3. requests' = Abandoned(p) => AwaitedBy(p)' = {}
      <3> SUFFICES ASSUME requests' = Abandoned(p), NEW j \in 1 .. Len(requests),
                          requests[j].from = p, requests[j].awaited
                   PROVE  FALSE
        BY <1>2 DEF AwaitedBy
      <3>1. requests'[j] = [requests[j] EXCEPT !.awaited = FALSE]
        BY DEF Abandoned
      <3>2. requests'[j].awaited = FALSE
        BY <1>1, <3>1 DEF Request
      <3> QED
        BY <1>2, <3>2
    <2> QED
      BY <1>2, <2>1, <2>2, <2>3
  <1>3. CASE requests' = Abandoned(p)
    <2>1. /\ Len(requests') = Len(requests)
          /\ \A j \in 1 .. Len(requests) :
                requests'[j] = IF requests[j].from = p THEN [requests[j] EXCEPT !.awaited = FALSE]
                                                       ELSE requests[j]
      BY <1>1, <1>3 DEF Abandoned
    <2>2. \A r \in Request : /\ [r EXCEPT !.awaited = FALSE].from = r.from
                             /\ [r EXCEPT !.awaited = FALSE].awaited = FALSE
      BY DEF Request
    <2>3. AwaitedBy(p)' = {}
      BY <1>1, <2>1, <2>2 DEF AwaitedBy
    <2>4. \A j \in 1 .. Len(requests) : requests'[j].from = requests[j].from
      BY <1>1, <2>1, <2>2
    <2>5. ASSUME NEW q \in Proc \ {p}
          PROVE  /\ AwaitedBy(q)' = AwaitedBy(q)
                 /\ \A j \in AwaitedBy(q) : requests'[j].acked = requests[j].acked
      BY <2>1, <2>4 DEF AwaitedBy
    <2>6. requests' # Append(requests, SnapshotOf(p))
      <3>1. Len(Append(requests, SnapshotOf(p))) = Len(requests) + 1
        BY DEF TypeOK
      <3> QED
        BY <1>1, <2>1, <3>1
    <2>7. requests' = requests => AwaitedBy(p)' = AwaitedBy(p)
      BY DEF AwaitedBy
    <2> QED
      BY <2>3, <2>5, <2>6, <2>7
  <1>4. CASE requests' = Append(requests, SnapshotOf(p))
    <2>1. /\ Len(requests') = Len(requests) + 1
          /\ \A j \in 1 .. Len(requests) : requests'[j] = requests[j]
          /\ requests'[Len(requests) + 1] = SnapshotOf(p)
      BY <1>1, <1>4 DEF TypeOK
    <2>2. /\ SnapshotOf(p).from = p /\ SnapshotOf(p).awaited
          /\ SnapshotOf(p).acked = Range(mem[p].applied)
      BY DEF SnapshotOf
    <2>3. \A j : j \in 1 .. Len(requests) + 1 <=> j \in 1 .. Len(requests) \/ j = Len(requests) + 1
      BY <1>1
    <2>4. AwaitedBy(p)' = AwaitedBy(p) \cup {Len(requests) + 1}
      BY <2>1, <2>2, <2>3 DEF AwaitedBy
    <2>5. \A q \in Proc \ {p} : AwaitedBy(q)' = AwaitedBy(q)
      BY <2>1, <2>2, <2>3 DEF AwaitedBy
    <2>6. \A q \in Proc : \A j \in AwaitedBy(q) : requests'[j].acked = requests[j].acked
      BY <2>1 DEF AwaitedBy
    <2>7. requests' # requests /\ requests' # Abandoned(p)
      <3>1. Len(Abandoned(p)) = Len(requests)
        BY <1>1 DEF Abandoned
      <3> QED
        BY <1>1, <2>1, <3>1
    <2> QED
      BY <2>1, <2>2, <2>4, <2>5, <2>6, <2>7
  <1> QED
    BY <1>2, <1>3, <1>4

\* What the delivery or the loss of the i-th request does to those awaited.
LEMMA AwaitedDelivered ==
    ASSUME TypeOK, NEW i \in DOMAIN requests, requests' \in {Without(i), Accepted(i)},
           NEW q \in Proc
    PROVE  /\ \A j \in AwaitedBy(q)' :
                /\ Was(i, j) \in AwaitedBy(q) \ {i}
                /\ requests'[j].acked = requests[Was(i, j)].acked
           /\ \A j, k \in AwaitedBy(q)' : Was(i, j) = Was(i, k) => j = k
  <1>1. /\ Len(requests) \in Nat \ {0} /\ i \in 1 .. Len(requests)
        /\ \A j \in 1 .. Len(requests) : requests[j] \in Request
    BY DEF TypeOK
  <1>2. /\ Len(requests') = Len(requests) - 1
        /\ \A j \in 1 .. Len(requests) - 1 :
              /\ Was(i, j) \in 1 .. Len(requests)
              /\ requests'[j].acked = requests[Was(i, j)].acked
    BY DeliveredShows
  <1>3. ASSUME NEW j \in 1 .. Len(requests) - 1
        PROVE  /\ requests'[j].from = requests[Was(i, j)].from
               /\ requests'[j].awaited = requests[Was(i, j)].awaited
    <2>1. requests'[j] \in {requests[Was(i, j)], [requests[Was(i, j)] EXCEPT !.stale = TRUE]}
      BY DEF Without, Accepted, Was
    <2>2. \A r \in Request : /\ [r EXCEPT !.stale = TRUE].from = r.from
                             /\ [r EXCEPT !.stale = TRUE].awaited = r.awaited
      BY DEF Request
    <2> QED
      BY <1>1, <1>2, <2>1, <2>2
  <1>4. \A j \in 1 .. Len(requests) - 1 : Was(i, j) # i
    BY <1>1 DEF Was
  <1>5. \A j, k \in 1 .. Len(requests) - 1 : Was(i, j) = Was(i, k) => j = k
    BY <1>1 DEF Was
  <1>6. \A j \in AwaitedBy(q)' : j \in 1 .. Len(requests) - 1
    BY <1>2 DEF AwaitedBy
  <1>7. \A j \in AwaitedBy(q)' : Was(i, j) \in AwaitedBy(q)
    BY <1>2, <1>3, <1>6 DEF AwaitedBy
  <1> QED
    BY <1>2, <1>4, <1>5, <1>6, <1>7

\* A process stops waiting when it has read an answer or given up, and posts
\* only when it does not wait.
LEMMA AnswersStep ==
    ASSUME TypeOK, HelperHasCommand, Answers,
           NEW p \in Proc, Step(p) \/ Crash(p) \/ OperatorStops(p)
    PROVE  Answers'
  <1>1. Waiting(p)
    BY DEF Answers
  <1>2. /\ pc \in [Proc -> Place] /\ mem \in [Proc -> State] /\ reply \in [Proc -> Reply]
        /\ requests \in Seq(Request)
    BY DEF TypeOK
  <1>3. \/ requests' = requests
        \/ requests' = Abandoned(p)
        \/ requests' = Append(requests, SnapshotOf(p))
    BY RequestsStep
  <1>4. ASSUME NEW q \in Proc \ {p} PROVE Waiting(q)'
    <2>1. pc'[q] = pc[q] /\ mem'[q] = mem[q] /\ reply'[q] = reply[q]
      BY <1>2, ProcessFrame
    <2>2. /\ AwaitedBy(q)' = AwaitedBy(q)
          /\ \A j \in AwaitedBy(q) : requests'[j].acked = requests[j].acked
      BY <1>3, AwaitedStep
    <2> QED
      BY <2>1, <2>2 DEF Answers, Waiting
  <1> SUFFICES Waiting(p)'
    BY <1>4 DEF Answers
  <1> USE DEF Goto
  \* The process is not waiting before or after the step.
  <1>5. ASSUME pc[p] \notin {"await", "await2"}, pc'[p] \notin {"await", "await2"},
               requests' = requests, reply' = reply,
               pc'[p] = "walk" => mem'[p].inFlight = NoCmd
        PROVE  Waiting(p)'
    BY <1>1, <1>5, AwaitedStep DEF Waiting
  \* It reads its answer.
  <1>6. ASSUME pc[p] \in {"await", "await2"}, reply[p].kind # "none",
               pc'[p] \in {"idle", "walk"}, mem'[p].inFlight = mem[p].inFlight, Consume(p)
        PROVE  Waiting(p)'
    <2>1. AwaitedBy(p) = {} /\ mem[p].inFlight = NoCmd
      BY <1>1, <1>6 DEF Waiting, NoReply
    <2>2. requests' = requests /\ reply'[p] = NoReply
      BY <1>2, <1>6 DEF Consume
    <2>3. AwaitedBy(p)' = {}
      BY <2>1, <2>2, AwaitedStep
    <2> QED
      BY <1>6, <2>1, <2>2, <2>3 DEF Waiting
  \* It posts.
  <1>7. ASSUME pc[p] \in {"idle", "walk"}, mem[p].inFlight = NoCmd, Post(p),
               pc'[p] \in {"await", "await2"}, mem' = mem
        PROVE  Waiting(p)'
    <2>1. AwaitedBy(p) = {} /\ reply[p] = NoReply
      BY <1>1, <1>7 DEF Waiting
    <2>2. requests' = Append(requests, SnapshotOf(p)) /\ reply' = reply
      BY <1>7 DEF Post
    <2>3. /\ AwaitedBy(p)' = {Len(requests) + 1}
          /\ requests'[Len(requests) + 1].acked = Range(mem[p].applied)
      BY <2>1, <2>2, AwaitedStep
    <2> QED
      BY <1>7, <2>1, <2>2, <2>3 DEF Waiting
  \* It gives up, or dies.
  <1>8. ASSUME requests' = Abandoned(p), reply'[p] = NoReply, pc'[p] \in {"idle", "down"}
        PROVE  Waiting(p)'
    <2>1. AwaitedBy(p)' = {}
      BY <1>8, AwaitedStep
    <2> QED
      BY <1>8, <2>1 DEF Waiting
  <1>9. CASE LoadState(p) \/ AcquireLock(p)
    <2>1. /\ pc[p] \in {"down", "loaded"} /\ pc'[p] \in {"loaded", "idle", "down"}
          /\ requests' = requests /\ reply' = reply
      BY <1>2, <1>9 DEF LoadState, AcquireLock, netVars
    <2> QED
      BY <1>5, <2>1
  <1>10. CASE PostSnapshot(p)
    BY <1>2, <1>7, <1>10 DEF PostSnapshot
  <1>11. CASE PostFails(p)
    <2>1. requests' = Abandoned(p) /\ reply'[p] = NoReply /\ pc'[p] = "idle"
      BY <1>2, <1>11 DEF PostFails, EndSync
    <2> QED
      BY <1>8, <2>1
  <1>12. CASE RejectResponse(p) \/ AcceptResponse(p) \/ ConfirmSync(p)
    <2>1. /\ pc[p] \in {"await", "await2"} /\ reply[p].kind # "none"
          /\ pc'[p] \in {"idle", "walk"} /\ mem' = mem /\ Consume(p)
      BY <1>2, <1>12 DEF RejectResponse, AcceptResponse, ConfirmSync, EndSync, Answered
    <2> QED
      BY <1>6, <2>1
  <1>13. CASE AdoptEpoch(p)
    <2>1. pc[p] = "await" /\ reply[p].kind # "none" /\ Consume(p)
      BY <1>13 DEF AdoptEpoch, Answered
    <2>2. pc'[p] \in {"idle", "walk"} /\ mem'[p].inFlight = mem[p].inFlight
      <3> DEFINE s == [mem[p] EXCEPT !.epoch = reply[p].epoch]
      <3>1. /\ s.inFlight = mem[p].inFlight
            /\ \/ mem' = [mem EXCEPT ![p] = s] /\ pc' = [pc EXCEPT ![p] = "walk"]
               \/ mem' = mem /\ pc' = [pc EXCEPT ![p] = "idle"]
        BY <1>13, AdoptStep
      <3> HIDE DEF s
      <3> QED
        BY <1>2, <3>1
    <2> QED
      BY <1>6, <2>1, <2>2
  <1>14. CASE SkipApplied(p)
    BY <1>1, <1>5, <1>14 DEF SkipApplied, netVars, Waiting
  <1>15. CASE JournalCommand(p)
    <2>1. /\ pc[p] = "walk" /\ requests' = requests /\ reply' = reply
          /\ pc'[p] \in {"idle", "helper"}
      BY <1>2, <1>15, JournalStep
    <2> QED
      BY <1>5, <2>1
  <1>16. CASE HelperCommits(p) \/ HelperFails(p)
    <2>1. /\ pc[p] \in {"helper", "committed"} /\ requests' = requests /\ reply' = reply
          /\ pc'[p] \in {"idle", "committed"}
      BY <1>2, <1>16 DEF HelperCommits, HelperFails, EndSync, netVars
    <2> QED
      BY <1>5, <2>1
  <1>17. CASE RecordApplied(p)
    <2> DEFINE s == MarkApplied(mem[p], mem[p].inFlight)
    <2>1. /\ pc[p] = "committed" /\ requests' = requests /\ reply' = reply
          /\ pc'[p] \in {"idle", "walk"}
          /\ s.inFlight = NoCmd /\ mem' = [mem EXCEPT ![p] = s]
      BY <1>2, <1>17, RecordStep
    <2> QED
      BY <1>2, <1>5, <2>1
  <1>18. CASE FinishWalk(p)
    <2>1. /\ pc[p] = "walk" /\ mem' = mem
          /\ \/ Post(p) /\ pc'[p] = "await2"
             \/ pc'[p] = "idle" /\ requests' = requests /\ reply' = reply
      <3>1. /\ pc[p] = "walk" /\ mem' = mem
            /\ \/ Post(p) /\ Goto(p, "await2")
               \/ Goto(p, "idle") /\ UNCHANGED netVars
        BY <1>18, Zenon DEF FinishWalk, EndSync
      <3> QED
        BY <1>2, <3>1 DEF netVars
    <2> QED
      BY <1>1, <1>5, <1>7, <2>1 DEF Waiting
  <1>19. CASE Crash(p) \/ OperatorStops(p)
    <2>1. Dies(p)
      BY <1>19 DEF Crash, OperatorStops, StopBridge
    <2> QED
      BY <1>2, <1>8, <2>1 DEF Dies
  <1> QED
    BY <1>9, <1>10, <1>11, <1>12, <1>13, <1>14, <1>15, <1>16, <1>17, <1>18, <1>19 DEF Step

\* The delivery or the loss of a request answers its sender, or nobody.
LEMMA AnswersDelivered ==
    ASSUME TypeOK, Answers, UNCHANGED <<pc, mem>>,
           NEW i \in DOMAIN requests, requests' \in {Without(i), Accepted(i)},
           NEW response,
           \/ reply' = reply
           \/ /\ requests[i].awaited
              /\ reply' = [reply EXCEPT ![requests[i].from] = response]
    PROVE  Answers'
  <1>1. /\ i \in 1 .. Len(requests) /\ Len(requests) \in Nat
        /\ \A j \in 1 .. Len(requests) : requests[j] \in Request
        /\ reply \in [Proc -> Reply]
    BY DEF TypeOK
  <1>2. requests[i].from \in Proc
    BY <1>1 DEF Request
  <1> SUFFICES ASSUME NEW q \in Proc PROVE Waiting(q)'
    BY DEF Answers
  <1>3. Waiting(q)
    BY DEF Answers
  <1>4. /\ \A j \in AwaitedBy(q)' :
             Was(i, j) \in AwaitedBy(q) \ {i} /\ requests'[j].acked = requests[Was(i, j)].acked
        /\ \A j, k \in AwaitedBy(q)' : Was(i, j) = Was(i, k) => j = k
    BY AwaitedDelivered
  <1>5. CASE reply'[q] = reply[q]
    <2> DEFINE f == [j \in AwaitedBy(q)' |-> Was(i, j)]
    <2>1. /\ \A j \in AwaitedBy(q)' :
                f[j] \in AwaitedBy(q) /\ requests'[j].acked = requests[f[j]].acked
          /\ \A j, k \in AwaitedBy(q)' : f[j] = f[k] => j = k
      BY <1>4
    <2> HIDE DEF f
    <2> QED
      BY <1>3, <1>5, <2>1, WaitingKept
  <1>6. CASE reply'[q] # reply[q]
    <2>1. requests[i].awaited /\ requests[i].from = q
      BY <1>1, <1>2, <1>6
    <2>2. i \in AwaitedBy(q)
      BY <1>1, <2>1 DEF AwaitedBy
    <2>3. AwaitedBy(q) = {i}
      BY <1>3, <2>2 DEF Waiting
    <2>4. AwaitedBy(q)' = {}
      BY <1>4, <2>3
    <2>5. pc[q] \in {"await", "await2"}
      BY <1>3, <2>2 DEF Waiting
    <2> QED
      BY <1>3, <2>4, <2>5 DEF Waiting
  <1> QED
    BY <1>5, <1>6

\* Every step preserves the invariant on waiting.
LEMMA AnswersNext == Types /\ Answers /\ [Next]_vars => Answers'
  <1> SUFFICES ASSUME Types, Answers, [Next]_vars PROVE Answers'
    OBVIOUS
  <1>1. TypeOK /\ HelperHasCommand
    BY DEF Types
  <1>2. ASSUME NEW p \in Proc, Step(p) \/ Crash(p) \/ OperatorStops(p) PROVE Answers'
    BY <1>1, <1>2, AnswersStep
  <1>3. CASE UNCHANGED <<pc, mem, requests, reply>>
    BY <1>3 DEF Answers, Waiting, AwaitedBy
  <1>4. ASSUME \/ RecoverRetry \/ RecoverApplied \/ OperatorAcceptsEpoch
               \/ \E l \in List : MakeReadOnly(l) \/ MakeWritable(l)
        PROVE  UNCHANGED <<pc, mem, requests, reply>>
    BY <1>4 DEF RecoverRetry, RecoverApplied, OperatorAcceptsEpoch, ResetQueueEpoch,
       MakeReadOnly, MakeWritable, netVars
  <1>5. ASSUME NEW c \in Cmd, QueueCommand(c), UNCHANGED macVars PROVE Answers'
    BY <1>3, <1>5 DEF QueueCommand, netVars, macVars
  <1>6. ASSUME NEW i \in DOMAIN requests, AcceptSnapshot(i), UNCHANGED macVars PROVE Answers'
    <2> DEFINE response == [kind |-> "ok", epoch |-> haEpoch,
                            commands |-> Deliverable(requests[i])]
    <2>1. /\ requests' = Accepted(i)
          /\ \/ reply' = reply
             \/ requests[i].awaited /\ reply' = [reply EXCEPT ![requests[i].from] = response]
      BY <1>6, Zenon DEF AcceptSnapshot, Answer
    <2>2. UNCHANGED <<pc, mem>>
      BY <1>6 DEF macVars
    <2> HIDE DEF response
    <2> QED
      BY <1>1, <2>1, <2>2, AnswersDelivered
  <1>7. ASSUME NEW i \in DOMAIN requests, RejectSnapshot(i), UNCHANGED macVars PROVE Answers'
    <2>1. /\ requests' = Without(i)
          /\ \/ reply' = reply
             \/ requests[i].awaited /\ reply' = [reply EXCEPT ![requests[i].from] = ErrorReply]
      BY <1>7, Zenon DEF RejectSnapshot, Answer
    <2>2. UNCHANGED <<pc, mem>>
      BY <1>7 DEF macVars
    <2> QED
      BY <1>1, <2>1, <2>2, AnswersDelivered
  <1>8. ASSUME NewStorage, UNCHANGED macVars PROVE Answers'
    <2>1. /\ UNCHANGED <<pc, mem, reply>>
          /\ requests' = [j \in 1 .. Len(requests) |-> [requests[j] EXCEPT !.stale = FALSE]]
      BY <1>8 DEF NewStorage, macVars
    <2>2. Len(requests) \in Nat /\ \A j \in 1 .. Len(requests) : requests[j] \in Request
      BY <1>1 DEF TypeOK
    <2>3. \A r \in Request : /\ [r EXCEPT !.stale = FALSE].from = r.from
                             /\ [r EXCEPT !.stale = FALSE].awaited = r.awaited
                             /\ [r EXCEPT !.stale = FALSE].acked = r.acked
      BY DEF Request
    <2>4. /\ Len(requests') = Len(requests)
          /\ \A j \in 1 .. Len(requests) : requests'[j] = [requests[j] EXCEPT !.stale = FALSE]
      BY <2>1, <2>2
    <2>5. \A j \in 1 .. Len(requests) :
             /\ requests'[j].from = requests[j].from
             /\ requests'[j].awaited = requests[j].awaited
             /\ requests'[j].acked = requests[j].acked
      BY <2>2, <2>3, <2>4
    <2>6. \A q \in Proc : AwaitedBy(q)' = AwaitedBy(q)
      BY <2>4, <2>5 DEF AwaitedBy
    <2> QED
      BY <2>1, <2>5, <2>6 DEF Answers, Waiting, AwaitedBy
  <1>9. ASSUME NEW i \in DOMAIN requests, LoseRequest(i), UNCHANGED macVars PROVE Answers'
    <2>1. requests' = Without(i) /\ reply' = reply /\ UNCHANGED <<pc, mem>>
      BY <1>9 DEF LoseRequest, macVars
    <2> QED
      BY <1>1, <2>1, AnswersDelivered
  <1>10. CASE UNCHANGED vars
    BY <1>3, <1>10 DEF vars
  <1>11. CASE MacNext
    BY <1>2, <1>3, <1>4, <1>11 DEF MacNext
  <1>12. CASE HANext
    BY <1>5, <1>6, <1>7, <1>8, <1>12 DEF HANext
  <1>13. CASE NetNext
    BY <1>9, <1>13 DEF NetNext
  <1> QED
    BY <1>10, <1>11, <1>12, <1>13 DEF Next

\* In every reachable state a process waits for at most one answer, to the
\* ledger it has in memory.
THEOREM AnswersInvariant == Spec => []Answers
  BY AnswersInit, AnswersNext, TypesInvariant, PTL DEF Spec

(***************************************************************************)
(* Counting.  A response brings no command that is in the ledger it        *)
(* answers, and no more than the ledger has places; the process walks them *)
(* one by one, and a place is left for each of those still to walk.        *)
(***************************************************************************)

QueueCounted == IsFiniteSet(queue) /\ Cardinality(queue) <= QueueCap

DiskCounted == disk.inFlight # NoCmd => Room(disk, 1, queue)

ReplyCounted(p) ==
    /\ reply[p].kind = "ok" => \A c \in queue : ~Has(mem[p], c)
    /\ \A c \in reply[p].commands : ~Has(mem[p], c)
    /\ IsFiniteSet(reply[p].commands)
    /\ Cardinality(reply[p].commands) <= QueueCap

WalkCounted(p) ==
    /\ IsFiniteSet(todo[p])
    /\ \A c \in todo[p] : ~Has(mem[p], c) /\ c \notin Running(p)
    /\ pc[p] \in {"walk", "helper", "committed"} =>
          Room(mem[p], Cardinality(todo[p] \cup Running(p)), queue)

Counted ==
    /\ QueueCounted
    /\ DiskCounted
    /\ \A p \in Proc : ReplyCounted(p) /\ WalkCounted(p)

\* Nothing is queued or walked when the system starts.
LEMMA CountedInit == Init => Counted
  <1> SUFFICES ASSUME Init PROVE Counted
    OBVIOUS
  <1>1. IsFiniteSet({}) /\ Cardinality({}) <= QueueCap
    <2>1. IsFiniteSet({}) /\ Cardinality({}) = 0
      BY FS_EmptySet
    <2> QED
      BY <2>1, QueueCapAssumption
  <1>2. QueueCounted
    BY <1>1 DEF Init, HAInit, QueueCounted
  <1>3. DiskCounted
    BY DEF Init, MacInit, DiskCounted, EmptyState
  <1>4. ASSUME NEW p \in Proc PROVE ReplyCounted(p) /\ WalkCounted(p)
    <2>1. reply[p].kind = "none" /\ reply[p].commands = {} /\ todo[p] = {} /\ pc[p] = "down"
      BY DEF Init, MacInit, NoReply
    <2> QED
      BY <1>1, <2>1 DEF ReplyCounted, WalkCounted
  <1> QED
    BY <1>2, <1>3, <1>4 DEF Counted

\* After its step a process has no answer left to read.
LEMMA ReplyTaken ==
    ASSUME TypeOK, Answers, NEW p \in Proc, Step(p) \/ Crash(p) \/ OperatorStops(p)
    PROVE  reply'[p] = NoReply
  <1>1. Waiting(p) /\ reply \in [Proc -> Reply]
    BY DEF Answers, TypeOK
  <1>2. pc[p] \notin {"await", "await2"} => reply'[p] = NoReply
    BY <1>1, ProcessFrame DEF Waiting
  <1>3. CASE LoadState(p) \/ AcquireLock(p) \/ PostSnapshot(p) \/ SkipApplied(p)
             \/ JournalCommand(p) \/ HelperCommits(p) \/ HelperFails(p) \/ RecordApplied(p)
             \/ FinishWalk(p)
    <2>1. pc[p] \notin {"await", "await2"}
      BY <1>3 DEF LoadState, AcquireLock, PostSnapshot, SkipApplied, JournalCommand,
         HelperCommits, HelperFails, RecordApplied, FinishWalk
    <2> QED
      BY <1>2, <2>1
  <1>4. CASE PostFails(p)
    BY <1>4 DEF PostFails
  <1>5. CASE RejectResponse(p) \/ AcceptResponse(p) \/ AdoptEpoch(p) \/ ConfirmSync(p)
    <2>1. Consume(p)
      BY <1>5 DEF RejectResponse, AcceptResponse, AdoptEpoch, ConfirmSync
    <2> QED
      BY <1>1, <2>1 DEF Consume
  <1>6. CASE Crash(p) \/ OperatorStops(p)
    <2>1. Dies(p)
      BY <1>6 DEF Crash, OperatorStops, StopBridge
    <2> QED
      BY <1>1, <2>1 DEF Dies
  <1> QED
    BY <1>3, <1>4, <1>5, <1>6 DEF Step

\* Recording a command leaves room for those still to walk and keeps what is
\* queued in the ledger.
LEMMA RecordRoom ==
    ASSUME TypeOK, HelperHasCommand, StatesStayValid,
           NEW p \in Proc, WalkCounted(p), pc[p] = "committed"
    PROVE  LET s == MarkApplied(mem[p], mem[p].inFlight) IN
           /\ Range(s.applied) \subseteq Range(mem[p].applied) \cup {mem[p].inFlight}
           /\ Room(s, Cardinality(todo[p]), queue)
           /\ Has(s, mem[p].inFlight)
           /\ \A d \in queue : Has(mem[p], d) => Has(s, d)
  <1> DEFINE c == mem[p].inFlight
             n == Cardinality(todo[p])
  <1>1. mem[p] \in State /\ Valid(mem[p]) /\ c \in Cmd /\ ~Has(mem[p], c)
    BY NoCmdAssumption DEF TypeOK, HelperHasCommand, StatesStayValid, Valid
  <1>2. Running(p) = {c}
    BY DEF Running
  <1>3. IsFiniteSet(todo[p]) /\ c \notin todo[p]
    BY <1>2 DEF WalkCounted
  <1>4. n \in Nat /\ Cardinality(todo[p] \cup {c}) = n + 1
    BY <1>3, FS_CardinalityType, FS_AddElement
  <1>5. Room(mem[p], n + 1, queue)
    BY <1>2, <1>4 DEF WalkCounted
  <1> HIDE DEF c, n
  <1>6. /\ Room(MarkApplied(mem[p], c), n, queue)
        /\ Has(MarkApplied(mem[p], c), c)
        /\ \A d \in queue : Has(mem[p], d) => Has(MarkApplied(mem[p], c), d)
    BY <1>1, <1>4, <1>5, MarkAppliedRoom
  <1>7. Range(MarkApplied(mem[p], c).applied) \subseteq Range(mem[p].applied) \cup {c}
    BY <1>1, MarkAppliedValid
  <1> QED
    BY <1>6, <1>7 DEF c, n

\* A process walks what it was sent, and takes a place in the ledger for one
\* command at a time.
LEMMA CountedStep ==
    ASSUME TypeOK, HelperHasCommand, StatesStayValid, Fence, Answers, Counted,
           NEW p \in Proc, Step(p) \/ Crash(p) \/ OperatorStops(p),
           UNCHANGED queue
    PROVE  WalkCounted(p)' /\ DiskCounted'
  <1>1. Waiting(p) /\ ReplyCounted(p) /\ WalkCounted(p) /\ DiskCounted /\ WalkFenced(p)
    BY DEF Answers, Counted, Fence
  <1>2. /\ pc \in [Proc -> Place] /\ mem \in [Proc -> State] /\ disk \in State
        /\ todo \in [Proc -> SUBSET Cmd] /\ reply \in [Proc -> Reply]
    BY DEF TypeOK
  <1>3. IsFiniteSet({})
    BY FS_EmptySet
  <1>4. ASSUME todo'[p] = {}, pc'[p] \notin {"walk", "helper", "committed"}
        PROVE  WalkCounted(p)'
    BY <1>3, <1>4 DEF WalkCounted
  <1>5. ASSUME disk' = disk PROVE DiskCounted'
    BY <1>1, <1>5 DEF DiskCounted
  \* The process starts to walk a response.
  <1>6. ASSUME pc'[p] = "walk", todo'[p] = reply[p].commands, reply[p].kind = "ok",
               mem'[p].applied = mem[p].applied, mem'[p] \in State
        PROVE  WalkCounted(p)'
    <2> DEFINE n == Cardinality(reply[p].commands)
    <2>1. n \in Nat /\ n <= LedgerCap
      <3>1. n \in Nat /\ n <= QueueCap
        BY <1>1, FS_CardinalityType DEF ReplyCounted
      <3> QED
        BY <3>1, LedgerCoversQueue, LedgerCapAssumption, QueueCapAssumption
    <2> HIDE DEF n
    <2>2. \A c \in queue : ~Has(mem'[p], c)
      BY <1>1, <1>6 DEF ReplyCounted, Has
    <2>3. Room(mem'[p], n, queue)
      BY <1>6, <2>1, <2>2, RoomForQueue
    <2>4. Running(p)' = {} /\ todo'[p] \cup Running(p)' = reply[p].commands
      BY <1>6 DEF Running
    <2>5. Room(mem'[p], Cardinality(todo'[p] \cup Running(p)'), queue')
      BY <2>3, <2>4 DEF n
    <2>6. IsFiniteSet(todo'[p]) /\ \A c \in todo'[p] : ~Has(mem'[p], c)
      BY <1>1, <1>6 DEF ReplyCounted, Has
    <2> QED
      BY <2>4, <2>5, <2>6 DEF WalkCounted
  <1>7. CASE EndSync(p) /\ disk' = disk
    BY <1>2, <1>4, <1>5, <1>7 DEF EndSync, Goto
  <1>8. CASE LoadState(p) \/ AcquireLock(p) \/ PostSnapshot(p)
    <2>1. /\ pc[p] \notin {"walk", "helper", "committed"} /\ todo' = todo /\ disk' = disk
          /\ pc'[p] \notin {"walk", "helper", "committed"}
      BY <1>2, <1>8 DEF LoadState, AcquireLock, PostSnapshot, Goto
    <2> QED
      BY <1>1, <1>4, <1>5, <2>1 DEF WalkFenced
  <1>9. CASE Crash(p) \/ OperatorStops(p)
    <2>1. Dies(p)
      BY <1>9 DEF Crash, OperatorStops, StopBridge
    <2> QED
      BY <1>2, <1>4, <1>5, <2>1 DEF Dies, Goto
  <1>10. CASE AcceptResponse(p)
    BY <1>2, <1>5, <1>6, <1>10 DEF AcceptResponse, ResponseOK, Goto
  <1>11. CASE AdoptEpoch(p)
    <2> DEFINE s == [mem[p] EXCEPT !.epoch = reply[p].epoch]
    <2>1. /\ s \in State /\ s.applied = mem[p].applied /\ s.inFlight = mem[p].inFlight
          /\ pc[p] = "await" /\ ResponseOK(p)
          /\ \/ /\ disk' = s
                /\ mem' = [mem EXCEPT ![p] = s]
                /\ pc' = [pc EXCEPT ![p] = "walk"]
                /\ todo' = [todo EXCEPT ![p] = reply[p].commands]
             \/ /\ disk' \in {disk, s}
                /\ pc' = [pc EXCEPT ![p] = "idle"]
                /\ todo' = [todo EXCEPT ![p] = {}]
      BY <1>11, AdoptStep
    <2> HIDE DEF s
    <2>2. s.inFlight = NoCmd
      BY <1>1, <2>1 DEF Waiting
    <2>3. DiskCounted'
      BY <1>5, <2>1, <2>2 DEF DiskCounted
    <2>4. CASE mem' = [mem EXCEPT ![p] = s] /\ pc' = [pc EXCEPT ![p] = "walk"]
               /\ todo' = [todo EXCEPT ![p] = reply[p].commands]
      <3>1. mem'[p] = s /\ pc'[p] = "walk" /\ todo'[p] = reply[p].commands
        BY <1>2, <2>4
      <3> QED
        BY <1>6, <2>1, <2>3, <3>1 DEF ResponseOK
    <2>5. CASE pc' = [pc EXCEPT ![p] = "idle"] /\ todo' = [todo EXCEPT ![p] = {}]
      BY <1>2, <1>4, <2>3, <2>5
    <2> QED
      BY <2>1, <2>4, <2>5
  <1>12. CASE SkipApplied(p)
    BY <1>1, <1>12 DEF SkipApplied, WalkCounted
  <1>13. CASE JournalCommand(p)
    <2> PICK c \in todo[p] : LET s == [mem[p] EXCEPT !.inFlight = c] IN
          /\ s \in State /\ s.applied = mem[p].applied /\ s.inFlight = c
          /\ pc[p] = "walk" /\ c \in Cmd
          /\ mem' = [mem EXCEPT ![p] = s]
          /\ \/ /\ disk' = s
                /\ pc' = [pc EXCEPT ![p] = "helper"]
                /\ todo' = [todo EXCEPT ![p] = @ \ {c}]
             \/ /\ disk' \in {disk, s}
                /\ pc' = [pc EXCEPT ![p] = "idle"]
                /\ todo' = [todo EXCEPT ![p] = {}]
      BY <1>13, JournalStep
    <2> DEFINE s == [mem[p] EXCEPT !.inFlight = c]
               n == Cardinality(todo[p])
    <2>1. /\ s \in State /\ s.applied = mem[p].applied /\ s.inFlight = c
          /\ mem' = [mem EXCEPT ![p] = s] /\ disk' \in {disk, s}
          /\ pc[p] = "walk" /\ c \in Cmd
      OBVIOUS
    <2>2. \/ /\ pc' = [pc EXCEPT ![p] = "helper"]
             /\ todo' = [todo EXCEPT ![p] = @ \ {c}]
          \/ /\ pc' = [pc EXCEPT ![p] = "idle"]
             /\ todo' = [todo EXCEPT ![p] = {}]
      OBVIOUS
    <2> HIDE DEF s
    <2>3. n \in Nat /\ 1 <= n
      <3>1. IsFiniteSet(todo[p]) /\ todo[p] # {}
        BY <1>1 DEF WalkCounted
      <3>2. n \in Nat /\ n # 0
        BY <3>1, FS_CardinalityType, FS_EmptySet
      <3> QED
        BY <3>2
    <2>4. Room(mem[p], n, queue)
      <3>1. todo[p] \cup Running(p) = todo[p]
        BY <2>1 DEF Running
      <3> QED
        BY <1>1, <2>1, <3>1 DEF WalkCounted
    <2> HIDE DEF n
    <2>5. Room(s, n, queue) /\ Room(s, 1, queue)
      BY <1>2, <2>1, <2>3, <2>4, RoomKept
    <2>6. DiskCounted'
      BY <1>5, <2>1, <2>5 DEF DiskCounted
    <2>7. mem'[p] = s
      BY <1>2, <2>1
    <2>8. CASE pc' = [pc EXCEPT ![p] = "helper"] /\ todo' = [todo EXCEPT ![p] = @ \ {c}]
      <3>1. pc'[p] = "helper" /\ todo'[p] = todo[p] \ {c}
        BY <1>2, <2>8
      <3>2. Running(p)' = {c} /\ todo'[p] \cup Running(p)' = todo[p]
        BY <2>1, <2>7, <3>1 DEF Running
      <3>3. Room(mem'[p], Cardinality(todo'[p] \cup Running(p)'), queue')
        BY <2>5, <2>7, <3>2 DEF n
      <3>4. IsFiniteSet(todo'[p])
        BY <1>1, <3>1, FS_Subset DEF WalkCounted
      <3>5. \A d \in todo'[p] : ~Has(mem'[p], d) /\ d \notin Running(p)'
        BY <1>1, <2>1, <2>7, <3>1, <3>2 DEF WalkCounted, Has
      <3> QED
        BY <2>6, <3>3, <3>4, <3>5 DEF WalkCounted
    <2>9. CASE pc' = [pc EXCEPT ![p] = "idle"] /\ todo' = [todo EXCEPT ![p] = {}]
      BY <1>2, <1>4, <2>6, <2>9
    <2> QED
      BY <2>2, <2>8, <2>9
  <1>14. CASE HelperCommits(p)
    <2>1. /\ pc[p] = "helper" /\ pc'[p] = "committed"
          /\ todo' = todo /\ mem' = mem /\ disk' = disk
      BY <1>2, <1>14 DEF HelperCommits, Goto
    <2>2. Running(p)' = Running(p)
      BY <2>1 DEF Running
    <2> QED
      BY <1>1, <1>5, <2>1, <2>2 DEF WalkCounted
  <1>15. CASE RecordApplied(p)
    <2> DEFINE c == mem[p].inFlight
               s == MarkApplied(mem[p], c)
               n == Cardinality(todo[p])
    <2>1. /\ s \in State /\ s.inFlight = NoCmd
          /\ pc[p] = "committed" /\ c \in Cmd
          /\ mem' = [mem EXCEPT ![p] = s] /\ disk' \in {disk, s}
          /\ \/ pc' = [pc EXCEPT ![p] = "walk"] /\ todo' = todo
             \/ pc' = [pc EXCEPT ![p] = "idle"] /\ todo' = [todo EXCEPT ![p] = {}]
      BY <1>15, RecordStep
    <2>2. Running(p) = {c}
      BY <2>1 DEF Running
    <2>3. Range(s.applied) \subseteq Range(mem[p].applied) \cup {c}
      BY <1>1, <2>1, RecordRoom
    <2>4. Room(s, n, queue)
      BY <1>1, <2>1, RecordRoom
    <2>5. \A d \in todo[p] : ~Has(s, d)
      BY <1>1, <2>2, <2>3 DEF WalkCounted, Has
    <2> HIDE DEF s, n, c
    <2>6. mem'[p] = s
      BY <1>2, <2>1
    <2>7. DiskCounted'
      BY <1>5, <2>1 DEF DiskCounted
    <2>8. CASE pc' = [pc EXCEPT ![p] = "walk"] /\ todo' = todo
      <3>1. Running(p)' = {} /\ pc'[p] = "walk"
        BY <1>2, <2>8 DEF Running
      <3>2. todo'[p] \cup Running(p)' = todo[p]
        BY <2>8, <3>1
      <3>3. Room(mem'[p], Cardinality(todo'[p] \cup Running(p)'), queue')
        BY <2>4, <2>6, <3>2 DEF n
      <3> QED
        BY <1>1, <2>5, <2>6, <2>7, <2>8, <3>1, <3>3 DEF WalkCounted
    <2>9. CASE pc' = [pc EXCEPT ![p] = "idle"] /\ todo' = [todo EXCEPT ![p] = {}]
      BY <1>2, <1>4, <2>7, <2>9
    <2> QED
      BY <2>1, <2>8, <2>9
  <1>16. CASE FinishWalk(p)
    <2>1. /\ todo[p] = {} /\ disk' = disk
          /\ \/ Goto(p, "await2") /\ todo' = todo
             \/ EndSync(p)
      BY <1>16, Zenon DEF FinishWalk
    <2> QED
      BY <1>2, <1>4, <1>5, <1>7, <2>1 DEF Goto
  <1> QED
    BY <1>7, <1>8, <1>9, <1>10, <1>11, <1>12, <1>13, <1>14, <1>15, <1>16
    DEF Step, PostFails, RejectResponse, HelperFails, ConfirmSync

\* A step of the Mac disturbs the counts of no other process; the operator
\* finds the lock free.
LEMMA CountedMac ==
    ASSUME Types, Journal, Fence, Answers, Counted, MacNext
    PROVE  Counted'
  <1>1. TypeOK /\ HelperHasCommand /\ StatesStayValid
    BY DEF Types, Journal
  <1>2. queue' = queue
    BY <1>1, MacFrame
  <1>3. QueueCounted'
    BY <1>2 DEF Counted, QueueCounted
  <1>4. ASSUME NEW p \in Proc, Step(p) \/ Crash(p) \/ OperatorStops(p)
        PROVE  Counted'
    <2>1. WalkCounted(p)' /\ DiskCounted'
      BY <1>1, <1>2, <1>4, CountedStep
    <2>2. ReplyCounted(p)'
      <3>1. reply'[p] = NoReply
        BY <1>1, <1>4, ReplyTaken
      <3>2. IsFiniteSet({}) /\ Cardinality({}) <= QueueCap
        <4>1. IsFiniteSet({}) /\ Cardinality({}) = 0
          BY FS_EmptySet
        <4> QED
          BY <4>1, QueueCapAssumption
      <3>3. NoReply.kind = "none" /\ NoReply.commands = {}
        BY DEF NoReply
      <3> QED
        BY <3>1, <3>2, <3>3 DEF ReplyCounted
    <2>3. ASSUME NEW q \in Proc \ {p} PROVE ReplyCounted(q)' /\ WalkCounted(q)'
      <3>1. /\ pc'[q] = pc[q] /\ mem'[q] = mem[q] /\ todo'[q] = todo[q]
            /\ reply'[q] = reply[q]
        BY <1>1, <1>4, ProcessFrame DEF TypeOK
      <3>2. Running(q)' = Running(q)
        BY <3>1 DEF Running
      <3> QED
        BY <1>2, <3>1, <3>2 DEF Counted, ReplyCounted, WalkCounted
    <2> QED
      BY <1>3, <2>1, <2>2, <2>3 DEF Counted
  <1>5. ASSUME \/ RecoverRetry \/ RecoverApplied \/ OperatorAcceptsEpoch
               \/ \E l \in List : MakeReadOnly(l) \/ MakeWritable(l)
        PROVE  Counted'
    <2>1. UNCHANGED <<pc, mem, todo, reply>>
      BY <1>5 DEF RecoverRetry, RecoverApplied, OperatorAcceptsEpoch, ResetQueueEpoch,
             MakeReadOnly, MakeWritable, netVars
    <2>2. disk' = disk \/ disk'.inFlight = NoCmd
      <3>1. disk \in State
        BY <1>1 DEF TypeOK
      <3> QED
        BY <1>5, <3>1 DEF RecoverRetry, RecoverApplied, OperatorAcceptsEpoch, ResetQueueEpoch,
           MakeReadOnly, MakeWritable, Save, MarkApplied, State
    <2>3. DiskCounted'
      BY <1>2, <2>2 DEF Counted, DiskCounted
    <2>4. \A q \in Proc : Running(q)' = Running(q)
      BY <2>1 DEF Running
    <2> QED
      BY <1>2, <1>3, <2>1, <2>3, <2>4 DEF Counted, ReplyCounted, WalkCounted
  <1> QED
    BY <1>4, <1>5 DEF MacNext

\* What is acknowledged, anywhere, was accepted.
LEMMA LedgersKnown ==
    ASSUME Types, Views, Known, NEW c \in Cmd, c \notin AcceptedCommands
    PROVE  ~Has(disk, c) /\ \A p \in Proc : ~Has(mem[p], c)
  BY DEF Views, LedgersShown, LedgerShown, Known

\* The counts hold for any queue that gains nothing that is in a ledger.
LEMMA CountedQueue ==
    ASSUME Types, Counted,
           UNCHANGED <<pc, mem, todo, disk>>,
           \A c \in queue' \ queue : ~Has(disk, c) /\ \A p \in Proc : ~Has(mem[p], c)
    PROVE  DiskCounted' /\ \A p \in Proc : WalkCounted(p)'
  <1>1. /\ disk \in State /\ mem \in [Proc -> State]
        /\ todo \in [Proc -> SUBSET Cmd]
    BY DEF Types, TypeOK
  <1>2. DiskCounted'
    <2>1. ASSUME disk.inFlight # NoCmd PROVE Room(disk, 1, queue')
      <3>1. Room(disk, 1, queue)
        BY <2>1 DEF Counted, DiskCounted
      <3>2. \A c \in queue' : Has(disk, c) => c \in queue
        OBVIOUS
      <3> QED
        BY <1>1, <3>1, <3>2, RoomKept
    <2> QED
      BY <2>1 DEF DiskCounted
  <1>3. ASSUME NEW p \in Proc PROVE WalkCounted(p)'
    <2> DEFINE n == Cardinality(todo[p] \cup Running(p))
    <2>1. Running(p)' = Running(p)
      BY DEF Running
    <2>2. WalkCounted(p)
      BY DEF Counted
    <2>3. n \in Nat
      <3>1. IsFiniteSet(Running(p)) /\ IsFiniteSet(todo[p])
        BY <2>2, FS_EmptySet, FS_Singleton DEF Running, WalkCounted
      <3> QED
        BY <3>1, FS_Union, FS_CardinalityType
    <2>4. ASSUME pc[p] \in {"walk", "helper", "committed"} PROVE Room(mem[p], n, queue')
      <3>1. Room(mem[p], n, queue)
        BY <2>2, <2>4 DEF WalkCounted
      <3>2. \A c \in queue' : Has(mem[p], c) => c \in queue
        OBVIOUS
      <3> HIDE DEF n
      <3> QED
        BY <1>1, <2>3, <3>1, <3>2, RoomKept
    <2> QED
      BY <2>1, <2>2, <2>4 DEF WalkCounted
  <1> QED
    BY <1>2, <1>3

\* Home Assistant sends a process what remains of the queue once the ledger
\* of the process has been taken off it.
LEMMA CountedHA ==
    ASSUME Types, Views, Known, Answers, Counted, HANext
    PROVE  Counted'
  <1>1. TypeOK /\ UNCHANGED <<pc, mem, todo, disk>>
    BY DEF Types, HANext, macVars
  <1>2. /\ mem \in [Proc -> State] /\ reply \in [Proc -> Reply]
        /\ queue \subseteq Cmd /\ IsFiniteSet(queue) /\ Cardinality(queue) \in Nat
    BY <1>1, FS_CardinalityType DEF TypeOK, Counted, QueueCounted
  <1>3. ASSUME NEW c \in Cmd, QueueCommand(c) PROVE Counted'
    <2>1. queue' = queue \cup {c} /\ Cardinality(queue) < QueueCap /\ reply' = reply
      BY <1>3 DEF QueueCommand, netVars
    <2>2. ~Has(disk, c) /\ \A p \in Proc : ~Has(mem[p], c)
      BY <1>3, LedgersKnown DEF QueueCommand, AcceptedCommands
    <2>3. QueueCounted'
      <3>1. IsFiniteSet(queue') /\ Cardinality(queue') <= Cardinality(queue) + 1
        BY <1>2, <2>1, FS_AddElement
      <3>2. Cardinality(queue') \in Nat
        BY <3>1, FS_CardinalityType
      <3> QED
        BY <1>2, <2>1, <3>1, <3>2, QueueCapAssumption DEF QueueCounted
    <2>4. \A p \in Proc : ReplyCounted(p)'
      BY <1>1, <2>1, <2>2 DEF Counted, ReplyCounted
    <2> QED
      BY <1>1, <2>1, <2>2, <2>3, <2>4, CountedQueue DEF Counted
  \* The other steps leave a part of the queue.
  <1>4. ASSUME queue' \subseteq queue, \A p \in Proc : ReplyCounted(p)'
        PROVE  Counted'
    <2>1. IsFiniteSet(queue') /\ Cardinality(queue') <= Cardinality(queue)
      BY <1>2, <1>4, FS_Subset
    <2>2. Cardinality(queue') \in Nat
      BY <2>1, FS_CardinalityType
    <2>3. QueueCounted'
      BY <1>2, <2>1, <2>2, QueueCapAssumption DEF Counted, QueueCounted
    <2> QED
      BY <1>1, <1>4, <2>3, CountedQueue DEF Counted
  <1>5. ASSUME queue' \subseteq queue, NEW p \in Proc, reply'[p] = reply[p]
        PROVE  ReplyCounted(p)'
    BY <1>1, <1>5 DEF Counted, ReplyCounted
  <1>6. ASSUME NEW i \in DOMAIN requests, AcceptSnapshot(i) PROVE Counted'
    <2> DEFINE r == requests[i]
               offered == Deliverable(r)
               response == [kind |-> "ok", epoch |-> haEpoch, commands |-> offered]
    <2>1. queue' = queue \ r.acked
      BY <1>6 DEF AcceptSnapshot
    <2>2. reply' = reply \/ (r.awaited /\ reply' = [reply EXCEPT ![r.from] = response])
      BY <1>6, Zenon DEF AcceptSnapshot, Answer
    <2>3. i \in 1 .. Len(requests)
      BY <1>1 DEF TypeOK
    <2>4. offered \subseteq queue'
      BY <2>1 DEF Deliverable
    <2>5. IsFiniteSet(offered) /\ Cardinality(offered) <= QueueCap
      <3>1. IsFiniteSet(offered) /\ Cardinality(offered) <= Cardinality(queue)
        BY <1>2, <2>1, <2>4, FS_Subset
      <3>2. Cardinality(offered) \in Nat
        BY <3>1, FS_CardinalityType
      <3> QED
        BY <1>2, <3>1, <3>2, QueueCapAssumption DEF Counted, QueueCounted
    <2> HIDE DEF offered
    <2>6. ASSUME NEW p \in Proc, reply'[p] # reply[p] PROVE ReplyCounted(p)'
      <3>1. r.awaited /\ r.from = p /\ reply'[p] = response
        BY <1>2, <2>2, <2>6
      <3>2. r.acked = Range(mem[p].applied)
        BY <2>3, <3>1 DEF Answers, Waiting, AwaitedBy
      <3>3. \A c \in queue' : ~Has(mem'[p], c)
        BY <1>1, <2>1, <3>2 DEF Has
      <3>4. reply'[p].commands = offered
        BY <3>1
      <3> QED
        BY <2>4, <2>5, <3>3, <3>4 DEF ReplyCounted
    <2>7. \A p \in Proc : ReplyCounted(p)'
      BY <1>5, <2>1, <2>6
    <2> QED
      BY <1>4, <2>1, <2>7
  <1>7. ASSUME NEW i \in DOMAIN requests, RejectSnapshot(i) PROVE Counted'
    <2>1. /\ queue' = queue
          /\ reply' = reply \/ reply' = [reply EXCEPT ![requests[i].from] = ErrorReply]
      BY <1>7, Zenon DEF RejectSnapshot, Answer, haVars
    <2>2. \A p \in Proc : reply'[p] \in {reply[p], ErrorReply}
      BY <1>2, <2>1
    <2>3. ASSUME NEW p \in Proc, reply'[p] = ErrorReply PROVE ReplyCounted(p)'
      <3>1. IsFiniteSet({}) /\ Cardinality({}) <= QueueCap
        <4>1. IsFiniteSet({}) /\ Cardinality({}) = 0
          BY FS_EmptySet
        <4> QED
          BY <4>1, QueueCapAssumption
      <3>2. ErrorReply.kind = "error" /\ ErrorReply.commands = {}
        BY DEF ErrorReply
      <3> QED
        BY <2>3, <3>1, <3>2 DEF ReplyCounted
    <2> QED
      BY <1>4, <1>5, <2>1, <2>2, <2>3
  <1>8. CASE NewStorage
    <2>1. queue' = {} /\ reply' = reply
      BY <1>8 DEF NewStorage
    <2> QED
      BY <1>4, <1>5, <2>1
  <1> QED
    BY <1>3, <1>6, <1>7, <1>8 DEF HANext

\* Every step preserves the counts.
LEMMA CountedNext ==
    Types /\ Journal /\ Fence /\ Views /\ Known /\ Answers /\ Counted /\ [Next]_vars => Counted'
  <1> SUFFICES ASSUME Types, Journal, Fence, Views, Known, Answers, Counted, [Next]_vars
               PROVE  Counted'
    OBVIOUS
  <1>1. CASE NetNext \/ UNCHANGED vars
    <2>1. UNCHANGED <<queue, reply, disk, pc, mem, todo>>
      BY <1>1 DEF NetNext, LoseRequest, haVars, macVars, vars
    <2>2. \A p \in Proc : Running(p)' = Running(p)
      BY <2>1 DEF Running
    <2> QED
      BY <2>1, <2>2 DEF Counted, QueueCounted, DiskCounted, ReplyCounted, WalkCounted
  <1> QED
    BY <1>1, CountedMac, CountedHA DEF Next

\* In every reachable state the ledger of a process has a place for each
\* command it has still to walk, and evicts none that is queued
\* (maxAppliedCommands in state.go, MAX_COMMANDS in const.py).
THEOREM CountedInvariant == Spec => []Counted
  BY CountedInit, CountedNext, TypesInvariant, JournalInvariant, FenceInvariant,
     ViewsInvariant, KnownInvariant, AnswersInvariant, PTL DEF Spec

\* No response has a command of the ledger it answers, so that the loop of SyncOnce,
\* which looks again (client.go:140), never has one to skip.
THEOREM NothingToSkip == Spec => [][\A p \in Proc : ~SkipApplied(p)]_vars
  <1>1. Counted => [\A p \in Proc : ~SkipApplied(p)]_vars
    BY DEF Counted, WalkCounted, SkipApplied
  <1> QED
    BY <1>1, CountedInvariant, PTL

(***************************************************************************)
(* Each edit at most once.  All of the above holds for any number of       *)
(* processes; what follows needs one thing more, and run race_stale_load   *)
(* shows that it does.  run in main.go loads the state before it takes the *)
(* lock, so that two processes of one Mac may meet between the two steps;  *)
(* LoadCurrent says that none of them finds the lock free with a ledger    *)
(* that it would sync with and that another one has changed since.         *)
(***************************************************************************)

\* A process that may take the lock next has loaded the ledger on disk, where no
\* command is in flight, or else a state with a command in flight, with which it
\* never syncs.  The file may be another one in all else: the operator may have
\* resolved that command, or changed the epoch.
LoadCurrent ==
    \A p \in Proc : pc[p] = "loaded" /\ lock = NoProc =>
        \/ mem[p].inFlight # NoCmd
        \/ mem[p].applied = disk.applied /\ disk.inFlight = NoCmd

\* c took effect, or the operator says so.
Happened(c) == execs[c] > 0 \/ c \in attested

\* Whatever happened to queued commands, s accounts for.
Covers(s) == \A c \in queue : Happened(c) => Has(s, c) \/ s.inFlight = c

DiskOnce == Covers(disk) /\ disk.inFlight \notin attested

\* A process that can sync accounts for what happened; if the file names a
\* command that it does not have in flight itself, it knows that it happened.
OwnerOnce(p) ==
    pc[p] \in Locked /\ mem[p].inFlight = NoCmd =>
        /\ Covers(mem[p])
        /\ disk.inFlight # NoCmd => Has(mem[p], disk.inFlight) /\ execs[disk.inFlight] > 0

\* What a process is yet to execute has not happened.
FreshOnce(p) ==
    /\ \A c \in reply[p].commands \cup todo[p] : ~Happened(c)
    /\ pc[p] = "helper" => ~Happened(mem[p].inFlight)
    /\ pc[p] = "committed" => execs[mem[p].inFlight] > 0

Once ==
    /\ AtMostOnce
    /\ DiskOnce
    /\ \A p \in Proc : OwnerOnce(p) /\ FreshOnce(p)

\* Nothing has happened when the system starts.
LEMMA OnceInit == Init => Once
  BY NoCmdAssumption
  DEF Init, HAInit, MacInit, NoReply, EmptyState, Once, AtMostOnce, DiskOnce, OwnerOnce,
      FreshOnce, Covers, Locked, Place

\* A process that does not hold the lock has nothing to execute.
LEMMA Unlocked ==
    ASSUME Fence, Answers, NEW q \in Proc, pc[q] \notin Locked
    PROVE  todo[q] = {} /\ reply[q].commands = {}
  BY DEF Fence, WalkFenced, Answers, Waiting, NoReply, Locked, Place

\* A step of a process without the lock changes nothing but the process.
LEMMA UnlockedStep ==
    ASSUME TypeOK, HelperHasCommand, NEW p \in Proc, pc[p] \notin Locked,
           Step(p) \/ Crash(p) \/ OperatorStops(p)
    PROVE  /\ LoadState(p) \/ AcquireLock(p) \/ Dies(p)
           /\ UNCHANGED <<disk, execs>>
  <1>1. pc[p] \notin {"idle", "await", "walk", "helper", "committed", "await2"}
    BY DEF Locked, Place
  <1>2. CASE Step(p)
    <2>1. LoadState(p) \/ AcquireLock(p)
      BY <1>1, <1>2 DEF Step, PostSnapshot, PostFails, RejectResponse, AcceptResponse,
         AdoptEpoch, SkipApplied, JournalCommand, HelperCommits, HelperFails, RecordApplied,
         FinishWalk, ConfirmSync, Answered
    <2> QED
      BY <2>1 DEF LoadState, AcquireLock, eventKitVars
  <1>3. CASE Crash(p) \/ OperatorStops(p)
    BY <1>1, <1>3 DEF Crash, OperatorStops, StopBridge, Dies
  <1> QED
    BY <1>2, <1>3

\* So a step of one process leaves the others with nothing that happened.
LEMMA OnceOthers ==
    ASSUME TypeOK, HelperHasCommand, LockHeld, Fence, Answers, Once,
           NEW p \in Proc, Step(p) \/ Crash(p) \/ OperatorStops(p), UNCHANGED queue,
           NEW q \in Proc \ {p}
    PROVE  OwnerOnce(q)' /\ FreshOnce(q)'
  <1>1. /\ pc'[q] = pc[q] /\ mem'[q] = mem[q] /\ todo'[q] = todo[q]
        /\ reply'[q] = reply[q]
    BY ProcessFrame DEF TypeOK
  <1>2. CASE pc[q] \notin Locked
    <2>1. todo[q] = {} /\ reply[q].commands = {}
      BY <1>2, Unlocked
    <2> QED
      BY <1>1, <1>2, <2>1 DEF OwnerOnce, FreshOnce, Locked, Place
  <1>3. CASE pc[q] \in Locked
    <2>1. pc[p] \notin Locked
      BY <1>3 DEF LockHeld
    <2>2. UNCHANGED <<disk, execs, attested>>
      BY <2>1, UnlockedStep, ShownStep
    <2> QED
      BY <1>1, <2>2 DEF Once, OwnerOnce, FreshOnce, Covers, Happened
  <1> QED
    BY <1>2, <1>3

\* A helper that commits, whether its process lives to hear of it or not, does
\* so for the first time.
LEMMA OnceCommit ==
    ASSUME TypeOK, HelperHasCommand, Journal, Fence, Answers, Counted, Once,
           NEW p \in Proc, pc[p] = "helper", TakesEffect(mem[p].inFlight),
           HelperCommits(p) \/ Crash(p), UNCHANGED queue
    PROVE  AtMostOnce' /\ DiskOnce' /\ OwnerOnce(p)' /\ FreshOnce(p)'
  <1> DEFINE c == mem[p].inFlight
  <1>1. /\ c \in Cmd /\ c # NoCmd /\ disk.inFlight = c
        /\ ~Happened(c) /\ execs \in [Cmd -> Nat] /\ execs[c] = 0
        /\ mem \in [Proc -> State] /\ pc \in [Proc -> Place]
    BY NoCmdAssumption
    DEF HelperHasCommand, Journal, JournalOnDisk, Once, FreshOnce, TypeOK, Happened
  <1>2. /\ execs'[c] = 1
        /\ \A d \in Cmd \ {c} : execs'[d] = execs[d]
        /\ disk' = disk /\ attested' = attested
    BY <1>1 DEF TakesEffect, HelperCommits, Crash, Dies
  <1> HIDE DEF c
  <1>3. AtMostOnce'
    BY <1>1, <1>2 DEF Once, AtMostOnce
  <1>4. DiskOnce'
    <2>1. queue \subseteq Cmd
      BY DEF TypeOK
    <2>2. ASSUME NEW d \in queue, d # c, Happened(d)' PROVE Has(disk, d)
      BY <1>1, <1>2, <2>1, <2>2 DEF Once, DiskOnce, Covers, Happened
    <2> QED
      BY <1>1, <1>2, <2>2 DEF Once, DiskOnce, Covers
  <1>5. reply'[p].commands = {}
    BY ReplyTaken DEF NoReply, Step
  <1>6. CASE HelperCommits(p)
    <2>1. pc'[p] = "committed" /\ mem'[p] = mem[p] /\ todo'[p] = todo[p]
      BY <1>1, <1>6 DEF HelperCommits, Goto
    <2>2. todo[p] \subseteq Cmd \ {c}
      BY DEF Counted, WalkCounted, Running, TypeOK, c
    <2>3. \A d \in todo[p] : ~Happened(d)'
      BY <1>2, <2>2 DEF Once, FreshOnce, Happened
    <2>4. mem'[p].inFlight = c
      BY <2>1 DEF c
    <2> QED
      BY <1>1, <1>2, <1>3, <1>4, <1>5, <2>1, <2>3, <2>4 DEF OwnerOnce, FreshOnce
  <1>7. CASE Crash(p)
    <2>1. Dies(p)
      BY <1>7 DEF Crash
    <2>2. pc'[p] = "down" /\ todo'[p] = {}
      BY <1>1, <2>1 DEF Dies, Goto, TypeOK
    <2> QED
      BY <1>3, <1>4, <1>5, <2>2 DEF OwnerOnce, FreshOnce, Locked, Place
  <1> QED
    BY <1>6, <1>7

\* Any other step of a process: what it saves accounts for what happened, and
\* what it journals has not happened.
LEMMA OnceQuiet ==
    ASSUME Types, Journal, Fence, Known, Answers, Counted, LoadCurrent, Once,
           NEW p \in Proc, Step(p) \/ Crash(p) \/ OperatorStops(p),
           UNCHANGED <<queue, shown, execs>>
    PROVE  /\ DiskOnce' /\ OwnerOnce(p)' /\ FreshOnce(p)'
           /\ \/ disk'.inFlight = disk.inFlight
              \/ /\ disk.inFlight # NoCmd =>
                       execs[disk.inFlight] > 0 /\ Has(disk', disk.inFlight)
                 /\ \/ disk'.inFlight = NoCmd
                    \/ \E c \in AcceptedCommands : disk'.inFlight = c /\ ~Happened(c)
  <1>1. /\ TypeOK /\ HelperHasCommand /\ StatesStayValid
        /\ Waiting(p) /\ WalkFenced(p) /\ WalkCounted(p)
        /\ DiskOnce /\ OwnerOnce(p) /\ FreshOnce(p)
    BY DEF Types, Journal, Answers, Fence, Counted, Once
  <1>2. /\ pc \in [Proc -> Place] /\ mem \in [Proc -> State] /\ disk \in State
        /\ todo \in [Proc -> SUBSET Cmd] /\ reply \in [Proc -> Reply]
        /\ attested \subseteq Cmd /\ NoCmd \notin attested
    BY <1>1, NoCmdAssumption DEF TypeOK
  <1>3. /\ attested' = attested
        /\ \A d : Happened(d)' <=> Happened(d)
        /\ reply'[p].commands = {}
    BY <1>1, ShownStep, ReplyTaken DEF Happened, NoReply
  <1>4. \A s : Covers(s)' <=> Covers(s)
    BY <1>3 DEF Covers
  <1>5. ASSUME disk' = disk PROVE DiskOnce' /\ disk'.inFlight = disk.inFlight
    BY <1>1, <1>3, <1>5 DEF DiskOnce, Covers
  <1>6. ASSUME pc'[p] \notin {"helper", "committed"}, todo'[p] \subseteq todo[p] \cup reply[p].commands
        PROVE  FreshOnce(p)'
    BY <1>1, <1>3, <1>6 DEF FreshOnce
  \* The process keeps to what it has.
  <1>7. ASSUME disk' = disk, mem'[p] = mem[p], pc[p] \in Locked,
               pc'[p] \in {"idle", "await", "walk", "await2"},
               todo'[p] \subseteq todo[p] \cup reply[p].commands
        PROVE  DiskOnce' /\ OwnerOnce(p)' /\ FreshOnce(p)' /\ disk'.inFlight = disk.inFlight
    <2>1. OwnerOnce(p)'
      BY <1>1, <1>3, <1>7 DEF OwnerOnce, Covers
    <2> QED
      BY <1>5, <1>6, <1>7, <2>1
  \* It is no process, or none with the lock.
  <1>8. ASSUME disk' = disk, pc'[p] \in {"down", "loaded"},
               todo'[p] \subseteq todo[p] \cup reply[p].commands
        PROVE  DiskOnce' /\ OwnerOnce(p)' /\ FreshOnce(p)' /\ disk'.inFlight = disk.inFlight
    <2>1. OwnerOnce(p)'
      BY <1>8 DEF OwnerOnce, Locked, Place
    <2> QED
      BY <1>5, <1>6, <1>8, <2>1
  <1>9. CASE LoadState(p) \/ Crash(p) \/ OperatorStops(p)
    <2>1. disk' = disk /\ pc'[p] \in {"down", "loaded"} /\ todo'[p] \subseteq todo[p]
      <3>1. CASE LoadState(p)
        BY <1>2, <3>1 DEF LoadState, Goto
      <3>2. CASE Dies(p)
        BY <1>2, <3>2 DEF Dies, Goto
      <3> QED
        BY <1>9, <3>1, <3>2 DEF Crash, OperatorStops, StopBridge
    <2> QED
      BY <1>8, <2>1
  <1>10. CASE AcquireLock(p)
    <2>1. disk' = disk /\ todo' = todo /\ pc[p] = "loaded"
      BY <1>10 DEF AcquireLock
    <2>2. CASE lock = NoProc
      <3>1. pc'[p] = "idle" /\ mem'[p] = mem[p]
        BY <1>2, <1>10, <2>2 DEF AcquireLock, Goto
      <3>2. ASSUME mem[p].inFlight = NoCmd
            PROVE  mem[p].applied = disk.applied /\ disk.inFlight = NoCmd
        BY <2>1, <2>2, <3>2 DEF LoadCurrent
      <3>3. mem[p].inFlight = NoCmd => Covers(mem[p])
        BY <1>1, <3>2 DEF DiskOnce, Covers, Has
      <3>4. OwnerOnce(p)'
        BY <1>4, <2>1, <3>1, <3>2, <3>3 DEF OwnerOnce, Covers
      <3> QED
        BY <1>5, <1>6, <2>1, <3>1, <3>4
    <2>3. CASE lock # NoProc
      <3>1. pc'[p] = "down"
        BY <1>2, <1>10, <2>3 DEF AcquireLock, Goto
      <3> QED
        BY <1>8, <2>1, <3>1
    <2> QED
      BY <2>2, <2>3
  <1>11. CASE \/ PostSnapshot(p) \/ PostFails(p) \/ RejectResponse(p) \/ AcceptResponse(p)
              \/ SkipApplied(p) \/ HelperFails(p) \/ FinishWalk(p) \/ ConfirmSync(p)
    <2>1. Quiet(p)
      BY <1>1, <1>11, QuietSteps
    <2>2. disk' = disk /\ mem' = mem /\ pc[p] \in Locked
      BY <2>1 DEF Quiet
    <2>3. CASE EndSync(p)
      BY <1>2, <1>7, <2>2, <2>3 DEF EndSync, Goto
    <2>4. CASE PostSnapshot(p)
      BY <1>2, <1>7, <2>2, <2>4 DEF PostSnapshot, Goto
    <2>5. CASE AcceptResponse(p)
      BY <1>2, <1>7, <2>2, <2>5 DEF AcceptResponse, Goto
    <2>6. CASE SkipApplied(p)
      <3> PICK c \in todo[p] : todo' = [todo EXCEPT ![p] = @ \ {c}]
        BY <2>6 DEF SkipApplied
      <3>1. pc'[p] = "walk" /\ todo'[p] \subseteq todo[p]
        BY <1>2, <2>6 DEF SkipApplied
      <3> QED
        BY <1>7, <2>2, <3>1
    <2>7. CASE FinishWalk(p)
      <3>1. (Goto(p, "await2") /\ todo' = todo) \/ EndSync(p)
        BY <2>7, Zenon DEF FinishWalk
      <3> QED
        BY <1>2, <1>7, <2>2, <2>3, <3>1 DEF Goto
    <2> QED
      BY <1>11, <2>3, <2>4, <2>5, <2>6, <2>7 DEF PostFails, RejectResponse, HelperFails, ConfirmSync
  <1>12. CASE AdoptEpoch(p)
    <2> DEFINE s == [mem[p] EXCEPT !.epoch = reply[p].epoch]
    <2>1. /\ s \in State /\ s.applied = mem[p].applied /\ s.inFlight = mem[p].inFlight
          /\ pc[p] = "await"
          /\ \/ /\ disk' = s
                /\ mem' = [mem EXCEPT ![p] = s]
                /\ pc' = [pc EXCEPT ![p] = "walk"]
                /\ todo' = [todo EXCEPT ![p] = reply[p].commands]
             \/ /\ disk' \in {disk, s}
                /\ mem' = mem
                /\ pc' = [pc EXCEPT ![p] = "idle"]
                /\ todo' = [todo EXCEPT ![p] = {}]
      BY <1>1, <1>12, AdoptStep
    <2> HIDE DEF s
    <2>2. /\ disk' \in {disk, s} /\ mem'[p] \in {mem[p], s}
          /\ pc'[p] \in {"walk", "idle"}
          /\ todo'[p] \subseteq todo[p] \cup reply[p].commands
      BY <1>2, <2>1
    <2>3. /\ mem[p].inFlight = NoCmd /\ s.inFlight = NoCmd
          /\ Covers(mem[p])
          /\ disk.inFlight # NoCmd => Has(mem[p], disk.inFlight) /\ execs[disk.inFlight] > 0
      BY <1>1, <2>1 DEF Waiting, OwnerOnce, Locked, Place
    <2>4. Covers(s)
      BY <2>1, <2>3 DEF Covers, Has
    <2>5. DiskOnce'
      BY <1>1, <1>2, <1>3, <2>2, <2>3, <2>4 DEF DiskOnce, Covers
    <2>6. OwnerOnce(p)'
      <3>1. Covers(mem[p])'
        BY <1>3, <2>2, <2>3, <2>4 DEF Covers
      <3>2. disk'.inFlight # NoCmd => Has(mem'[p], disk'.inFlight) /\ execs'[disk'.inFlight] > 0
        BY <2>1, <2>2, <2>3 DEF Has
      <3> QED
        BY <3>1, <3>2 DEF OwnerOnce
    <2>7. disk' = s /\ disk.inFlight # NoCmd => Has(disk', disk.inFlight)
      BY <2>1, <2>3 DEF Has
    <2> QED
      BY <1>5, <1>6, <2>2, <2>3, <2>5, <2>6, <2>7
  <1>13. CASE JournalCommand(p)
    <2> PICK c \in todo[p] : LET s == [mem[p] EXCEPT !.inFlight = c] IN
          /\ s \in State /\ s.applied = mem[p].applied /\ s.inFlight = c
          /\ pc[p] = "walk" /\ c \in Cmd
          /\ mem' = [mem EXCEPT ![p] = s]
          /\ \/ /\ disk' = s
                /\ pc' = [pc EXCEPT ![p] = "helper"]
                /\ todo' = [todo EXCEPT ![p] = @ \ {c}]
             \/ /\ disk' \in {disk, s}
                /\ pc' = [pc EXCEPT ![p] = "idle"]
                /\ todo' = [todo EXCEPT ![p] = {}]
      BY <1>1, <1>13, JournalStep
    <2> DEFINE s == [mem[p] EXCEPT !.inFlight = c]
    <2>1. /\ s \in State /\ s.applied = mem[p].applied /\ s.inFlight = c
          /\ pc[p] = "walk" /\ c \in Cmd /\ disk' \in {disk, s}
          /\ mem' = [mem EXCEPT ![p] = s]
      OBVIOUS
    <2>2. pc'[p] \in {"idle", "helper"} /\ todo'[p] \subseteq todo[p]
      BY <1>2
    <2> HIDE DEF s
    <2>3. ~Happened(c) /\ c # NoCmd /\ c \in AcceptedCommands
      BY <1>1, <2>1, NoCmdAssumption
      DEF FreshOnce, WalkFenced, Fenced, AcceptedCommands, IsAccepted
    <2>4. /\ Covers(mem[p])
          /\ disk.inFlight # NoCmd => Has(mem[p], disk.inFlight) /\ execs[disk.inFlight] > 0
      BY <1>1, <2>1 DEF Waiting, OwnerOnce, Locked, Place
    <2>5. Covers(s)
      <3>1. mem[p].inFlight = NoCmd
        BY <1>1, <2>1 DEF Waiting
      <3>2. \A d \in queue : d # NoCmd
        BY <1>1, NoCmdAssumption DEF TypeOK
      <3> QED
        BY <2>1, <2>4, <3>1, <3>2 DEF Covers, Has
    <2>6. DiskOnce'
      BY <1>1, <1>3, <2>1, <2>3, <2>5 DEF DiskOnce, Covers, Happened
    <2>7. mem'[p].inFlight = c
      BY <1>2, <2>1
    <2>8. OwnerOnce(p)'
      BY <2>3, <2>7 DEF OwnerOnce
    <2>9. FreshOnce(p)'
      BY <1>1, <1>3, <2>2, <2>3, <2>7 DEF FreshOnce
    <2>10. disk' = s /\ disk.inFlight # NoCmd => Has(disk', disk.inFlight)
      BY <2>1, <2>4 DEF Has
    <2> QED
      BY <1>5, <2>1, <2>3, <2>4, <2>6, <2>8, <2>9, <2>10
  <1>14. CASE RecordApplied(p)
    <2> DEFINE c == mem[p].inFlight
               s == MarkApplied(mem[p], c)
    <2>1. /\ s \in State /\ s.inFlight = NoCmd
          /\ pc[p] = "committed" /\ c \in Cmd
          /\ mem' = [mem EXCEPT ![p] = s] /\ disk' \in {disk, s}
          /\ \/ pc' = [pc EXCEPT ![p] = "walk"] /\ todo' = todo
             \/ pc' = [pc EXCEPT ![p] = "idle"] /\ todo' = [todo EXCEPT ![p] = {}]
      BY <1>1, <1>14, RecordStep
    <2>2. Has(s, c) /\ \A d \in queue : Has(mem[p], d) => Has(s, d)
      BY <1>1, <2>1, RecordRoom
    <2>3. disk = mem[p] /\ disk.inFlight = c
      BY <2>1 DEF Journal, JournalOnDisk
    <2> HIDE DEF s, c
    <2>4. execs[c] > 0
      BY <1>1, <2>1 DEF FreshOnce, c
    <2>5. Covers(s)
      BY <1>1, <2>2, <2>3 DEF DiskOnce, Covers
    <2>6. DiskOnce'
      BY <1>1, <1>2, <1>3, <2>1, <2>5 DEF DiskOnce, Covers
    <2>7. mem'[p] = s /\ pc'[p] \in {"walk", "idle"} /\ todo'[p] \subseteq todo[p]
      BY <1>2, <2>1
    <2>8. OwnerOnce(p)'
      <3>1. Covers(mem[p])'
        BY <1>3, <2>5, <2>7 DEF Covers
      <3>2. disk'.inFlight # NoCmd => Has(mem'[p], disk'.inFlight) /\ execs'[disk'.inFlight] > 0
        BY <2>1, <2>2, <2>3, <2>4, <2>7
      <3> QED
        BY <3>1, <3>2 DEF OwnerOnce
    <2>9. disk' = s => Has(disk', disk.inFlight)
      BY <2>2, <2>3
    <2> QED
      BY <1>5, <1>6, <2>1, <2>3, <2>4, <2>6, <2>7, <2>8, <2>9
  <1>15. CASE HelperCommits(p)
    <2>1. FALSE
      <3>1. execs' = [execs EXCEPT ![mem[p].inFlight] = @ + 1] /\ mem[p].inFlight \in Cmd
        BY <1>1, <1>15 DEF HelperCommits, TakesEffect, HelperHasCommand
      <3>2. execs'[mem[p].inFlight] = execs[mem[p].inFlight] + 1 /\ execs[mem[p].inFlight] \in Nat
        BY <1>1, <3>1 DEF TypeOK
      <3> QED
        BY <3>2
    <2> QED
      BY <2>1
  <1> QED
    BY <1>9, <1>10, <1>11, <1>12, <1>13, <1>14, <1>15 DEF Step

\* Resolution "applied" has a place in the ledger for the command, and evicts
\* none that is queued.
LEMMA AttestStep ==
    ASSUME TypeOK, StatesStayValid, Counted, RecoverApplied
    PROVE  /\ disk.inFlight \in Cmd /\ disk'.inFlight = NoCmd
           /\ Has(disk', disk.inFlight)
           /\ \A d \in queue : Has(disk, d) => Has(disk', d)
           /\ attested' = attested \cup {disk.inFlight} /\ execs' = execs
  <1> DEFINE c == disk.inFlight
             s == [disk EXCEPT !.inFlight = NoCmd]
  <1>1. /\ disk \in State /\ Valid(disk) /\ c \in Cmd /\ c # NoCmd
        /\ disk' = MarkApplied(s, c)
        /\ attested' = attested \cup {c} /\ execs' = execs
    BY NoCmdAssumption
    DEF TypeOK, StatesStayValid, RecoverApplied, Save, State, eventKitVars
  <1>2. /\ s \in State /\ s.applied = disk.applied /\ s.inFlight = NoCmd /\ Valid(s)
        /\ ~Has(s, c)
    BY <1>1 DEF State, Valid, Has
  <1>3. Room(disk, 1, queue)
    BY <1>1 DEF Counted, DiskCounted
  <1> HIDE DEF s
  <1>4. Room(s, 0 + 1, queue)
    BY <1>1, <1>2, <1>3, RoomKept
  <1>5. Has(disk', c) /\ \A d \in queue : Has(s, d) => Has(disk', d)
    BY <1>1, <1>2, <1>4, MarkAppliedRoom
  <1>6. disk'.inFlight = NoCmd
    BY <1>1, <1>2 DEF MarkApplied, State
  <1> QED
    BY <1>1, <1>2, <1>5, <1>6 DEF Has

\* recover and reset-queue-epoch find no process that could sync.
LEMMA OnceOperator ==
    ASSUME Types, Journal, Fence, Answers, Counted, Once,
           \/ RecoverRetry \/ RecoverApplied \/ OperatorAcceptsEpoch
           \/ \E l \in List : MakeReadOnly(l) \/ MakeWritable(l),
           UNCHANGED queue
    PROVE  Once'
  <1>1. /\ TypeOK /\ disk \in State /\ Valid(disk) /\ execs \in [Cmd -> Nat]
        /\ attested \subseteq Cmd /\ NoCmd \notin attested
        /\ AtMostOnce /\ DiskOnce
    BY NoCmdAssumption DEF Types, TypeOK, Journal, StatesStayValid, Once
  <1>2. UNCHANGED <<lock, pc, mem, todo, reply>>
    BY DEF RecoverRetry, RecoverApplied, OperatorAcceptsEpoch, ResetQueueEpoch,
           MakeReadOnly, MakeWritable, netVars
  <1>3. ASSUME lock = NoProc, NEW q \in Proc PROVE OwnerOnce(q)' /\ FreshOnce(q)'
    <2>1. pc[q] \notin Locked
      BY <1>3, NoProcAssumption DEF Journal, LockHeld
    <2>2. todo[q] = {} /\ reply[q].commands = {}
      BY <2>1, Unlocked
    <2> QED
      BY <1>2, <2>1, <2>2 DEF OwnerOnce, FreshOnce, Locked, Place
  <1>4. CASE \E l \in List : MakeReadOnly(l) \/ MakeWritable(l)
    <2>1. UNCHANGED <<disk, execs, attested>>
      BY <1>4 DEF MakeReadOnly, MakeWritable
    <2> QED
      BY <1>2, <2>1 DEF Once, AtMostOnce, DiskOnce, OwnerOnce, FreshOnce, Covers, Happened
  <1>5. CASE RecoverRetry
    <2> DEFINE c == disk.inFlight
    <2>1. /\ lock = NoProc /\ c \in Cmd /\ c \notin attested
          /\ execs' = [execs EXCEPT ![c] = 0] /\ attested' = attested
          /\ disk' = [disk EXCEPT !.inFlight = NoCmd]
      BY <1>1, <1>5 DEF RecoverRetry, Save, State, DiskOnce
    <2> HIDE DEF c
    <2>2. disk'.inFlight = NoCmd /\ disk'.applied = disk.applied
      BY <1>1, <2>1 DEF State
    <2>3. execs'[c] = 0 /\ \A d \in Cmd \ {c} : execs'[d] = execs[d]
      BY <1>1, <2>1
    <2>4. AtMostOnce'
      BY <1>1, <2>3 DEF AtMostOnce
    <2>5. \A d \in queue : Happened(d)' => Happened(d) /\ d # c
      BY <1>1, <2>1, <2>3 DEF Happened, TypeOK
    <2>6. DiskOnce'
      BY <1>1, <2>1, <2>2, <2>5 DEF DiskOnce, Covers, Has, c
    <2> QED
      BY <1>3, <2>1, <2>4, <2>6 DEF Once
  <1>6. CASE RecoverApplied
    <2> DEFINE c == disk.inFlight
    <2>1. /\ lock = NoProc /\ c \in Cmd /\ disk'.inFlight = NoCmd
          /\ Has(disk', c) /\ \A d \in queue : Has(disk, d) => Has(disk', d)
          /\ attested' = attested \cup {c} /\ execs' = execs
      BY <1>1, <1>6, AttestStep DEF RecoverApplied, Journal
    <2> HIDE DEF c
    <2>2. DiskOnce'
      <3>1. ASSUME NEW d \in queue, Happened(d)' PROVE Has(disk', d)
        <4>1. d = c \/ Happened(d)
          BY <2>1, <3>1 DEF Happened
        <4>2. d = c \/ Has(disk, d)
          BY <1>1, <4>1 DEF DiskOnce, Covers, c
        <4> QED
          BY <2>1, <4>2
      <3> QED
        BY <1>1, <2>1, <3>1, NoCmdAssumption DEF DiskOnce, Covers
    <2>3. AtMostOnce'
      BY <1>1, <2>1 DEF AtMostOnce
    <2> QED
      BY <1>3, <2>1, <2>2, <2>3 DEF Once
  <1>7. CASE OperatorAcceptsEpoch
    <2>1. /\ lock = NoProc /\ UNCHANGED <<execs, attested>>
          /\ disk' = [disk EXCEPT !.epoch = haEpoch]
      BY <1>7 DEF OperatorAcceptsEpoch, ResetQueueEpoch, Save, eventKitVars
    <2>2. disk'.inFlight = disk.inFlight /\ disk'.applied = disk.applied
      BY <1>1, <2>1 DEF State
    <2>3. DiskOnce' /\ AtMostOnce'
      BY <1>1, <2>1, <2>2 DEF DiskOnce, AtMostOnce, Covers, Happened, Has
    <2> QED
      BY <1>3, <2>1, <2>3 DEF Once
  <1> QED
    BY <1>4, <1>5, <1>6, <1>7

\* A process is sent nothing that happened: it acknowledges that first.
LEMMA OnceHA ==
    ASSUME Types, Known, Answers, Once, HANext
    PROVE  Once'
  <1>1. TypeOK /\ UNCHANGED <<pc, mem, todo, disk, execs, attested>>
    BY DEF Types, HANext, macVars
  <1>2. reply \in [Proc -> Reply] /\ queue \subseteq Cmd /\ NoCmd \notin queue
    BY <1>1, NoCmdAssumption DEF TypeOK
  <1>3. \A c : Happened(c)' <=> Happened(c)
    BY <1>1 DEF Happened
  <1>4. ASSUME \A c \in queue' : Happened(c) => c \in queue,
               \A p \in Proc : \A c \in reply'[p].commands : ~Happened(c)
        PROVE  Once'
    BY <1>1, <1>3, <1>4
    DEF Once, AtMostOnce, DiskOnce, OwnerOnce, FreshOnce, Covers
  <1>5. \A p \in Proc : \A c \in reply[p].commands : ~Happened(c)
    BY DEF Once, FreshOnce
  <1>6. ASSUME NEW c \in Cmd, QueueCommand(c) PROVE Once'
    <2>1. queue' = queue \cup {c} /\ reply' = reply /\ c \notin AcceptedCommands
      BY <1>6 DEF QueueCommand, netVars, AcceptedCommands
    <2>2. ~Happened(c)
      BY <2>1 DEF Known, Happened
    <2> QED
      BY <1>4, <1>5, <2>1, <2>2
  <1>7. ASSUME NEW i \in DOMAIN requests, AcceptSnapshot(i) PROVE Once'
    <2> DEFINE r == requests[i]
               offered == Deliverable(r)
               response == [kind |-> "ok", epoch |-> haEpoch, commands |-> offered]
    <2>1. queue' = queue \ r.acked
      BY <1>7 DEF AcceptSnapshot
    <2>2. reply' = reply \/ (r.awaited /\ reply' = [reply EXCEPT ![r.from] = response])
      BY <1>7, Zenon DEF AcceptSnapshot, Answer
    <2>3. i \in 1 .. Len(requests)
      BY <1>1 DEF TypeOK
    <2>4. offered \subseteq queue \ r.acked
      BY DEF Deliverable
    <2> HIDE DEF offered
    <2>5. ASSUME NEW p \in Proc, reply'[p] # reply[p]
          PROVE  \A c \in reply'[p].commands : ~Happened(c)
      <3>1. r.awaited /\ r.from = p /\ reply'[p].commands = offered
        BY <1>2, <2>2, <2>5
      <3>2. /\ r.acked = Range(mem[p].applied)
            /\ pc[p] \in {"await", "await2"}
            /\ mem[p].inFlight = NoCmd
        BY <2>3, <3>1 DEF Answers, Waiting, AwaitedBy
      <3>3. Covers(mem[p])
        BY <3>2 DEF Once, OwnerOnce, Locked, Place
      <3> QED
        BY <1>2, <2>4, <3>1, <3>2, <3>3 DEF Covers, Has
    <2> QED
      BY <1>4, <1>5, <2>1, <2>5
  <1>8. ASSUME NEW i \in DOMAIN requests, RejectSnapshot(i) PROVE Once'
    <2>1. /\ queue' = queue
          /\ reply' = reply \/ reply' = [reply EXCEPT ![requests[i].from] = ErrorReply]
      BY <1>8, Zenon DEF RejectSnapshot, Answer, haVars
    <2>2. \A p \in Proc : reply'[p] \in {reply[p], ErrorReply}
      BY <1>2, <2>1
    <2> QED
      BY <1>4, <1>5, <2>1, <2>2 DEF ErrorReply
  <1>9. CASE NewStorage
    <2>1. queue' = {} /\ reply' = reply
      BY <1>9 DEF NewStorage
    <2> QED
      BY <1>4, <1>5, <2>1
  <1> QED
    BY <1>6, <1>7, <1>8, <1>9 DEF HANext

\* Every invariant but the last, which needs LoadCurrent.
Settings == Types /\ Journal /\ Fence /\ Views /\ Known /\ Answers /\ Counted

\* Every step out of a state in which no process is about to sync with an
\* outdated ledger preserves the invariant.
LEMMA OnceNext == Settings /\ LoadCurrent /\ Once /\ [Next]_vars => Once'
  <1> SUFFICES ASSUME Settings, LoadCurrent, Once, [Next]_vars PROVE Once'
    OBVIOUS
  <1>1. /\ Types /\ Journal /\ Fence /\ Views /\ Known /\ Answers /\ Counted
        /\ TypeOK /\ HelperHasCommand /\ LockHeld
    BY DEF Settings, Types, Journal
  <1>2. CASE MacNext
    <2>1. queue' = queue
      BY <1>1, <1>2, MacFrame
    <2>2. ASSUME NEW p \in Proc, Step(p) \/ Crash(p) \/ OperatorStops(p)
          PROVE  Once'
      <3>1. \A q \in Proc \ {p} : OwnerOnce(q)' /\ FreshOnce(q)'
        BY <1>1, <2>1, <2>2, OnceOthers
      <3>2. CASE UNCHANGED <<shown, execs>>
        <4>1. DiskOnce' /\ OwnerOnce(p)' /\ FreshOnce(p)'
          BY <1>1, <2>1, <2>2, <3>2, OnceQuiet
        <4>2. AtMostOnce'
          BY <3>2 DEF Once, AtMostOnce
        <4> QED
          BY <3>1, <4>1, <4>2 DEF Once
      <3>3. CASE ~UNCHANGED <<shown, execs>>
        <4>1. HelperCommits(p) \/ Crash(p)
          BY <2>2, <3>3, ChangesEffects
        <4>2. pc[p] = "helper" /\ TakesEffect(mem[p].inFlight)
          BY <1>1, <2>2, <3>3, EffectStep
        <4>3. AtMostOnce' /\ DiskOnce' /\ OwnerOnce(p)' /\ FreshOnce(p)'
          BY <1>1, <2>1, <4>1, <4>2, OnceCommit
        <4> QED
          BY <3>1, <4>3 DEF Once
      <3> QED
        BY <3>2, <3>3
    <2> QED
      BY <1>1, <1>2, <2>1, <2>2, OnceOperator DEF MacNext
  <1>3. CASE HANext
    BY <1>1, <1>3, OnceHA
  <1>4. CASE NetNext \/ UNCHANGED vars
    <2>1. UNCHANGED <<queue, reply, disk, pc, mem, todo, execs, attested>>
      BY <1>4 DEF NetNext, LoseRequest, haVars, macVars, vars
    <2> QED
      BY <2>1 DEF Once, AtMostOnce, DiskOnce, OwnerOnce, FreshOnce, Covers, Happened
  <1> QED
    BY <1>2, <1>3, <1>4 DEF Next

\* They hold for any number of bridge processes, as above (SyncOnce in
\* hasync/client.go, async_process_snapshot in runtime.py).
THEOREM SettingsInvariant == Spec => []Settings
  BY TypesInvariant, JournalInvariant, FenceInvariant, ViewsInvariant, KnownInvariant,
     AnswersInvariant, CountedInvariant, PTL DEF Settings

\* As long as no process takes the lock with an outdated ledger, what happened
\* to the queued commands is on record and nothing happens twice.
THEOREM OnceInvariant == Spec /\ []LoadCurrent => []Once
  BY OnceInit, OnceNext, SettingsInvariant, PTL DEF Spec

\* Then no edit is applied to EventKit a second time that the operator did not
\* ask for (the loop of SyncOnce in hasync/client.go).
THEOREM EditsAppliedAtMostOnce == Spec /\ []LoadCurrent => []AtMostOnce
  <1>1. Once => AtMostOnce
    BY DEF Once
  <1> QED
    BY <1>1, OnceInvariant, PTL

\* And the state file accounts for every queued command that took effect or was
\* attested, although the ledger is bounded (MarkApplied in state.go).
THEOREM EffectsStayRemembered == Spec /\ []LoadCurrent => []QueuedEffectsRemembered
  <1>1. Once => QueuedEffectsRemembered
    BY DEF Once, DiskOnce, Covers, Happened, QueuedEffectsRemembered
  <1> QED
    BY <1>1, OnceInvariant, PTL

\* A journalled command leaves the state file for the ledger, unless the
\* operator resolves it "retry".
LEMMA UncertainStep ==
    ASSUME Settings, LoadCurrent, Once, [Next]_vars,
           disk.inFlight # NoCmd, disk'.inFlight # disk.inFlight
    PROVE  Has(disk', disk.inFlight) \/ RecoverRetry
  <1>1. /\ Types /\ Journal /\ Fence /\ Known /\ Answers /\ Counted
        /\ TypeOK /\ HelperHasCommand /\ StatesStayValid
    BY DEF Settings, Types, Journal
  <1>2. MacNext
    BY DEF Next, HANext, NetNext, macVars, vars
  <1>3. queue' = queue
    BY <1>1, <1>2, MacFrame
  <1>4. ASSUME NEW p \in Proc, Step(p) \/ Crash(p) \/ OperatorStops(p)
        PROVE  Has(disk', disk.inFlight)
    <2>1. CASE UNCHANGED <<shown, execs>>
      BY <1>1, <1>3, <1>4, <2>1, OnceQuiet
    <2>2. CASE ~UNCHANGED <<shown, execs>>
      BY <1>4, <2>2, ChangesEffects DEF HelperCommits, Crash, Dies
    <2> QED
      BY <2>1, <2>2
  <1>5. CASE RecoverApplied
    BY <1>1, <1>5, AttestStep
  <1>6. CASE OperatorAcceptsEpoch
    BY <1>6 DEF OperatorAcceptsEpoch, ResetQueueEpoch
  <1>7. CASE \E l \in List : MakeReadOnly(l) \/ MakeWritable(l)
    BY <1>7 DEF MakeReadOnly, MakeWritable
  <1> QED
    BY <1>2, <1>4, <1>5, <1>6, <1>7 DEF MacNext

\* So no uncertain outcome is forgotten, whatever process or operator saves the
\* state (ClearInFlight and MarkApplied in state.go).
THEOREM UncertainOutcomesKept == Spec /\ []LoadCurrent => UncertainNeverForgotten
  <1>1. Settings /\ LoadCurrent /\ Once /\ [Next]_vars
           => [disk.inFlight # NoCmd /\ disk'.inFlight # disk.inFlight =>
                  Has(disk', disk.inFlight) \/ RecoverRetry]_vars
    BY UncertainStep
  <1> QED
    BY <1>1, SettingsInvariant, OnceInvariant, PTL DEF Spec, UncertainNeverForgotten

(***************************************************************************)
(* The refinement of DurableQueue.  What the queue owes is the queue of    *)
(* Home Assistant, and what is uncertain is what the state file names.     *)
(***************************************************************************)

\* The empty queue and the empty state file are DurableQueue's.
LEMMA PromiseInit == Init => Promise!Init
  BY DEF Init, HAInit, MacInit, EmptyState, AcceptedCommands, IsAccepted, Promise!Init

\* A commit of a helper is where an edit takes effect.
LEMMA PromiseCommit ==
    ASSUME Settings, Once, UNCHANGED <<queue, rank>>,
           NEW p \in Proc, pc[p] = "helper", TakesEffect(mem[p].inFlight),
           HelperCommits(p) \/ Crash(p)
    PROVE  Promise!TakeEffect
  <1>1. /\ disk.inFlight = mem[p].inFlight /\ disk.inFlight \in Cmd
        /\ execs[disk.inFlight] = 0
    BY DEF Settings, Journal, JournalOnDisk, Types, TypeOK, HelperHasCommand, Once, FreshOnce,
           Happened
  <1>2. disk' = disk /\ attested' = attested /\ AcceptedCommands' = AcceptedCommands
    BY DEF HelperCommits, Crash, Dies, AcceptedCommands, IsAccepted
  <1> QED
    BY <1>1, <1>2, NoCmdAssumption DEF TakesEffect, Promise!TakeEffect

\* A save of a process begins an edit, confirms one, or changes nothing that
\* the promise speaks of.
LEMMA PromiseQuiet ==
    ASSUME Settings, LoadCurrent, Once, UNCHANGED <<queue, rank>>,
           NEW p \in Proc, Step(p) \/ Crash(p) \/ OperatorStops(p),
           UNCHANGED <<shown, execs>>
    PROVE  [Promise!Next]_(Promise!dqVars)
  <1>1. /\ Types /\ Journal /\ Fence /\ Known /\ Answers /\ Counted /\ TypeOK
        /\ attested' = attested /\ AcceptedCommands' = AcceptedCommands
        /\ AcceptedCommands \subseteq Cmd
    BY ShownStep DEF Settings, Types, AcceptedCommands, IsAccepted
  <1>2. \/ disk'.inFlight = disk.inFlight
        \/ /\ disk.inFlight # NoCmd => execs[disk.inFlight] > 0
           /\ \/ disk'.inFlight = NoCmd
              \/ \E c \in AcceptedCommands : disk'.inFlight = c /\ ~Happened(c)
    BY <1>1, OnceQuiet
  <1>3. CASE disk'.inFlight = disk.inFlight
    BY <1>1, <1>3 DEF Promise!dqVars
  <1>4. CASE disk'.inFlight # disk.inFlight /\ disk'.inFlight = NoCmd
    <2>1. Promise!Confirm
      BY <1>1, <1>2, <1>4 DEF Promise!Confirm
    <2> QED
      BY <2>1 DEF Promise!Next
  <1>5. ASSUME disk'.inFlight # disk.inFlight,
               NEW c \in AcceptedCommands, disk'.inFlight = c, ~Happened(c)
        PROVE  [Promise!Next]_(Promise!dqVars)
    <2>1. execs[c] = 0 /\ c \in AcceptedCommands \ attested /\ c \in Cmd
      BY <1>1, <1>5 DEF Happened, TypeOK
    <2>2. Promise!Begin(c)
      BY <1>1, <1>2, <1>5, <2>1, NoCmdAssumption DEF Promise!Begin, Promise!Clear
    <2> QED
      BY <2>1, <2>2 DEF Promise!Next
  <1> QED
    BY <1>2, <1>3, <1>4, <1>5

\* The operator's commands are the promise's own, or change the epoch only.
LEMMA PromiseOperator ==
    ASSUME Settings, UNCHANGED <<queue, rank>>,
           \/ RecoverRetry \/ RecoverApplied \/ OperatorAcceptsEpoch
           \/ \E l \in List : MakeReadOnly(l) \/ MakeWritable(l)
    PROVE  [Promise!Next]_(Promise!dqVars)
  <1>1. /\ TypeOK /\ disk \in State /\ Counted /\ StatesStayValid
        /\ AcceptedCommands' = AcceptedCommands
    BY DEF Settings, Types, TypeOK, Journal, AcceptedCommands, IsAccepted
  <1>2. CASE RecoverRetry
    <2>1. Promise!Retry
      BY <1>1, <1>2 DEF RecoverRetry, Save, State, Promise!Retry
    <2> QED
      BY <2>1 DEF Promise!Next
  <1>3. CASE RecoverApplied
    <2>1. Promise!Attest
      BY <1>1, <1>3, AttestStep DEF RecoverApplied, eventKitVars, Promise!Attest
    <2> QED
      BY <2>1 DEF Promise!Next
  <1>4. CASE OperatorAcceptsEpoch
    <2>1. disk'.inFlight = disk.inFlight /\ UNCHANGED <<shown, execs, attested>>
      BY <1>1, <1>4 DEF OperatorAcceptsEpoch, ResetQueueEpoch, Save, State, eventKitVars
    <2> QED
      BY <1>1, <2>1 DEF Promise!dqVars
  <1>5. CASE \E l \in List : MakeReadOnly(l) \/ MakeWritable(l)
    BY <1>1, <1>5 DEF MakeReadOnly, MakeWritable, Promise!dqVars
  <1> QED
    BY <1>2, <1>3, <1>4, <1>5

\* Home Assistant accepts an edit, retires what a snapshot acknowledges (and
\* therefore shows, or the operator attested), or loses the queue.
LEMMA PromiseHA ==
    ASSUME Settings, HANext
    PROVE  [Promise!Next]_(Promise!dqVars)
  <1>1. TypeOK /\ Views /\ UNCHANGED <<disk, shown, execs, attested>>
    BY DEF Settings, Types, HANext, macVars
  <1>2. ASSUME NEW c \in Cmd, QueueCommand(c) PROVE Promise!Next
    <2>1. /\ rank[c] = 0 /\ rank'[c] # 0
          /\ \A d \in Cmd \ {c} : rank'[d] = rank[d]
          /\ queue' = queue \cup {c}
      BY <1>1, <1>2, FS_CardinalityType DEF QueueCommand, IsAccepted, TypeOK, Settings, Types
    <2>2. c \notin AcceptedCommands /\ AcceptedCommands' = AcceptedCommands \cup {c}
      BY <2>1 DEF AcceptedCommands, IsAccepted
    <2>3. Promise!Accept(c)
      BY <1>1, <2>1, <2>2 DEF Promise!Accept
    <2> QED
      BY <2>3 DEF Promise!Next
  <1>3. ASSUME NEW i \in DOMAIN requests, AcceptSnapshot(i) PROVE Promise!Next
    <2> DEFINE done == queue \cap requests[i].acked
    <2>1. queue' = queue \ done /\ AcceptedCommands' = AcceptedCommands
      BY <1>3 DEF AcceptSnapshot, AcceptedCommands, IsAccepted
    <2>2. done \subseteq shown \cup attested
      <3>1. i \in 1 .. Len(requests)
        BY <1>1 DEF TypeOK
      <3> QED
        BY <1>1, <3>1 DEF Views, RequestsShow, RequestShows
    <2>3. done \in SUBSET queue
      OBVIOUS
    <2> HIDE DEF done
    <2>4. Promise!Retire(done)
      BY <1>1, <2>1, <2>2 DEF Promise!Retire
    <2> QED
      BY <2>3, <2>4 DEF Promise!Next
  <1>4. ASSUME NEW i \in DOMAIN requests, RejectSnapshot(i) PROVE UNCHANGED (Promise!dqVars)
    BY <1>1, <1>4 DEF RejectSnapshot, haVars, AcceptedCommands, IsAccepted, Promise!dqVars
  <1>5. CASE NewStorage
    <2>1. Promise!LoseQueue
      BY <1>1, <1>5 DEF NewStorage, AcceptedCommands, IsAccepted, Promise!LoseQueue
    <2> QED
      BY <2>1 DEF Promise!Next
  <1> QED
    BY <1>2, <1>3, <1>4, <1>5 DEF HANext

\* Every step is one of the promise, or none that it speaks of.
LEMMA PromiseNext ==
    Settings /\ LoadCurrent /\ Once /\ [Next]_vars => [Promise!Next]_(Promise!dqVars)
  <1> SUFFICES ASSUME Settings, LoadCurrent, Once, [Next]_vars
               PROVE  [Promise!Next]_(Promise!dqVars)
    OBVIOUS
  <1>1. TypeOK /\ HelperHasCommand
    BY DEF Settings, Types
  <1>2. CASE MacNext
    <2>1. UNCHANGED <<queue, rank>>
      BY <1>1, <1>2, MacFrame
    <2>2. ASSUME NEW p \in Proc, Step(p) \/ Crash(p) \/ OperatorStops(p)
          PROVE  [Promise!Next]_(Promise!dqVars)
      <3>1. CASE UNCHANGED <<shown, execs>>
        BY <2>1, <2>2, <3>1, PromiseQuiet
      <3>2. CASE ~UNCHANGED <<shown, execs>>
        <4>1. Promise!TakeEffect
          BY <1>1, <2>1, <2>2, <3>2, ChangesEffects, EffectStep, PromiseCommit
        <4> QED
          BY <4>1 DEF Promise!Next
      <3> QED
        BY <3>1, <3>2
    <2> QED
      BY <1>2, <2>1, <2>2, PromiseOperator DEF MacNext
  <1>3. CASE HANext
    BY <1>3, PromiseHA
  <1>4. CASE NetNext \/ UNCHANGED vars
    BY <1>4 DEF NetNext, LoseRequest, haVars, macVars, vars, AcceptedCommands, IsAccepted,
       Promise!dqVars
  <1> QED
    BY <1>2, <1>3, <1>4 DEF Next

\* So the command queue, end to end, implements DurableQueue.
THEOREM QueueImplementsPromise == Spec /\ []LoadCurrent => ImplementsDurableQueue
  BY PromiseInit, PromiseNext, SettingsInvariant, OnceInvariant, PTL
  DEF Spec, ImplementsDurableQueue, Promise!Spec

(***************************************************************************)
(* One bridge process: what launchd keeps running, and nothing beside it.  *)
(* Between its two steps of starting only the operator's commands can      *)
(* change the state file.  recover does so when the bridge has loaded a    *)
(* command in flight, and the bridge then refuses every round;             *)
(* reset-queue-epoch leaves the ledger as it is.                           *)
(***************************************************************************)

\* A single process syncs.
OneBridge == \E p \in Proc : Proc = {p}

\* No process has loaded a state yet.
LEMMA LoadCurrentInit == Init => LoadCurrent
  BY DEF Init, MacInit, LoadCurrent

\* With one bridge, a step changes the ledger between load and lock only if a
\* command was in flight when it was loaded.
LEMMA LoadCurrentNext ==
    ASSUME OneBridge
    PROVE  TypeOK /\ LoadCurrent /\ [Next]_vars => LoadCurrent'
  <1> SUFFICES ASSUME TypeOK, LoadCurrent, [Next]_vars PROVE LoadCurrent'
    OBVIOUS
  <1> PICK p \in Proc : Proc = {p}
    BY DEF OneBridge
  <1>1. /\ pc \in [Proc -> Place] /\ mem \in [Proc -> State] /\ disk \in State
        /\ pc[p] = "loaded" /\ lock = NoProc =>
              \/ mem[p].inFlight # NoCmd
              \/ mem[p].applied = disk.applied /\ disk.inFlight = NoCmd
    BY DEF TypeOK, LoadCurrent
  <1>2. ASSUME pc'[p] = "loaded" /\ lock' = NoProc =>
                  \/ mem'[p].inFlight # NoCmd
                  \/ mem'[p].applied = disk'.applied /\ disk'.inFlight = NoCmd
        PROVE  LoadCurrent'
    BY <1>2 DEF LoadCurrent
  <1>3. ASSUME Step(p) \/ Crash(p) \/ OperatorStops(p) PROVE LoadCurrent'
    <2>1. CASE LoadState(p)
      <3>1. disk' = disk /\ mem'[p] = disk
        BY <1>1, <2>1 DEF LoadState
      <3> QED
        BY <1>2, <3>1
    <2>2. CASE ~LoadState(p)
      <3>1. pc'[p] # "loaded"
        BY <1>1, <1>3, <2>2 DEF Step, AcquireLock, PostSnapshot, PostFails, RejectResponse,
           AcceptResponse, AdoptEpoch, SkipApplied, JournalCommand, HelperCommits, HelperFails,
           RecordApplied, FinishWalk, ConfirmSync, Crash, OperatorStops, StopBridge, Dies,
           EndSync, Goto
      <3> QED
        BY <1>2, <3>1
    <2> QED
      BY <2>1, <2>2
  <1>4. CASE RecoverRetry \/ RecoverApplied
    <2>1. lock = NoProc /\ disk.inFlight # NoCmd /\ UNCHANGED <<lock, pc, mem>>
      BY <1>4 DEF RecoverRetry, RecoverApplied
    <2> QED
      BY <1>1, <1>2, <2>1
  <1>5. CASE OperatorAcceptsEpoch
    <2>1. /\ disk'.applied = disk.applied /\ disk'.inFlight = disk.inFlight
          /\ UNCHANGED <<lock, pc, mem>>
      BY <1>1, <1>5 DEF OperatorAcceptsEpoch, ResetQueueEpoch, Save, State
    <2> QED
      BY <1>1, <1>2, <2>1
  <1>6. CASE \E l \in List : MakeReadOnly(l) \/ MakeWritable(l)
    <2>1. UNCHANGED <<disk, lock, pc, mem>>
      BY <1>6 DEF MakeReadOnly, MakeWritable
    <2> QED
      BY <1>1, <1>2, <2>1
  <1>7. CASE HANext \/ NetNext \/ UNCHANGED vars
    <2>1. UNCHANGED <<disk, lock, pc, mem>>
      BY <1>7 DEF HANext, NetNext, macVars, vars
    <2> QED
      BY <1>1, <1>2, <2>1
  <1> QED
    BY <1>3, <1>4, <1>5, <1>6, <1>7 DEF Next, MacNext

\* When a bridge alone takes the lock (run in main.go), it has loaded a command in
\* flight and will refuse to sync, or its ledger is the file's and the file has
\* no command in flight.  Nothing is said of the epoch it has loaded.
THEOREM OneBridgeLedgerCurrent ==
    ASSUME OneBridge
    PROVE  Spec => []LoadCurrent
  <1>1. TypeOK /\ LoadCurrent /\ [Next]_vars => LoadCurrent'
    BY LoadCurrentNext
  <1> QED
    BY <1>1, LoadCurrentInit, TypeCorrect, PTL DEF Spec

\* So with one bridge every edit is applied at most once, and whatever happened
\* to a queued edit stays on record, without any further assumption.
THEOREM OneBridgeAppliesOnce ==
    ASSUME OneBridge
    PROVE  Spec => []AtMostOnce /\ []QueuedEffectsRemembered /\ UncertainNeverForgotten
  BY OneBridgeLedgerCurrent, EditsAppliedAtMostOnce, EffectsStayRemembered,
     UncertainOutcomesKept, PTL

\* And the command queue of one bridge implements DurableQueue.
THEOREM OneBridgeKeepsPromise ==
    ASSUME OneBridge
    PROVE  Spec => ImplementsDurableQueue
  BY OneBridgeLedgerCurrent, QueueImplementsPromise, PTL
================================================================================
