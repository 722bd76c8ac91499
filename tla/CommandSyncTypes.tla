---------------------------- MODULE CommandSyncTypes ----------------------------
(***************************************************************************)
(* Type correctness of CommandSync, for every value of its constants.      *)
(* TypeOK is not inductive by itself.  QueueCommand ranks a command by the *)
(* cardinality of the set accepted so far, a number only because that set  *)
(* stays finite; and what a helper changes EventKit for is a command only  *)
(* because its process has one in flight.  Types adds the two facts, and   *)
(* nothing has to be assumed of Cmd.                                       *)
(***************************************************************************)
EXTENDS CommandSync, FiniteSetTheorems, SequenceTheorems, TLAPS

HelperHasCommand ==
    \A p \in Proc : pc[p] \in {"helper", "committed"} => mem[p].inFlight \in Cmd

Types == TypeOK /\ IsFiniteSet(AcceptedCommands) /\ HelperHasCommand

\* The ledger that MarkApplied keeps is a sequence of commands.
LEMMA NewestType ==
    ASSUME NEW l \in Seq(Cmd)
    PROVE  Newest(l) \in Seq(Cmd)
  BY LedgerCapAssumption, SubSeqProperties DEF Newest

\* MarkApplied makes a state of a state.
LEMMA MarkAppliedType ==
    ASSUME NEW s \in State, NEW c \in Cmd
    PROVE  MarkApplied(s, c) \in State
  <1>1. Append(s.applied, c) \in Seq(Cmd)
    BY DEF State
  <1> QED
    BY <1>1, NewestType DEF MarkApplied, State

\* What the network is left with after a request was delivered, accepted or
\* given up is a sequence of requests.
LEMMA RequestsType ==
    ASSUME requests \in Seq(Request)
    PROVE  /\ \A i \in DOMAIN requests :
                /\ requests[i] \in Request
                /\ Without(i) \in Seq(Request)
                /\ Accepted(i) \in Seq(Request)
           /\ \A p \in Proc : Abandoned(p) \in Seq(Request)
           /\ [j \in 1 .. Len(requests) |-> [requests[j] EXCEPT !.stale = FALSE]]
                \in Seq(Request)
  <1>1. /\ Len(requests) \in Nat
        /\ DOMAIN requests = 1 .. Len(requests)
        /\ \A j \in 1 .. Len(requests) : requests[j] \in Request
    OBVIOUS
  <1>2. \A r \in Request, b \in BOOLEAN :
           /\ [r EXCEPT !.stale = b] \in Request
           /\ [r EXCEPT !.awaited = b] \in Request
    BY DEF Request
  <1>3. ASSUME NEW i \in DOMAIN requests
        PROVE  /\ Without(i) \in Seq(Request)
               /\ Accepted(i) \in Seq(Request)
    <2>1. Len(requests) - 1 \in Nat
      BY <1>1
    <2>2. \A j \in 1 .. Len(requests) - 1 :
             IF j < i THEN requests[j] \in Request ELSE requests[j + 1] \in Request
      BY <1>1
    <2>3. Without(i) \in [1 .. Len(requests) - 1 -> Request]
      BY <1>1, <2>2 DEF Without
    <2>4. Accepted(i) \in [1 .. Len(requests) - 1 -> Request]
      BY <1>1, <2>2, <1>2 DEF Accepted
    <2> QED
      BY <2>1, <2>3, <2>4, IsASeq
  <1>4. ASSUME NEW p \in Proc
        PROVE  Abandoned(p) \in Seq(Request)
    <2>1. Abandoned(p) \in [1 .. Len(requests) -> Request]
      BY <1>1, <1>2 DEF Abandoned
    <2> QED
      BY <1>1, <2>1, IsASeq
  <1>5. [j \in 1 .. Len(requests) |-> [requests[j] EXCEPT !.stale = FALSE]]
           \in [1 .. Len(requests) -> Request]
    BY <1>1, <1>2
  <1> QED
    BY <1>1, <1>3, <1>4, <1>5, IsASeq

\* Spending a fault keeps the fault counters natural numbers.
LEMMA SpendType ==
    ASSUME TypeOK, NEW f \in Fault, Spend(f)
    PROVE  faults' \in [Fault -> Nat]
  BY DEF TypeOK, Spend

\* The initial state is well typed.
LEMMA TypesInit == Init => Types
  <1> SUFFICES ASSUME Init PROVE Types
    OBVIOUS
  <1>1. EmptyState \in State
    BY DEF EmptyState, State, NoEpoch
  <1>2. NoReply \in Reply
    BY DEF NoReply, Reply, NoEpoch
  <1>3. TypeOK
    BY <1>1, <1>2 DEF Init, HAInit, MacInit, TypeOK, Place, NoEpoch
  <1>4. AcceptedCommands = {}
    BY DEF Init, AcceptedCommands, IsAccepted
  <1>5. HelperHasCommand
    BY DEF Init, MacInit, HelperHasCommand
  <1> QED
    BY <1>3, <1>4, <1>5, FS_EmptySet DEF Types

\* The steps of Home Assistant keep every variable in its type.
LEMMA TypesHA == Types /\ HANext => Types'
  <1> SUFFICES ASSUME Types, HANext PROVE Types'
    OBVIOUS
  <1> USE DEF TypeOK, Types, HelperHasCommand, macVars, netVars, haVars
  <1>1. UNCHANGED macVars
    BY DEF HANext
  <1>2. CASE \E c \in Cmd : QueueCommand(c)
    <2> PICK c \in Cmd : QueueCommand(c)
      BY <1>2
    <2>1. Cardinality(AcceptedCommands) \in Nat
      BY FS_CardinalityType
    <2>2. rank' \in [Cmd -> Nat]
      BY <2>1 DEF QueueCommand
    <2>3. AcceptedCommands' = AcceptedCommands \cup {c}
      <3>1. rank'[c] # 0 /\ \A d \in Cmd \ {c} : rank'[d] = rank[d]
        BY <2>1 DEF QueueCommand
      <3> QED
        BY <3>1 DEF AcceptedCommands, IsAccepted
    <2>4. IsFiniteSet(AcceptedCommands)'
      BY <2>3, FS_AddElement
    <2> QED
      BY <1>1, <2>2, <2>4 DEF QueueCommand
  <1>3. ASSUME NEW i \in DOMAIN requests, AcceptSnapshot(i)
        PROVE  Types'
    <2>1. /\ requests[i] \in Request
          /\ requests' \in Seq(Request)
      BY <1>3, RequestsType DEF AcceptSnapshot
    <2>2. /\ queue' \in SUBSET Cmd
          /\ haView' \in SUBSET Cmd
          /\ haWritable' \in SUBSET List
      BY <1>3, <2>1 DEF AcceptSnapshot, Request
    <2>3. [kind |-> "ok", epoch |-> haEpoch, commands |-> Deliverable(requests[i])] \in Reply
      BY <2>1 DEF Deliverable, Reply
    <2>4. reply' \in [Proc -> Reply] /\ faults' \in [Fault -> Nat]
      BY <1>3, <2>1, <2>3, SpendType DEF AcceptSnapshot, Answer, Request, Fault
    <2>5. AcceptedCommands' = AcceptedCommands
      BY <1>3 DEF AcceptSnapshot, AcceptedCommands, IsAccepted
    <2> QED
      BY <1>1, <1>3, <2>1, <2>2, <2>4, <2>5 DEF AcceptSnapshot
  <1>4. ASSUME NEW i \in DOMAIN requests, RejectSnapshot(i)
        PROVE  Types'
    <2>1. /\ requests[i] \in Request
          /\ requests' \in Seq(Request)
      BY <1>4, RequestsType DEF RejectSnapshot
    <2>2. ErrorReply \in Reply
      BY DEF ErrorReply, Reply, NoEpoch
    <2>3. reply' \in [Proc -> Reply] /\ faults' \in [Fault -> Nat]
      BY <1>4, <2>1, <2>2, SpendType DEF RejectSnapshot, Answer, Request, Fault
    <2>4. AcceptedCommands' = AcceptedCommands
      BY <1>4 DEF RejectSnapshot, AcceptedCommands, IsAccepted
    <2> QED
      BY <1>1, <1>4, <2>1, <2>3, <2>4 DEF RejectSnapshot
  <1>5. CASE NewStorage
    <2>1. requests' \in Seq(Request)
      BY <1>5, RequestsType DEF NewStorage
    <2>2. AcceptedCommands' = AcceptedCommands
      BY <1>5 DEF NewStorage, AcceptedCommands, IsAccepted
    <2>3. /\ haEpoch' \in Nat
          /\ queue' = {} /\ haView' = {} /\ haWritable' = {}
          /\ UNCHANGED <<epochOf, reply, rank, faults>>
      BY <1>5 DEF NewStorage
    <2> QED
      BY <1>1, <2>1, <2>2, <2>3
  <1> QED
    BY <1>2, <1>3, <1>4, <1>5 DEF HANext

\* A snapshot is a request.
LEMMA SnapshotType ==
    ASSUME TypeOK, NEW p \in Proc
    PROVE  SnapshotOf(p) \in Request
  <1>1. mem[p].applied \in Seq(Cmd)
    BY DEF State, TypeOK
  <1>2. Range(mem[p].applied) \subseteq Cmd
    BY <1>1 DEF Range
  <1> QED
    BY <1>2 DEF SnapshotOf, Request, TypeOK

\* A bridge process starts, posts its snapshot and hears nothing.
LEMMA TypesStart ==
    ASSUME TypeOK, NEW p \in Proc,
           LoadState(p) \/ AcquireLock(p) \/ PostSnapshot(p) \/ PostFails(p),
           UNCHANGED haVars
    PROVE  TypeOK' /\ UNCHANGED rank
  <1> USE DEF TypeOK, netVars, haVars, eventKitVars, Goto
  <1>1. CASE LoadState(p)
    BY <1>1 DEF LoadState, Place
  <1>2. CASE AcquireLock(p)
    <2>1. EmptyState \in State
      BY DEF EmptyState, State, NoEpoch
    <2> QED
      BY <1>2, <2>1 DEF AcquireLock, Place
  <1>3. CASE PostSnapshot(p)
    BY <1>3, SnapshotType DEF PostSnapshot, Post, Place
  <1>4. CASE PostFails(p)
    <2>1. requests' \in Seq(Request)
      BY <1>4, RequestsType DEF PostFails
    <2>2. faults' \in [Fault -> Nat]
      BY <1>4, SpendType DEF PostFails, Fault
    <2> QED
      BY <1>4, <2>1, <2>2 DEF PostFails, EndSync, Place
  <1> QED
    BY <1>1, <1>2, <1>3, <1>4

\* It reads the answer.
LEMMA TypesResponse ==
    ASSUME TypeOK, NEW p \in Proc,
           RejectResponse(p) \/ AcceptResponse(p) \/ AdoptEpoch(p) \/ ConfirmSync(p),
           UNCHANGED haVars
    PROVE  TypeOK' /\ UNCHANGED rank
  <1> USE DEF TypeOK, netVars, haVars, eventKitVars, Goto
  <1>1. NoReply \in Reply /\ reply[p].commands \in SUBSET Cmd /\ reply[p].epoch \in Nat
    BY DEF NoReply, Reply, NoEpoch
  <1>2. CASE RejectResponse(p)
    BY <1>1, <1>2 DEF RejectResponse, Consume, EndSync, Place
  <1>3. CASE AcceptResponse(p)
    BY <1>1, <1>3 DEF AcceptResponse, Consume, Place
  <1>4. CASE AdoptEpoch(p)
    <2>1. [mem[p] EXCEPT !.epoch = reply[p].epoch] \in State
      BY <1>1 DEF State
    <2>2. faults' \in [Fault -> Nat]
      BY <1>4, SpendType DEF AdoptEpoch, SaveFails, Fault
    <2>3. disk' \in State
      BY <1>4, <2>1 DEF AdoptEpoch, Save, SaveFails
    <2>4. pc' \in [Proc -> Place] /\ todo' \in [Proc -> SUBSET Cmd]
      <3>1. todo' \in {[todo EXCEPT ![p] = {}], [todo EXCEPT ![p] = reply[p].commands]}
        BY <1>4, Zenon DEF AdoptEpoch, EndSync
      <3>2. pc' \in {[pc EXCEPT ![p] = "idle"], [pc EXCEPT ![p] = "walk"]}
        BY <1>4, Zenon DEF AdoptEpoch, EndSync
      <3> QED
        BY <1>1, <3>1, <3>2 DEF Place
    <2>7. mem' \in [Proc -> State]
      BY <1>4, <2>1 DEF AdoptEpoch
    <2>5. applied' \in [Proc -> BOOLEAN]
      BY <1>4 DEF AdoptEpoch, EndSync
    <2>6. requests' = requests /\ reply' \in [Proc -> Reply]
      BY <1>1, <1>4 DEF AdoptEpoch, Consume
    <2> QED
      BY <1>4, <2>2, <2>3, <2>4, <2>5, <2>6, <2>7 DEF AdoptEpoch
  <1>5. CASE ConfirmSync(p)
    BY <1>1, <1>5 DEF ConfirmSync, Consume, EndSync, Place
  <1> QED
    BY <1>2, <1>3, <1>4, <1>5

\* It walks the commands of the response.
LEMMA TypesWalk ==
    ASSUME TypeOK, NEW p \in Proc, SkipApplied(p) \/ JournalCommand(p) \/ FinishWalk(p),
           UNCHANGED haVars
    PROVE  TypeOK' /\ UNCHANGED rank
  <1> USE DEF TypeOK, netVars, haVars, eventKitVars, Goto
  <1>1. CASE SkipApplied(p)
    BY <1>1 DEF SkipApplied
  <1>2. CASE JournalCommand(p)
    <2>1. \A c \in todo[p] : [mem[p] EXCEPT !.inFlight = c] \in State
      BY DEF State
    <2>2. faults' \in [Fault -> Nat]
      BY <1>2, SpendType DEF JournalCommand, SaveFails, Fault
    <2>3. disk' \in State /\ mem' \in [Proc -> State]
      BY <1>2, <2>1 DEF JournalCommand, Save, SaveFails
    <2>4. \/ EndSync(p)
          \/ /\ Goto(p, "helper") /\ UNCHANGED applied
             /\ \E c \in todo[p] : todo' = [todo EXCEPT ![p] = @ \ {c}]
      BY <1>2 DEF JournalCommand
    <2>5. /\ pc' \in [Proc -> Place]
          /\ todo' \in [Proc -> SUBSET Cmd]
          /\ applied' \in [Proc -> BOOLEAN]
      BY <2>4 DEF EndSync, Place
    <2> QED
      BY <1>2, <2>2, <2>3, <2>5 DEF JournalCommand
  <1>3. CASE FinishWalk(p)
    <2>1. \/ Post(p) /\ Goto(p, "await2") /\ UNCHANGED <<todo, applied, faults>>
          \/ EndSync(p) /\ UNCHANGED netVars /\ (Spend("helper") \/ UNCHANGED faults)
      BY <1>3, Zenon DEF FinishWalk
    <2>2. requests' \in Seq(Request) /\ UNCHANGED reply
      <3>1. Append(requests, SnapshotOf(p)) \in Seq(Request)
        BY SnapshotType
      <3> QED
        BY <2>1, <3>1 DEF Post
    <2>3. /\ pc' \in [Proc -> Place]
          /\ todo' \in [Proc -> SUBSET Cmd]
          /\ applied' \in [Proc -> BOOLEAN]
      BY <2>1 DEF EndSync, Place
    <2>4. faults' \in [Fault -> Nat]
      BY <2>1, SpendType DEF Fault
    <2>5. UNCHANGED <<disk, lock, mem, shown, writable, execs, attested, rank>>
      BY <1>3 DEF FinishWalk
    <2> QED
      BY <2>2, <2>3, <2>4, <2>5
  <1> QED
    BY <1>1, <1>2, <1>3

\* The helper runs, and its outcome is recorded.
LEMMA TypesHelper ==
    ASSUME TypeOK, NEW p \in Proc,
           mem[p].inFlight \in Cmd,
           HelperCommits(p) \/ HelperFails(p) \/ RecordApplied(p),
           UNCHANGED haVars
    PROVE  TypeOK' /\ UNCHANGED rank
  <1> USE DEF TypeOK, netVars, haVars, eventKitVars, Goto
  <1>1. CASE HelperCommits(p)
    BY <1>1 DEF HelperCommits, TakesEffect, Place
  <1>2. CASE HelperFails(p)
    <2>1. faults' \in [Fault -> Nat]
      BY <1>2, SpendType DEF HelperFails, Fault
    <2> QED
      BY <1>2, <2>1 DEF HelperFails, EndSync, Place
  <1>3. CASE RecordApplied(p)
    <2>1. MarkApplied(mem[p], mem[p].inFlight) \in State
      BY MarkAppliedType
    <2>2. faults' \in [Fault -> Nat]
      BY <1>3, SpendType DEF RecordApplied, SaveFails, Fault
    <2> QED
      BY <1>3, <2>1, <2>2 DEF RecordApplied, Save, SaveFails, EndSync, Place
  <1> QED
    BY <1>1, <1>2, <1>3

\* A process dies or is stopped.
LEMMA TypesDies ==
    ASSUME TypeOK, NEW p \in Proc, pc[p] = "helper" => mem[p].inFlight \in Cmd,
           Crash(p) \/ OperatorStops(p),
           UNCHANGED haVars
    PROVE  TypeOK' /\ UNCHANGED rank
  <1> USE DEF TypeOK, haVars, Goto
  <1>1. EmptyState \in State /\ NoReply \in Reply
    BY DEF EmptyState, State, NoReply, Reply, NoEpoch
  <1>2. Abandoned(p) \in Seq(Request)
    BY RequestsType
  <1>3. CASE Crash(p)
    <2>1. faults' \in [Fault -> Nat]
      BY <1>3, SpendType DEF Crash, Fault
    <2>2. shown' \in SUBSET Cmd /\ execs' \in [Cmd -> Nat]
      BY <1>3 DEF Crash, TakesEffect
    <2> QED
      BY <1>1, <1>2, <1>3, <2>1, <2>2 DEF Crash, Dies, Place
  <1>4. CASE OperatorStops(p)
    BY <1>1, <1>2, <1>4 DEF OperatorStops, StopBridge, Dies, Place
  <1> QED
    BY <1>3, <1>4

\* The operator's commands, and Apple's side.
LEMMA TypesOperator ==
    ASSUME TypeOK,
           \/ RecoverRetry \/ RecoverApplied \/ OperatorAcceptsEpoch
           \/ \E l \in List : MakeReadOnly(l) \/ MakeWritable(l),
           UNCHANGED haVars
    PROVE  TypeOK' /\ UNCHANGED rank
  <1> USE DEF TypeOK, netVars, haVars, eventKitVars
  <1>1. CASE RecoverRetry
    <2>1. [disk EXCEPT !.inFlight = NoCmd] \in State
      BY DEF State
    <2>2. faults' \in [Fault -> Nat]
      BY <1>1, SpendType DEF RecoverRetry, Fault
    <2> QED
      BY <1>1, <2>1, <2>2 DEF RecoverRetry, Save
  <1>2. CASE RecoverApplied
    <2>1. [disk EXCEPT !.inFlight = NoCmd] \in State /\ disk.inFlight \in Cmd
      BY <1>2 DEF State, RecoverApplied
    <2>2. MarkApplied([disk EXCEPT !.inFlight = NoCmd], disk.inFlight) \in State
      BY <2>1, MarkAppliedType
    <2> QED
      BY <1>2, <2>1, <2>2 DEF RecoverApplied, Save
  <1>3. CASE OperatorAcceptsEpoch
    <2>1. [disk EXCEPT !.epoch = haEpoch] \in State
      BY DEF State
    <2> QED
      BY <1>3, <2>1 DEF OperatorAcceptsEpoch, ResetQueueEpoch, Save
  <1>4. CASE \E l \in List : MakeReadOnly(l) \/ MakeWritable(l)
    <2>1. faults' \in [Fault -> Nat]
      BY <1>4, SpendType DEF MakeReadOnly, MakeWritable, Fault
    <2> QED
      BY <1>4, <2>1 DEF MakeReadOnly, MakeWritable
  <1> QED
    BY <1>1, <1>2, <1>3, <1>4

\* A helper is only started for the command just journalled, and its process
\* keeps that command in flight until the helper has ended.
LEMMA HelperHasCommandStep ==
    ASSUME TypeOK, HelperHasCommand, MacNext
    PROVE  HelperHasCommand'
  <1> USE DEF TypeOK, HelperHasCommand, eventKitVars, Goto
  <1>1. ASSUME NEW p \in Proc, LoadState(p) \/ AcquireLock(p)
        PROVE  HelperHasCommand'
    BY <1>1 DEF LoadState, AcquireLock
  <1>2. ASSUME NEW p \in Proc, PostSnapshot(p) \/ PostFails(p) \/ ConfirmSync(p)
        PROVE  HelperHasCommand'
    BY <1>2 DEF PostSnapshot, PostFails, ConfirmSync, EndSync
  <1>3. ASSUME NEW p \in Proc, RejectResponse(p) \/ AcceptResponse(p)
        PROVE  HelperHasCommand'
    BY <1>3 DEF RejectResponse, AcceptResponse, EndSync
  <1>4. ASSUME NEW p \in Proc, AdoptEpoch(p)
        PROVE  HelperHasCommand'
    <2>1. Answered(p, "await")
      BY <1>4 DEF AdoptEpoch
    <2>2. \/ EndSync(p) /\ UNCHANGED mem
          \/ Goto(p, "walk") /\ mem' = [mem EXCEPT ![p] = [mem[p] EXCEPT !.epoch = reply[p].epoch]]
      BY <1>4 DEF AdoptEpoch
    <2> QED
      BY <2>1, <2>2 DEF Answered, EndSync
  <1>5. ASSUME NEW p \in Proc, SkipApplied(p) \/ FinishWalk(p)
        PROVE  HelperHasCommand'
    <2>1. UNCHANGED mem /\ (UNCHANGED pc \/ Goto(p, "await2") \/ Goto(p, "idle"))
      BY <1>5, Zenon DEF SkipApplied, FinishWalk, EndSync
    <2> QED
      BY <2>1
  <1>6. ASSUME NEW p \in Proc, JournalCommand(p)
        PROVE  HelperHasCommand'
    <2> PICK c \in todo[p] : /\ mem' = [mem EXCEPT ![p] = [mem[p] EXCEPT !.inFlight = c]]
                             /\ Goto(p, "helper") \/ Goto(p, "idle")
      BY <1>6 DEF JournalCommand, EndSync
    <2>1. mem'[p].inFlight = c
      BY DEF State
    <2> QED
      BY <2>1
  <1>7. ASSUME NEW p \in Proc, HelperCommits(p) \/ HelperFails(p)
        PROVE  HelperHasCommand'
    BY <1>7 DEF HelperCommits, HelperFails, EndSync
  <1>8. ASSUME NEW p \in Proc, RecordApplied(p)
        PROVE  HelperHasCommand'
    <2>1. /\ Goto(p, "walk") \/ Goto(p, "idle")
          /\ mem' = [mem EXCEPT ![p] = MarkApplied(mem[p], mem[p].inFlight)]
      BY <1>8 DEF RecordApplied, EndSync
    <2> QED
      BY <2>1
  <1>9. ASSUME NEW p \in Proc, Crash(p) \/ OperatorStops(p)
        PROVE  HelperHasCommand'
    <2>1. Dies(p)
      BY <1>9 DEF Crash, OperatorStops, StopBridge
    <2> QED
      BY <2>1 DEF Dies
  <1>10. CASE RecoverRetry \/ RecoverApplied \/ OperatorAcceptsEpoch
    BY <1>10 DEF RecoverRetry, RecoverApplied, OperatorAcceptsEpoch, ResetQueueEpoch
  <1>11. CASE \E l \in List : MakeReadOnly(l) \/ MakeWritable(l)
    BY <1>11 DEF MakeReadOnly, MakeWritable
  <1> QED
    BY <1>1, <1>2, <1>3, <1>4, <1>5, <1>6, <1>7, <1>8, <1>9, <1>10, <1>11 DEF MacNext, Step

\* The steps of the Mac keep every variable in its type.
LEMMA TypesMac == Types /\ MacNext => Types'
  <1> SUFFICES ASSUME Types, MacNext PROVE Types'
    OBVIOUS
  <1>1. TypeOK /\ UNCHANGED haVars
    BY DEF Types, MacNext
  <1>2. TypeOK' /\ UNCHANGED rank
    <2>1. ASSUME NEW p \in Proc, Step(p) PROVE TypeOK' /\ UNCHANGED rank
      <3>1. CASE LoadState(p) \/ AcquireLock(p) \/ PostSnapshot(p) \/ PostFails(p)
        BY <1>1, <3>1, TypesStart
      <3>2. CASE RejectResponse(p) \/ AcceptResponse(p) \/ AdoptEpoch(p) \/ ConfirmSync(p)
        BY <1>1, <3>2, TypesResponse
      <3>3. CASE SkipApplied(p) \/ JournalCommand(p) \/ FinishWalk(p)
        BY <1>1, <3>3, TypesWalk
      <3>4. CASE HelperCommits(p) \/ HelperFails(p) \/ RecordApplied(p)
        <4>1. mem[p].inFlight \in Cmd
          BY <3>4 DEF Types, HelperHasCommand, HelperCommits, HelperFails, RecordApplied
        <4> QED
          BY <1>1, <3>4, <4>1, TypesHelper
      <3> QED
        BY <2>1, <3>1, <3>2, <3>3, <3>4 DEF Step
    <2>2. ASSUME NEW p \in Proc, Crash(p) \/ OperatorStops(p)
          PROVE  TypeOK' /\ UNCHANGED rank
      BY <1>1, <2>2, TypesDies DEF Types, HelperHasCommand
    <2> QED
      BY <1>1, <2>1, <2>2, TypesOperator DEF MacNext
  <1>3. HelperHasCommand'
    BY HelperHasCommandStep DEF Types
  <1>4. AcceptedCommands' = AcceptedCommands
    BY <1>2 DEF AcceptedCommands, IsAccepted
  <1> QED
    BY <1>2, <1>3, <1>4 DEF Types

\* Losing a request keeps every variable in its type.
LEMMA TypesNet == Types /\ NetNext => Types'
  <1> SUFFICES ASSUME Types, NEW i \in DOMAIN requests, LoseRequest(i), UNCHANGED <<haVars, macVars>>
               PROVE  Types'
    BY DEF NetNext
  <1> USE DEF Types, TypeOK, HelperHasCommand, haVars, macVars
  <1>1. requests' \in Seq(Request) /\ faults' \in [Fault -> Nat]
    BY RequestsType, SpendType DEF LoseRequest, Fault
  <1>2. AcceptedCommands' = AcceptedCommands
    BY DEF LoseRequest, AcceptedCommands, IsAccepted
  <1> QED
    BY <1>1, <1>2 DEF LoseRequest

\* Stuttering keeps every variable in its type.
LEMMA TypesStutter == Types /\ UNCHANGED vars => Types'
  BY DEF Types, TypeOK, HelperHasCommand, AcceptedCommands, IsAccepted, vars

\* Every state of the system is well typed and gives a helper a command.
THEOREM TypesInvariant == Spec => []Types
  <1>1. Types /\ [Next]_vars => Types'
    BY TypesMac, TypesHA, TypesNet, TypesStutter DEF Next
  <1> QED
    BY <1>1, TypesInit, PTL DEF Spec

\* Every state of the system is well typed: the records of state.go, of the
\* webhook's request and response and of runtime.py keep their shape.
THEOREM TypeCorrect == Spec => []TypeOK
  <1>1. Types => TypeOK
    BY DEF Types
  <1> QED
    BY <1>1, TypesInvariant, PTL
================================================================================
