--------------------------- MODULE CommandSyncJournal ---------------------------
(***************************************************************************)
(* The lock, the journal and the state file, for any number of bridge      *)
(* processes: every state stays one that Save writes and Load reads, and   *)
(* the helper of a process only ever runs for the command that the state   *)
(* file names, under the lock, and that belongs to the queue epoch on      *)
(* record there.                                                           *)
(***************************************************************************)
EXTENDS CommandSyncTypes

\* The lock has one holder, and it is the process past AcquireLock.
LockHeld == \A p \in Proc : pc[p] \in Locked <=> lock = p

\* What a process with a running helper has in memory is what is on disk.
JournalOnDisk == \A p \in Proc : pc[p] \in {"helper", "committed"} => disk = mem[p]

Journal == LockHeld /\ JournalOnDisk /\ StatesStayValid

\* Eviction keeps the ledger bounded, without duplicates, and adds nothing.
LEMMA NewestValid ==
    ASSUME NEW l \in Seq(Cmd), IsInjective(l), Len(l) <= LedgerCap + 1
    PROVE  /\ Len(Newest(l)) <= LedgerCap
           /\ IsInjective(Newest(l))
           /\ Range(Newest(l)) \subseteq Range(l)
  <1>1. Len(l) \in Nat /\ LedgerCap \in Nat
    BY LedgerCapAssumption
  <1>2. CASE Len(l) <= LedgerCap
    <2>1. Newest(l) = l
      BY <1>1, <1>2 DEF Newest
    <2> QED
      BY <1>2, <2>1
  <1>3. CASE Len(l) > LedgerCap
    <2>1. Len(l) = LedgerCap + 1 /\ Len(l) - LedgerCap + 1 = 2
      BY <1>1, <1>3
    <2>2. Newest(l) = SubSeq(l, 2, Len(l))
      BY <1>3, <2>1 DEF Newest
    <2>3. DOMAIN l = 1 .. LedgerCap + 1
      BY <2>1
    <2>4. /\ SubSeq(l, 2, Len(l)) \in Seq(Cmd)
          /\ Len(SubSeq(l, 2, Len(l))) = LedgerCap
          /\ \A i \in 1 .. LedgerCap : SubSeq(l, 2, Len(l))[i] = l[i + 1]
      <3>1. \A i \in 2 .. Len(l) : l[i] \in Cmd
        BY <1>1
      <3>2. /\ SubSeq(l, 2, Len(l)) \in Seq(Cmd)
            /\ Len(SubSeq(l, 2, Len(l))) =
                  IF 2 <= Len(l) THEN Len(l) - 2 + 1 ELSE 0
            /\ \A i \in 1 .. Len(l) - 2 + 1 : SubSeq(l, 2, Len(l))[i] = l[2 + i - 1]
        BY <1>1, <3>1, SubSeqProperties
      <3>3. /\ Len(l) - 2 + 1 = LedgerCap
            /\ 2 <= Len(l)
            /\ \A i \in 1 .. LedgerCap : 2 + i - 1 = i + 1
        BY <1>1, <2>1, LedgerCapAssumption
      <3> QED
        BY <3>2, <3>3
    <2>5. /\ DOMAIN Newest(l) = 1 .. LedgerCap
          /\ \A i \in 1 .. LedgerCap : Newest(l)[i] = l[i + 1]
      BY <2>2, <2>4
    <2>6. \A i \in 1 .. LedgerCap : i + 1 \in 1 .. LedgerCap + 1
      BY <1>1
    <2>7. IsInjective(Newest(l))
      BY <2>3, <2>5, <2>6 DEF IsInjective
    <2>8. Range(Newest(l)) \subseteq Range(l)
      BY <2>3, <2>5, <2>6 DEF Range
    <2> QED
      BY <1>1, <2>2, <2>4, <2>7, <2>8
  <1> QED
    BY <1>1, <1>2, <1>3

\* MarkApplied keeps a valid state valid, acknowledges nothing else, and leaves
\* no other command in flight than before.
LEMMA MarkAppliedValid ==
    ASSUME NEW s \in State, NEW c \in Cmd, Valid(s)
    PROVE  /\ Valid(MarkApplied(s, c))
           /\ Range(MarkApplied(s, c).applied) \subseteq Range(s.applied) \cup {c}
  <1> DEFINE t == MarkApplied(s, c)
             l == Append(s.applied, c)
  <1>1. s.applied \in Seq(Cmd) /\ s.inFlight \in Cmd \cup {NoCmd}
    BY DEF State
  <1>2. /\ t.inFlight = IF s.inFlight = c THEN NoCmd ELSE s.inFlight
        /\ t.applied = IF Has(s, c) THEN s.applied ELSE Newest(l)
    BY DEF MarkApplied, State
  <1>3. CASE Has(s, c)
    BY <1>1, <1>2, <1>3 DEF Valid, Has
  <1>4. CASE ~Has(s, c)
    <2>1. /\ l \in Seq(Cmd)
          /\ Len(l) = Len(s.applied) + 1
          /\ DOMAIN l = 1 .. Len(s.applied) + 1
          /\ \A i \in 1 .. Len(s.applied) : l[i] = s.applied[i]
          /\ l[Len(s.applied) + 1] = c
      BY <1>1
    <2>2. Len(s.applied) \in Nat /\ DOMAIN s.applied = 1 .. Len(s.applied)
      BY <1>1
    <2>3. IsInjective(l)
      BY <1>4, <2>1, <2>2 DEF IsInjective, Valid, Has, Range
    <2>4. Range(l) \subseteq Range(s.applied) \cup {c}
      BY <2>1, <2>2 DEF Range
    <2>5. Len(l) <= LedgerCap + 1
      BY <2>1, <2>2, LedgerCapAssumption DEF Valid
    <2>6. /\ Len(t.applied) <= LedgerCap
          /\ IsInjective(t.applied)
          /\ Range(t.applied) \subseteq Range(s.applied) \cup {c}
      BY <1>2, <1>4, <2>1, <2>3, <2>4, <2>5, NewestValid
    <2>7. t.inFlight # NoCmd => ~Has(t, t.inFlight)
      BY <1>2, <2>6 DEF Valid, Has
    <2> QED
      BY <2>6, <2>7 DEF Valid
  <1> QED
    BY <1>3, <1>4

\* Steps of a process that holds the lock and writes nothing: it stays past
\* AcquireLock and starts no helper.
Quiet(p) ==
    /\ UNCHANGED <<disk, lock, mem>>
    /\ pc[p] \in Locked
    /\ \E place \in Locked :
        /\ Goto(p, place)
        /\ place \in {"helper", "committed"} => pc[p] \in {"helper", "committed"}

\* The steps that touch neither the lock, nor a state, nor the place of a
\* helper leave each part of the journal invariant as it was.
LEMMA QuietSteps ==
    ASSUME TypeOK, NEW p \in Proc,
           \/ PostSnapshot(p) \/ PostFails(p) \/ RejectResponse(p) \/ AcceptResponse(p)
           \/ SkipApplied(p) \/ HelperCommits(p) \/ HelperFails(p)
           \/ FinishWalk(p) \/ ConfirmSync(p)
    PROVE  Quiet(p)
  <1> USE DEF Quiet, Locked, Place, EndSync, Goto
  <1>1. CASE PostSnapshot(p) \/ PostFails(p)
    BY <1>1 DEF PostSnapshot, PostFails
  <1>2. CASE RejectResponse(p) \/ AcceptResponse(p) \/ ConfirmSync(p)
    BY <1>2 DEF RejectResponse, AcceptResponse, ConfirmSync, Answered
  <1>3. CASE SkipApplied(p)
    <2>1. pc' = [pc EXCEPT ![p] = "walk"]
      BY <1>3 DEF SkipApplied, TypeOK
    <2> QED
      BY <1>3, <2>1 DEF SkipApplied
  <1>4. CASE HelperCommits(p) \/ HelperFails(p)
    BY <1>4 DEF HelperCommits, HelperFails
  <1>5. CASE FinishWalk(p)
    <2>1. pc' = [pc EXCEPT ![p] = "await2"] \/ pc' = [pc EXCEPT ![p] = "idle"]
      BY <1>5, Zenon DEF FinishWalk
    <2> QED
      BY <1>5, <2>1 DEF FinishWalk
  <1> QED
    BY <1>1, <1>2, <1>3, <1>4, <1>5

\* Steps of a process that holds the lock and saves a valid state s, or fails
\* to: if the process starts a helper, s is on disk.
Writes(p, s) ==
    /\ UNCHANGED lock
    /\ pc[p] \in Locked
    /\ disk' \in {disk, s}
    /\ \E t \in {mem[p], s} : mem' = [mem EXCEPT ![p] = t]
    /\ \/ Goto(p, "walk") \/ Goto(p, "idle")
       \/ Goto(p, "helper") /\ disk' = s /\ mem' = [mem EXCEPT ![p] = s]

\* s acknowledges no command that p had not acknowledged, but the one that its
\* helper has just committed.
AcknowledgesOnly(p, s) ==
    \A c \in Cmd : Has(s, c) =>
        \/ Has(mem[p], c)
        \/ pc[p] = "committed" /\ c = mem[p].inFlight

\* The steps that save a state leave the same valid state on disk and in the
\* memory of the process when its helper starts.
LEMMA WriteSteps ==
    ASSUME TypeOK, HelperHasCommand, StatesStayValid, NEW p \in Proc,
           AdoptEpoch(p) \/ JournalCommand(p) \/ RecordApplied(p)
    PROVE  \E s \in State :
              /\ Valid(s) /\ Writes(p, s)
              /\ AcknowledgesOnly(p, s)
  <1> USE DEF EndSync, Goto, SaveFails, Save
  <1>1. mem[p] \in State /\ Valid(mem[p]) /\ mem = [mem EXCEPT ![p] = mem[p]]
    BY DEF TypeOK, StatesStayValid
  <1>2. CASE AdoptEpoch(p)
    <2> DEFINE s == [mem[p] EXCEPT !.epoch = reply[p].epoch]
    <2>1. s \in State /\ Valid(s) /\ s.applied = mem[p].applied
      BY <1>1 DEF State, Valid, Has, TypeOK, Reply
    <2>2. pc[p] = "await" /\ UNCHANGED lock
      BY <1>2 DEF AdoptEpoch, Answered
    <2>3. Writes(p, s)
      BY <1>1, <1>2, <2>2 DEF AdoptEpoch, Writes, Locked, Place
    <2>4. AcknowledgesOnly(p, s)
      BY <2>1 DEF Has, AcknowledgesOnly
    <2> QED
      BY <2>1, <2>3, <2>4
  <1>3. CASE JournalCommand(p)
    <2> PICK c \in todo[p] :
          LET s == [mem[p] EXCEPT !.inFlight = c] IN
          /\ ~Has(mem[p], c)
          /\ mem' = [mem EXCEPT ![p] = s]
          /\ \/ disk' = s /\ pc' = [pc EXCEPT ![p] = "helper"]
             \/ disk' \in {disk, s} /\ pc' = [pc EXCEPT ![p] = "idle"]
      BY <1>3 DEF JournalCommand
    <2> DEFINE s == [mem[p] EXCEPT !.inFlight = c]
    <2>1. s \in State /\ Valid(s) /\ s.applied = mem[p].applied
      BY <1>1 DEF State, Valid, Has, TypeOK
    <2>2. pc[p] = "walk" /\ UNCHANGED lock
      BY <1>3 DEF JournalCommand
    <2>3. Writes(p, s)
      BY <2>2 DEF Writes, Locked, Place
    <2>4. AcknowledgesOnly(p, s)
      BY <2>1 DEF Has, AcknowledgesOnly
    <2> QED
      BY <2>1, <2>3, <2>4
  <1>4. CASE RecordApplied(p)
    <2> DEFINE s == MarkApplied(mem[p], mem[p].inFlight)
    <2>1. pc[p] = "committed" /\ UNCHANGED lock /\ mem[p].inFlight \in Cmd
      BY <1>4 DEF RecordApplied, HelperHasCommand
    <2>2. s \in State /\ Valid(s) /\ Range(s.applied) \subseteq Range(mem[p].applied) \cup {mem[p].inFlight}
      BY <1>1, <2>1, MarkAppliedType, MarkAppliedValid
    <2>3. Writes(p, s)
      BY <1>4, <2>1 DEF RecordApplied, Writes, Locked, Place
    <2>4. AcknowledgesOnly(p, s)
      BY <2>1, <2>2 DEF Has, AcknowledgesOnly
    <2> QED
      BY <2>2, <2>3, <2>4
  <1> QED
    BY <1>2, <1>3, <1>4

\* The state of a Mac without a state file is valid.
LEMMA EmptyValid == Valid(EmptyState)
  BY LedgerCapAssumption DEF EmptyState, Valid, IsInjective, Has, Range, NoEpoch

\* No process runs when the system starts.
LEMMA JournalInit == Init => Journal
  BY EmptyValid, NoProcAssumption
  DEF Init, MacInit, Journal, LockHeld, JournalOnDisk, StatesStayValid, Locked, Place

\* The journal invariant is preserved by the steps that save nothing.
LEMMA JournalQuiet ==
    ASSUME TypeOK, Journal, NEW p \in Proc, Quiet(p)
    PROVE  Journal'
  BY DEF TypeOK, Journal, LockHeld, JournalOnDisk, StatesStayValid, Quiet, Goto

\* The journal invariant is preserved by the steps that save a state.
LEMMA JournalWrites ==
    ASSUME TypeOK, Journal, NEW p \in Proc, NEW s \in State, Valid(s), Writes(p, s)
    PROVE  Journal'
  <1>1. pc \in [Proc -> Place] /\ mem \in [Proc -> State]
    BY DEF TypeOK
  <1>2. LockHeld'
    BY <1>1 DEF LockHeld, Journal, Writes, Goto, Locked, Place
  <1>3. \A q \in Proc \ {p} : pc[q] \notin Locked /\ pc'[q] = pc[q] /\ mem'[q] = mem[q]
    BY <1>1 DEF LockHeld, Journal, Writes, Goto
  <1>4. pc'[p] \in {"helper", "committed"} => disk' = mem'[p]
    BY <1>1 DEF Writes, Goto
  <1>5. JournalOnDisk'
    BY <1>3, <1>4 DEF JournalOnDisk, Locked, Place
  <1>6. disk' \in {disk, s} /\ mem'[p] \in {mem[p], s}
    BY <1>1 DEF Writes
  <1>7. StatesStayValid'
    BY <1>3, <1>6 DEF StatesStayValid, Journal
  <1> QED
    BY <1>2, <1>5, <1>7 DEF Journal

\* The journal invariant is preserved when a process loads its state, takes
\* the lock, stops or crashes.
LEMMA JournalStartStop ==
    ASSUME TypeOK, Journal, NEW p \in Proc,
           LoadState(p) \/ AcquireLock(p) \/ Crash(p) \/ OperatorStops(p)
    PROVE  Journal'
  <1> USE DEF TypeOK, Journal, LockHeld, JournalOnDisk, StatesStayValid, Goto, Locked, Place
  <1>1. CASE LoadState(p)
    BY <1>1 DEF LoadState
  <1>2. CASE AcquireLock(p)
    <2>1. \/ lock = NoProc /\ lock' = p /\ Goto(p, "idle") /\ UNCHANGED mem
          \/ lock # NoProc /\ UNCHANGED lock /\ Goto(p, "down") /\ mem' = [mem EXCEPT ![p] = EmptyState]
      BY <1>2 DEF AcquireLock
    <2>2. pc[p] = "loaded" /\ UNCHANGED disk
      BY <1>2 DEF AcquireLock
    <2>3. LockHeld'
      BY <2>1, <2>2, NoProcAssumption
    <2>4. JournalOnDisk'
      BY <2>1, <2>2
    <2>5. StatesStayValid'
      BY <2>1, <2>2, EmptyValid
    <2> QED
      BY <2>3, <2>4, <2>5
  <1>3. CASE Crash(p) \/ OperatorStops(p)
    <2>1. Dies(p)
      BY <1>3 DEF Crash, OperatorStops, StopBridge
    <2> QED
      BY <2>1, EmptyValid, NoProcAssumption DEF Dies
  <1> QED
    BY <1>1, <1>2, <1>3

\* The journal invariant is preserved by the operator, who needs the lock.
LEMMA JournalOperator ==
    ASSUME TypeOK, Journal,
           \/ RecoverRetry \/ RecoverApplied \/ OperatorAcceptsEpoch
           \/ \E l \in List : MakeReadOnly(l) \/ MakeWritable(l)
    PROVE  Journal'
  <1>1. UNCHANGED <<lock, pc, mem>>
    BY DEF RecoverRetry, RecoverApplied, OperatorAcceptsEpoch, ResetQueueEpoch,
           MakeReadOnly, MakeWritable
  <1>2. CASE \E l \in List : MakeReadOnly(l) \/ MakeWritable(l)
    <2>1. UNCHANGED disk
      BY <1>2 DEF MakeReadOnly, MakeWritable
    <2> QED
      BY <1>1, <2>1 DEF Journal, LockHeld, JournalOnDisk, StatesStayValid
  <1>3. CASE RecoverRetry \/ RecoverApplied \/ OperatorAcceptsEpoch
    <2>1. lock = NoProc /\ Valid(disk')
      BY <1>3 DEF RecoverRetry, RecoverApplied, OperatorAcceptsEpoch, ResetQueueEpoch, Save
    <2>2. \A p \in Proc : pc[p] \notin Locked
      BY <2>1, NoProcAssumption DEF Journal, LockHeld
    <2> QED
      BY <1>1, <2>1, <2>2
      DEF Journal, LockHeld, JournalOnDisk, StatesStayValid, Locked, Place
  <1> QED
    BY <1>2, <1>3

\* Every step preserves the journal invariant.
LEMMA JournalNext == Types /\ Journal /\ [Next]_vars => Journal'
  <1> SUFFICES ASSUME Types, Journal, [Next]_vars PROVE Journal'
    OBVIOUS
  <1>1. TypeOK /\ HelperHasCommand /\ StatesStayValid
    BY DEF Types, Journal
  <1>2. CASE UNCHANGED macVars
    BY <1>2 DEF Journal, LockHeld, JournalOnDisk, StatesStayValid, macVars
  <1>3. CASE MacNext
    <2>1. ASSUME NEW p \in Proc, Step(p)
          PROVE  Journal'
      <3>1. CASE \/ PostSnapshot(p) \/ PostFails(p) \/ RejectResponse(p) \/ AcceptResponse(p)
                 \/ SkipApplied(p) \/ HelperCommits(p) \/ HelperFails(p)
                 \/ FinishWalk(p) \/ ConfirmSync(p)
        BY <1>1, <3>1, QuietSteps, JournalQuiet
      <3>2. CASE AdoptEpoch(p) \/ JournalCommand(p) \/ RecordApplied(p)
        BY <1>1, <3>2, WriteSteps, JournalWrites
      <3>3. CASE LoadState(p) \/ AcquireLock(p)
        BY <1>1, <3>3, JournalStartStop
      <3> QED
        BY <2>1, <3>1, <3>2, <3>3 DEF Step
    <2>2. ASSUME NEW p \in Proc, Crash(p) \/ OperatorStops(p)
          PROVE  Journal'
      BY <1>1, <2>2, JournalStartStop
    <2> QED
      BY <1>1, <1>3, <2>1, <2>2, JournalOperator DEF MacNext
  <1> QED
    BY <1>2, <1>3 DEF Next, HANext, NetNext, vars, macVars

\* The journal invariant holds in every reachable state: one process at a time
\* holds the lock, a running helper's command is the one journalled on disk,
\* and every state is one that state.go accepts.
THEOREM JournalInvariant == Spec => []Journal
  BY JournalInit, JournalNext, TypesInvariant, PTL DEF Spec

\* No crash, failed save, eviction or recovery ever leaves a state that Save
\* would refuse or the next Load could not read (state.go validate), however
\* many processes share the state file.
THEOREM StatesAlwaysValid == Spec => []StatesStayValid
  <1>1. Journal => StatesStayValid
    BY DEF Journal
  <1> QED
    BY <1>1, JournalInvariant, PTL

\* EventKit is only ever changed by the one process that holds the lock, with
\* the command on record in the state file (client.go SyncOnce).
THEOREM EffectsAreJournalled == Spec => []JournalledBeforeEffect
  <1>1. Types /\ Journal => JournalledBeforeEffect
    BY NoProcAssumption
    DEF Types, HelperHasCommand, Journal, LockHeld, JournalOnDisk, JournalledBeforeEffect,
        Locked, Place
  <1> QED
    BY <1>1, TypesInvariant, JournalInvariant, PTL

(***************************************************************************)
(* The queue-epoch fence, for any number of bridge processes: no command   *)
(* of another queue than the one the Mac has accepted is ever executed.    *)
(* The epoch of a command is followed from the queue into the response,    *)
(* from there into the list a process walks, and from there to the helper. *)
(***************************************************************************)

\* c was accepted by Home Assistant, in epoch e.
Fenced(c, e) == rank[c] # 0 /\ epochOf[c] = e

QueueFenced == \A c \in queue : Fenced(c, haEpoch)
RepliesFenced == \A p \in Proc : \A c \in reply[p].commands : Fenced(c, reply[p].epoch)

\* What process p has still to walk, and what its helper runs for.
WalkFenced(p) ==
    /\ \A c \in todo[p] : Fenced(c, mem[p].epoch)
    /\ todo[p] # {} => pc[p] \in {"walk", "helper", "committed"}
    /\ pc[p] \in {"helper", "committed"} => Fenced(mem[p].inFlight, mem[p].epoch)

Fence == QueueFenced /\ RepliesFenced /\ \A p \in Proc : WalkFenced(p)

\* No epoch has been seen and no command accepted when the system starts.
LEMMA FenceInit == Init => Fence
  BY DEF Init, HAInit, MacInit, NoReply, Fence, QueueFenced, RepliesFenced, WalkFenced

\* A response of accepted commands, of the epoch it carries, keeps the replies
\* fenced.
LEMMA ReplyFenced ==
    ASSUME TypeOK, RepliesFenced, NEW p \in Proc, NEW r,
           \A c \in r.commands : Fenced(c, r.epoch),
           reply' = reply \/ reply' = [reply EXCEPT ![p] = r],
           UNCHANGED <<epochOf, rank>>
    PROVE  RepliesFenced'
  <1>1. CASE reply' = reply
    BY <1>1 DEF RepliesFenced, Fenced
  <1>2. CASE reply' = [reply EXCEPT ![p] = r]
    <2>1. reply'[p] = r /\ \A q \in Proc \ {p} : reply'[q] = reply[q]
      BY <1>2 DEF TypeOK
    <2> QED
      BY <2>1 DEF RepliesFenced, Fenced
  <1> QED
    BY <1>1, <1>2

\* Home Assistant accepts a command in its present epoch, answers with
\* commands of that epoch only, and forgets its queue when the epoch changes.
LEMMA FenceHA ==
    ASSUME Types, Fence, HANext
    PROVE  Fence'
  <1> USE DEF Types, TypeOK, Fence, QueueFenced, RepliesFenced, WalkFenced, Fenced,
              netVars, haVars
  <1>1. UNCHANGED <<pc, mem, todo>>
    BY DEF HANext, macVars
  <1>2. ASSUME NEW c \in Cmd, QueueCommand(c)
        PROVE  Fence'
    <2>1. Cardinality(AcceptedCommands) \in Nat
      BY FS_CardinalityType
    <2>2. rank[c] = 0 /\ rank'[c] # 0 /\ epochOf'[c] = haEpoch
      BY <1>2, <2>1 DEF QueueCommand, IsAccepted
    <2>3. \A d \in Cmd \ {c} : rank'[d] = rank[d] /\ epochOf'[d] = epochOf[d]
      BY <1>2 DEF QueueCommand
    <2>4. \A d \in Cmd : rank[d] # 0 => d # c
      BY <2>2
    <2>5. queue' = queue \cup {c} /\ haEpoch' = haEpoch /\ reply' = reply
      BY <1>2 DEF QueueCommand
    <2>6. QueueFenced'
      BY <2>2, <2>3, <2>5
    <2>7. RepliesFenced'
      BY <2>3, <2>4, <2>5 DEF Reply
    <2>8. \A p \in Proc : WalkFenced(p)'
      BY <1>1, <2>3, <2>4 DEF HelperHasCommand
    <2> QED
      BY <2>6, <2>7, <2>8
  <1>3. ASSUME NEW i \in DOMAIN requests, AcceptSnapshot(i)
        PROVE  Fence'
    <2> DEFINE r == requests[i]
               response == [kind |-> "ok", epoch |-> haEpoch, commands |-> Deliverable(r)]
    <2>1. /\ UNCHANGED <<haEpoch, epochOf, rank>>
          /\ queue' \subseteq queue
      BY <1>3 DEF AcceptSnapshot
    <2>2. r.from \in Proc
      BY RequestsType DEF Request
    <2>3. reply' = reply \/ reply' = [reply EXCEPT ![r.from] = response]
      BY <1>3, Zenon DEF AcceptSnapshot, Answer
    <2>4. \A c \in response.commands : Fenced(c, response.epoch)
      BY DEF Deliverable
    <2>5. RepliesFenced'
      <3> HIDE DEF response, TypeOK, RepliesFenced, Fenced
      <3> QED
        BY <2>1, <2>2, <2>3, <2>4, ReplyFenced DEF Fence
    <2> QED
      BY <1>1, <2>1, <2>5
  <1>4. ASSUME NEW i \in DOMAIN requests, RejectSnapshot(i)
        PROVE  Fence'
    <2>1. UNCHANGED <<queue, haEpoch, epochOf, rank>>
      BY <1>4 DEF RejectSnapshot
    <2>2. requests[i].from \in Proc
      BY RequestsType DEF Request
    <2>3. reply' = reply \/ reply' = [reply EXCEPT ![requests[i].from] = ErrorReply]
      BY <1>4, Zenon DEF RejectSnapshot, Answer
    <2>4. ErrorReply.commands = {}
      BY DEF ErrorReply
    <2>5. RepliesFenced'
      <3> HIDE DEF TypeOK, RepliesFenced, Fenced
      <3> QED
        BY <2>1, <2>2, <2>3, <2>4, ReplyFenced DEF Fence
    <2> QED
      BY <1>1, <2>1, <2>5
  <1>5. CASE NewStorage
    <2>1. queue' = {} /\ UNCHANGED <<epochOf, reply, rank>>
      BY <1>5 DEF NewStorage
    <2> QED
      BY <1>1, <2>1
  <1> QED
    BY <1>2, <1>3, <1>4, <1>5 DEF HANext

\* What a step of a bridge leaves alone.
LEMMA MacFrame ==
    ASSUME TypeOK, HelperHasCommand, MacNext
    PROVE  UNCHANGED <<queue, haEpoch, haView, haWritable, epochOf, rank>>
  <1>1. ASSUME NEW p \in Proc, Step(p) PROVE UNCHANGED rank
    BY <1>1 DEF Step, LoadState, AcquireLock, PostSnapshot, PostFails, RejectResponse,
       AcceptResponse, AdoptEpoch, SkipApplied, JournalCommand, HelperCommits, HelperFails,
       RecordApplied, FinishWalk, ConfirmSync
  <1>2. ASSUME NEW p \in Proc, Crash(p) \/ OperatorStops(p) PROVE UNCHANGED rank
    BY <1>2 DEF Crash, OperatorStops, StopBridge, Dies
  <1>3. ASSUME RecoverRetry \/ RecoverApplied \/ OperatorAcceptsEpoch PROVE UNCHANGED rank
    BY <1>3 DEF RecoverRetry, RecoverApplied, OperatorAcceptsEpoch, ResetQueueEpoch
  <1>4. ASSUME NEW l \in List, MakeReadOnly(l) \/ MakeWritable(l) PROVE UNCHANGED rank
    BY <1>4 DEF MakeReadOnly, MakeWritable
  <1>5. UNCHANGED rank
    BY <1>1, <1>2, <1>3, <1>4 DEF MacNext
  <1> QED
    BY <1>5 DEF MacNext, haVars

\* A step of one process leaves the others where they are, and takes at most
\* its own response.
LEMMA ProcessFrame ==
    ASSUME TypeOK, NEW p \in Proc, Step(p) \/ Crash(p) \/ OperatorStops(p)
    PROVE  /\ \A q \in Proc \ {p} : pc'[q] = pc[q] /\ mem'[q] = mem[q] /\ todo'[q] = todo[q]
           /\ reply' = reply \/ reply' = [reply EXCEPT ![p] = NoReply]
  <1> USE DEF TypeOK, Goto, EndSync, netVars
  <1>1. CASE LoadState(p) \/ AcquireLock(p)
    BY <1>1 DEF LoadState, AcquireLock
  <1>2. CASE PostSnapshot(p)
    BY <1>2 DEF PostSnapshot, Post
  <1>3. CASE PostFails(p)
    BY <1>3 DEF PostFails
  <1>4. CASE RejectResponse(p) \/ ConfirmSync(p) \/ AcceptResponse(p)
    BY <1>4 DEF RejectResponse, ConfirmSync, AcceptResponse, Consume
  <1>5. CASE AdoptEpoch(p)
    BY <1>5 DEF AdoptEpoch, Consume
  <1>6. CASE SkipApplied(p)
    BY <1>6 DEF SkipApplied
  <1>7. CASE JournalCommand(p)
    BY <1>7 DEF JournalCommand
  <1>8. CASE HelperCommits(p)
    BY <1>8 DEF HelperCommits
  <1>9. CASE HelperFails(p)
    BY <1>9 DEF HelperFails
  <1>10. CASE RecordApplied(p)
    BY <1>10 DEF RecordApplied
  <1>11. CASE FinishWalk(p)
    <2>1. UNCHANGED <<mem, reply>> /\ ((Goto(p, "await2") /\ UNCHANGED todo) \/ EndSync(p))
      BY <1>11, Zenon DEF FinishWalk, Post
    <2> QED
      BY <2>1
  <1>12. CASE Crash(p) \/ OperatorStops(p)
    <2>1. Dies(p)
      BY <1>12 DEF Crash, OperatorStops, StopBridge
    <2> QED
      BY <2>1 DEF Dies
  <1> QED
    BY <1>1, <1>2, <1>3, <1>4, <1>5, <1>6, <1>7, <1>8, <1>9, <1>10, <1>11, <1>12 DEF Step

\* So it keeps the fence if it does so for itself.
LEMMA FenceLocal ==
    ASSUME TypeOK, Fence, NEW p \in Proc, Step(p) \/ Crash(p) \/ OperatorStops(p),
           UNCHANGED <<queue, haEpoch, epochOf, rank>>, WalkFenced(p)'
    PROVE  Fence'
  <1>1. QueueFenced'
    BY DEF Fence, QueueFenced, Fenced
  <1>2. RepliesFenced'
    <2>1. NoReply.commands = {}
      BY DEF NoReply
    <2> QED
      BY <2>1, ProcessFrame, ReplyFenced DEF Fence
  <1>3. ASSUME NEW q \in Proc PROVE WalkFenced(q)'
    BY ProcessFrame DEF Fence, WalkFenced, Fenced
  <1> QED
    BY <1>1, <1>2, <1>3 DEF Fence

\* The commands a process walks come from a response whose epoch it has
\* accepted; nothing changes that epoch before they are walked.
LEMMA WalkFencedStep ==
    ASSUME TypeOK, Fence, NEW p \in Proc, Step(p) \/ Crash(p) \/ OperatorStops(p),
           UNCHANGED <<epochOf, rank>>
    PROVE  WalkFenced(p)'
  <1> USE DEF TypeOK, WalkFenced, Fenced, Goto, netVars
  <1>1. WalkFenced(p)
    BY DEF Fence
  <1>2. CASE LoadState(p) \/ AcquireLock(p)
    <2>1. pc[p] \in {"down", "loaded"} /\ UNCHANGED todo
      BY <1>2 DEF LoadState, AcquireLock
    <2>2. pc'[p] \notin {"helper", "committed"}
      BY <1>2 DEF LoadState, AcquireLock
    <2> QED
      BY <1>1, <2>1, <2>2
  <1>3. CASE EndSync(p)
    BY <1>3 DEF EndSync
  <1>4. CASE Crash(p) \/ OperatorStops(p)
    <2>1. Dies(p)
      BY <1>4 DEF Crash, OperatorStops, StopBridge
    <2> QED
      BY <2>1 DEF Dies
  <1>5. CASE PostSnapshot(p)
    BY <1>1, <1>5 DEF PostSnapshot
  <1>6. CASE AcceptResponse(p)
    BY <1>6 DEF AcceptResponse, Fence, RepliesFenced
  <1>7. CASE AdoptEpoch(p) /\ ~EndSync(p)
    <2>1. pc'[p] = "walk" /\ todo'[p] = reply[p].commands
      BY <1>7 DEF AdoptEpoch
    <2>2. mem'[p].epoch = reply[p].epoch
      BY <1>7 DEF AdoptEpoch, State
    <2> QED
      BY <2>1, <2>2 DEF Fence, RepliesFenced
  <1>8. CASE SkipApplied(p)
    BY <1>1, <1>8 DEF SkipApplied
  <1>9. CASE JournalCommand(p) /\ ~EndSync(p)
    <2> PICK c \in todo[p] :
          /\ mem' = [mem EXCEPT ![p] = [mem[p] EXCEPT !.inFlight = c]]
          /\ Goto(p, "helper")
          /\ todo' = [todo EXCEPT ![p] = @ \ {c}]
      BY <1>9 DEF JournalCommand
    <2>1. mem'[p].inFlight = c /\ mem'[p].epoch = mem[p].epoch
      BY DEF State
    <2> QED
      BY <1>1, <2>1
  <1>10. CASE HelperCommits(p)
    BY <1>1, <1>10 DEF HelperCommits
  <1>11. CASE RecordApplied(p) /\ ~EndSync(p)
    <2>1. pc'[p] = "walk" /\ UNCHANGED todo
      BY <1>11 DEF RecordApplied
    <2>2. mem'[p].epoch = mem[p].epoch
      BY <1>11 DEF RecordApplied, MarkApplied, State
    <2> QED
      BY <1>1, <2>1, <2>2
  <1>12. CASE FinishWalk(p) /\ ~EndSync(p)
    <2>1. todo[p] = {} /\ Goto(p, "await2") /\ UNCHANGED todo
      BY <1>12, Zenon DEF FinishWalk
    <2> QED
      BY <2>1
  <1> QED
    BY <1>2, <1>3, <1>4, <1>5, <1>6, <1>7, <1>8, <1>9, <1>10, <1>11, <1>12
    DEF Step, PostFails, RejectResponse, HelperFails, ConfirmSync

\* recover and reset-queue-epoch find the lock free: no process has commands
\* of the old epoch to walk.
LEMMA FenceOperator ==
    ASSUME Fence,
           \/ RecoverRetry \/ RecoverApplied \/ OperatorAcceptsEpoch
           \/ \E l \in List : MakeReadOnly(l) \/ MakeWritable(l),
           UNCHANGED <<queue, haEpoch, epochOf, rank>>
    PROVE  Fence'
  <1>1. UNCHANGED <<pc, mem, todo, reply>>
    BY DEF RecoverRetry, RecoverApplied, OperatorAcceptsEpoch, ResetQueueEpoch,
           MakeReadOnly, MakeWritable, netVars
  <1> QED
    BY <1>1 DEF Fence, QueueFenced, RepliesFenced, WalkFenced, Fenced

\* Every step preserves the epoch invariant.
LEMMA FenceNext == Types /\ Fence /\ [Next]_vars => Fence'
  <1> SUFFICES ASSUME Types, Fence, [Next]_vars PROVE Fence'
    OBVIOUS
  <1>1. TypeOK /\ HelperHasCommand
    BY DEF Types
  <1>2. CASE MacNext
    <2>1. UNCHANGED <<queue, haEpoch, epochOf, rank>>
      BY <1>1, <1>2, MacFrame
    <2>2. ASSUME NEW p \in Proc, Step(p) \/ Crash(p) \/ OperatorStops(p)
          PROVE  Fence'
      BY <1>1, <2>1, <2>2, WalkFencedStep, FenceLocal
    <2> QED
      BY <1>2, <2>1, <2>2, FenceOperator DEF MacNext
  <1>3. CASE HANext
    BY <1>3, FenceHA
  <1>4. CASE NetNext \/ UNCHANGED vars
    <2>1. UNCHANGED <<queue, haEpoch, epochOf, rank, pc, mem, todo, reply>>
      BY <1>4 DEF NetNext, LoseRequest, haVars, macVars, vars
    <2> QED
      BY <2>1 DEF Fence, QueueFenced, RepliesFenced, WalkFenced, Fenced
  <1> QED
    BY <1>2, <1>3, <1>4 DEF Next

\* The epoch invariant holds in every reachable state: what a bridge walks or
\* executes belongs to the epoch in its state file (client.go:335-359).
THEOREM FenceInvariant == Spec => []Fence
  BY FenceInit, FenceNext, TypesInvariant, PTL DEF Spec

\* Whatever Home Assistant's storage loses, and however late its responses
\* arrive, a helper only runs for a command of the queue epoch that is on
\* record in the state file (client.go acceptQueueEpoch).
THEOREM EpochsAreFenced == Spec => []EpochFence
  <1>1. Journal /\ Fence => EpochFence
    BY DEF Journal, JournalOnDisk, Fence, WalkFenced, Fenced, EpochFence
  <1> QED
    BY <1>1, JournalInvariant, FenceInvariant, PTL

\* A bridge that holds the lock and has an epoch keeps it: only acceptQueueEpoch
\* sets one, and only where there is none (client.go:343-359).
THEOREM EpochIsNotReplaced == Spec => NoSilentAdoption
  <1>1. ASSUME TypeOK, Journal, [Next]_vars, NEW p \in Proc,
               lock = p, lock' = p, mem[p].epoch # NoEpoch
        PROVE  mem'[p].epoch = mem[p].epoch
    <2>1. mem \in [Proc -> State] /\ pc[p] \in Locked /\ p # NoProc
      BY <1>1, NoProcAssumption DEF TypeOK, Journal, LockHeld
    <2>2. CASE UNCHANGED mem
      BY <2>2
    <2>3. ASSUME NEW q \in Proc, Step(q), mem' # mem PROVE mem'[p].epoch = mem[p].epoch
      <3>1. CASE LoadState(q)
        BY <1>1, <2>1, <3>1 DEF LoadState, Locked
      <3>2. CASE AcquireLock(q)
        BY <1>1, <2>1, <2>3, <3>2 DEF AcquireLock, Goto, Locked
      <3>3. CASE AdoptEpoch(q)
        BY <1>1, <2>1, <3>3 DEF AdoptEpoch
      <3>4. CASE JournalCommand(q)
        BY <1>1, <2>1, <3>4 DEF JournalCommand, State
      <3>5. CASE RecordApplied(q)
        BY <1>1, <2>1, <3>5 DEF RecordApplied, MarkApplied, State
      <3> QED
        BY <1>1, <2>3, <3>1, <3>2, <3>3, <3>4, <3>5, QuietSteps DEF Step, Quiet
    <2>4. ASSUME NEW q \in Proc, Dies(q) PROVE mem'[p].epoch = mem[p].epoch
      BY <1>1, <2>1, <2>4 DEF Dies
    <2>5. CASE MacNext
      BY <2>2, <2>3, <2>4, <2>5 DEF MacNext, Crash, OperatorStops, StopBridge, RecoverRetry,
         RecoverApplied, OperatorAcceptsEpoch, ResetQueueEpoch, MakeReadOnly, MakeWritable
    <2>6. CASE HANext \/ NetNext \/ UNCHANGED vars
      BY <2>2, <2>6 DEF HANext, NetNext, macVars, vars
    <2> QED
      BY <1>1, <2>5, <2>6 DEF Next
  <1> DEFINE Keeps(p) == lock = p /\ lock' = p /\ mem[p].epoch # NoEpoch =>
                            mem'[p].epoch = mem[p].epoch
  <1>2. Types /\ Journal /\ [Next]_vars => [\A p \in Proc : Keeps(p)]_vars
    BY <1>1 DEF Types
  <1> QED
    BY <1>2, TypesInvariant, JournalInvariant, PTL DEF Spec, NoSilentAdoption
================================================================================
