---------------------------- MODULE CommandSyncViews ----------------------------
(***************************************************************************)
(* No edit disappears, for any number of bridge processes and whatever is  *)
(* lost, late or reordered on the way.  The argument: what a process       *)
(* acknowledges, EventKit shows or the operator attested; what a snapshot  *)
(* acknowledges, it therefore shows itself; and a snapshot that Home       *)
(* Assistant may still accept shows whatever the last accepted one did.    *)
(***************************************************************************)
EXTENDS CommandSyncJournal

\* The commands of this epoch that Home Assistant has let go of.
Settled == {c \in AcceptedCommands \ (queue \cup attested) : epochOf[c] = haEpoch}

LedgerShown(s) == \A c \in Cmd : Has(s, c) => c \in shown \cup attested

LedgersShown ==
    /\ LedgerShown(disk)
    /\ \A p \in Proc :
        /\ LedgerShown(mem[p])
        /\ pc[p] = "committed" => mem[p].inFlight \in shown

RequestShows(r) ==
    /\ r.acked \subseteq r.view \cup attested
    /\ r.view \subseteq shown
    /\ ~r.stale => Settled \subseteq r.view

RequestsShow ==
    /\ \A i \in 1 .. Len(requests) : RequestShows(requests[i])
    /\ \A i, j \in 1 .. Len(requests) : i < j => requests[i].view \subseteq requests[j].view

Views ==
    /\ LedgersShown
    /\ RequestsShow
    /\ Settled \subseteq haView
    /\ haView \subseteq shown
    /\ \A c \in Cmd : epochOf[c] <= haEpoch

\* Nothing is acknowledged when the system starts.
LEMMA ViewsInit == Init => Views
  <1> SUFFICES ASSUME Init PROVE Views
    OBVIOUS
  <1>1. \A c \in Cmd : ~Has(EmptyState, c)
    BY DEF EmptyState, Has, Range
  <1>2. Settled = {}
    BY DEF Settled, AcceptedCommands, IsAccepted, Init
  <1>3. Len(requests) = 0
    BY DEF Init
  <1>4. LedgersShown
    BY <1>1 DEF Init, MacInit, LedgersShown, LedgerShown
  <1>5. RequestsShow
    BY <1>3 DEF RequestsShow
  <1> QED
    BY <1>2, <1>4, <1>5 DEF Views, Init, HAInit, MacInit, NoEpoch

\* What a command that a step may settle does to the rest.
LEMMA ViewsMonotone ==
    ASSUME TypeOK, Views, shown \subseteq shown', attested \subseteq attested',
           UNCHANGED <<queue, haEpoch, haView, epochOf, rank>>
    PROVE  /\ Settled' \subseteq Settled
           /\ \A r \in Request : RequestShows(r) => RequestShows(r)'
           /\ \A s \in State : LedgerShown(s) => LedgerShown(s)'
  <1>1. Settled' \subseteq Settled
    BY DEF Settled, AcceptedCommands, IsAccepted
  <1> QED
    BY <1>1 DEF RequestShows, LedgerShown, Has, State

\* Abandoned requests show what they did.
LEMMA AbandonedShows ==
    ASSUME TypeOK, NEW p \in Proc, requests' = Abandoned(p)
    PROVE  /\ Len(requests') = Len(requests)
           /\ \A j \in 1 .. Len(requests) :
                /\ requests'[j].acked = requests[j].acked
                /\ requests'[j].view = requests[j].view
                /\ requests'[j].stale = requests[j].stale
  <1>1. /\ Len(requests) \in Nat
        /\ \A j \in 1 .. Len(requests) : requests[j] \in Request
    BY DEF TypeOK
  <1>2. /\ Len(requests') = Len(requests)
        /\ \A j \in 1 .. Len(requests) :
             requests'[j] = IF requests[j].from = p THEN [requests[j] EXCEPT !.awaited = FALSE]
                                                    ELSE requests[j]
    BY <1>1 DEF Abandoned
  <1>3. \A r \in Request : /\ [r EXCEPT !.awaited = FALSE].acked = r.acked
                           /\ [r EXCEPT !.awaited = FALSE].view = r.view
                           /\ [r EXCEPT !.awaited = FALSE].stale = r.stale
    BY DEF Request
  <1> QED
    BY <1>1, <1>2, <1>3

\* Where the j-th request that is left after the delivery of the i-th was.
Was(i, j) == IF j < i THEN j ELSE j + 1

\* The delivery of the i-th request leaves what the others show, and makes what
\* was sent before an accepted one stale.
LEMMA DeliveredShows ==
    ASSUME TypeOK, NEW i \in DOMAIN requests, requests' \in {Without(i), Accepted(i)}
    PROVE  /\ Len(requests') = Len(requests) - 1
           /\ \A j \in 1 .. Len(requests') :
                /\ Was(i, j) \in 1 .. Len(requests)
                /\ requests'[j].acked = requests[Was(i, j)].acked
                /\ requests'[j].view = requests[Was(i, j)].view
                /\ requests[Was(i, j)].stale => requests'[j].stale
                /\ requests' = Accepted(i) /\ j < i => requests'[j].stale
           /\ \A j, k \in 1 .. Len(requests') : j < k => Was(i, j) < Was(i, k)
  <1>1. /\ Len(requests) \in Nat \ {0}
        /\ i \in 1 .. Len(requests)
        /\ \A j \in 1 .. Len(requests) : requests[j] \in Request
    BY DEF TypeOK
  <1>2. Len(requests) - 1 \in Nat
    BY <1>1
  <1>3. \A r \in Request : /\ [r EXCEPT !.stale = TRUE].acked = r.acked
                           /\ [r EXCEPT !.stale = TRUE].view = r.view
                           /\ [r EXCEPT !.stale = TRUE].stale = TRUE
    BY DEF Request
  <1>4. Len(requests') = Len(requests) - 1
    BY <1>2 DEF Without, Accepted
  <1>5. \A j \in 1 .. Len(requests) - 1 : Was(i, j) \in 1 .. Len(requests)
    BY <1>1 DEF Was
  <1>6. \A j, k \in 1 .. Len(requests) - 1 : j < k => Was(i, j) < Was(i, k)
    BY <1>1 DEF Was
  <1>7. ASSUME requests' = Without(i), NEW j \in 1 .. Len(requests) - 1
        PROVE  requests'[j] = requests[Was(i, j)]
    BY <1>7 DEF Without, Was
  <1>8. ASSUME requests' = Accepted(i), NEW j \in 1 .. Len(requests) - 1
        PROVE  requests'[j] = IF j < i THEN [requests[Was(i, j)] EXCEPT !.stale = TRUE]
                                       ELSE requests[Was(i, j)]
    BY <1>8 DEF Accepted, Was
  <1>9. ASSUME NEW j \in 1 .. Len(requests) - 1
        PROVE  /\ requests'[j].acked = requests[Was(i, j)].acked
               /\ requests'[j].view = requests[Was(i, j)].view
               /\ requests[Was(i, j)].stale => requests'[j].stale
               /\ requests' = Accepted(i) /\ j < i => requests'[j].stale
    <2>1. requests[Was(i, j)] \in Request
      BY <1>1, <1>5
    <2>2. CASE requests' = Accepted(i)
      BY <1>3, <1>8, <2>1, <2>2
    <2>3. CASE requests' # Accepted(i)
      BY <1>7, <2>1, <2>3
    <2> QED
      BY <2>2, <2>3
  <1> QED
    BY <1>4, <1>5, <1>6, <1>9

\* Deliveries that settle nothing new keep the requests in order.
LEMMA DeliveredKeeps ==
    ASSUME TypeOK, Views, NEW i \in DOMAIN requests, requests' \in {Without(i), Accepted(i)},
           UNCHANGED <<shown, attested>>,
           \A j \in 1 .. Len(requests) :
              /\ ~requests[j].stale
              /\ requests' = Accepted(i) => i < j
              => Settled' \subseteq requests[j].view
    PROVE  RequestsShow'
  <1>1. Len(requests) \in Nat /\ i \in 1 .. Len(requests)
    BY DEF TypeOK
  <1>2. RequestsShow
    BY DEF Views
  <1>3. ASSUME NEW j \in 1 .. Len(requests')
        PROVE  RequestShows(requests[j])'
    <2> DEFINE k == Was(i, j)
    <2>1. /\ k \in 1 .. Len(requests)
          /\ requests'[j].acked = requests[k].acked
          /\ requests'[j].view = requests[k].view
          /\ requests[k].stale => requests'[j].stale
          /\ requests' = Accepted(i) /\ j < i => requests'[j].stale
      BY DeliveredShows
    <2>2. RequestShows(requests[k])
      BY <1>2, <2>1 DEF RequestsShow
    <2>3. ASSUME ~requests'[j].stale PROVE Settled' \subseteq requests[k].view
      <3>1. requests' = Accepted(i) => i < k
        BY <1>1, <2>1, <2>3 DEF Was
      <3> QED
        BY <2>1, <2>3, <3>1
    <2> HIDE DEF k
    <2>4. requests'[j].acked \subseteq requests'[j].view \cup attested'
      BY <2>1, <2>2 DEF RequestShows
    <2>5. requests'[j].view \subseteq shown'
      BY <2>1, <2>2 DEF RequestShows
    <2>6. ~requests'[j].stale => Settled' \subseteq requests'[j].view
      BY <2>1, <2>3
    <2> QED
      BY <2>4, <2>5, <2>6 DEF RequestShows
  <1>4. ASSUME NEW j \in 1 .. Len(requests'), NEW k \in 1 .. Len(requests'), j < k
        PROVE  requests'[j].view \subseteq requests'[k].view
    <2>1. /\ Was(i, j) \in 1 .. Len(requests)
          /\ Was(i, k) \in 1 .. Len(requests)
          /\ Was(i, j) < Was(i, k)
          /\ requests'[j].view = requests[Was(i, j)].view
          /\ requests'[k].view = requests[Was(i, k)].view
      BY <1>4, DeliveredShows
    <2> QED
      BY <1>2, <2>1 DEF RequestsShow
  <1> QED
    BY <1>3, <1>4 DEF RequestsShow

\* Home Assistant drops commands from its queue only together with adopting a
\* snapshot that shows them.
LEMMA ViewsHA ==
    ASSUME Types, Views, HANext
    PROVE  Views'
  <1>1. TypeOK /\ UNCHANGED macVars
    BY DEF Types, HANext
  <1>2. LedgersShown'
    BY <1>1 DEF Views, LedgersShown, LedgerShown, macVars
  <1>3. CASE \E c \in Cmd : QueueCommand(c)
    <2> PICK c \in Cmd : QueueCommand(c)
      BY <1>3
    <2>1. /\ queue' = queue \cup {c}
          /\ UNCHANGED <<haEpoch, haView, requests>>
          /\ epochOf' = [epochOf EXCEPT ![c] = haEpoch]
          /\ \A d \in Cmd \ {c} : rank'[d] = rank[d]
      BY <1>1 DEF QueueCommand, TypeOK, netVars
    <2>2. Settled' \subseteq Settled
      BY <1>1, <2>1 DEF Settled, AcceptedCommands, IsAccepted, macVars, TypeOK
    <2>3. \A d \in Cmd : epochOf'[d] <= haEpoch
      BY <1>1, <2>1 DEF Views, TypeOK
    <2>4. RequestsShow'
      BY <1>1, <2>1, <2>2 DEF Views, RequestsShow, RequestShows, macVars
    <2> QED
      BY <1>1, <1>2, <2>1, <2>2, <2>3, <2>4 DEF Views, macVars
  <1>4. ASSUME NEW i \in DOMAIN requests, AcceptSnapshot(i)
        PROVE  Views'
    <2> DEFINE r == requests[i]
    <2>1. /\ ~r.stale
          /\ queue' = queue \ r.acked
          /\ haView' = r.view
          /\ requests' = Accepted(i)
          /\ UNCHANGED <<haEpoch, epochOf, rank, shown, attested>>
      BY <1>1, <1>4 DEF AcceptSnapshot, macVars
    <2>2. i \in 1 .. Len(requests) /\ RequestShows(r)
      BY <1>1 DEF TypeOK, Views, RequestsShow
    <2>3. Settled' \subseteq r.view
      BY <2>1, <2>2 DEF Settled, AcceptedCommands, IsAccepted, RequestShows
    <2>4. \A j \in 1 .. Len(requests) : i < j => Settled' \subseteq requests[j].view
      BY <2>2, <2>3 DEF Views, RequestsShow
    <2>5. RequestsShow'
      BY <1>1, <2>1, <2>4, DeliveredKeeps
    <2> HIDE DEF r
    <2> QED
      BY <1>2, <2>1, <2>2, <2>3, <2>5 DEF Views, RequestShows
  <1>5. ASSUME NEW i \in DOMAIN requests, RejectSnapshot(i)
        PROVE  Views'
    <2>1. /\ requests' = Without(i)
          /\ UNCHANGED <<haVars, rank, shown, attested>>
      BY <1>1, <1>5 DEF RejectSnapshot, macVars
    <2>2. Settled' = Settled
      BY <2>1 DEF Settled, AcceptedCommands, IsAccepted, haVars
    <2>3. RequestsShow'
      BY <1>1, <2>1, <2>2, DeliveredKeeps DEF Views, RequestsShow, RequestShows
    <2> QED
      BY <1>2, <2>1, <2>2, <2>3 DEF Views, haVars
  <1>6. CASE NewStorage
    <2>1. /\ haEpoch' = haEpoch + 1 /\ haView' = {} /\ UNCHANGED <<epochOf, rank, shown, attested>>
          /\ requests' = [j \in 1 .. Len(requests) |-> [requests[j] EXCEPT !.stale = FALSE]]
      BY <1>1, <1>6 DEF NewStorage, macVars
    <2>2. \A c \in Cmd : epochOf[c] \in Nat /\ epochOf[c] <= haEpoch /\ haEpoch \in Nat
      BY <1>1 DEF TypeOK, Views
    <2>3. Settled' = {} /\ \A c \in Cmd : epochOf'[c] <= haEpoch'
      BY <2>1, <2>2 DEF Settled, AcceptedCommands
    <2>4. /\ Len(requests) \in Nat
          /\ \A j \in 1 .. Len(requests) : requests[j] \in Request
      BY <1>1 DEF TypeOK
    <2>5. \A q \in Request : /\ [q EXCEPT !.stale = FALSE].acked = q.acked
                             /\ [q EXCEPT !.stale = FALSE].view = q.view
      BY DEF Request
    <2>6. /\ Len(requests') = Len(requests)
          /\ \A j \in 1 .. Len(requests) :
                /\ requests'[j].acked = requests[j].acked
                /\ requests'[j].view = requests[j].view
      <3>1. /\ Len(requests') = Len(requests)
            /\ \A j \in 1 .. Len(requests) : requests'[j] = [requests[j] EXCEPT !.stale = FALSE]
        BY <2>1, <2>4
      <3> QED
        BY <2>4, <2>5, <3>1
    <2>7. RequestsShow'
      BY <2>1, <2>3, <2>6 DEF Views, RequestsShow, RequestShows
    <2> QED
      BY <1>2, <2>1, <2>3, <2>7 DEF Views
  <1> QED
    BY <1>3, <1>4, <1>5, <1>6 DEF HANext

\* Losing a request loses no acknowledgement that the queue depends on.
LEMMA ViewsNet ==
    ASSUME Types, Views, NetNext
    PROVE  Views'
  <1>1. PICK i \in DOMAIN requests : LoseRequest(i) /\ UNCHANGED <<haVars, macVars>>
    BY DEF NetNext
  <1>2. requests' = Without(i) /\ UNCHANGED <<haVars, macVars, rank>>
    BY <1>1 DEF LoseRequest
  <1>3. Settled' = Settled
    BY <1>2 DEF Settled, AcceptedCommands, IsAccepted, haVars, macVars
  <1>4. RequestsShow'
    BY <1>2, <1>3, DeliveredKeeps
    DEF Types, Views, RequestsShow, RequestShows, macVars
  <1> QED
    BY <1>2, <1>3, <1>4 DEF Views, LedgersShown, LedgerShown, haVars, macVars

\* The requests after a step of process p.
LEMMA RequestsStep ==
    ASSUME TypeOK, NEW p \in Proc, Step(p) \/ Crash(p) \/ OperatorStops(p)
    PROVE  \/ requests' = requests
           \/ requests' = Abandoned(p)
           \/ requests' = Append(requests, SnapshotOf(p)) /\ UNCHANGED shown
  <1> USE DEF netVars, eventKitVars
  <1>1. CASE LoadState(p) \/ AcquireLock(p)
    BY <1>1 DEF LoadState, AcquireLock
  <1>2. CASE PostSnapshot(p)
    BY <1>2 DEF PostSnapshot, Post
  <1>3. CASE PostFails(p)
    BY <1>3 DEF PostFails
  <1>4. CASE RejectResponse(p) \/ ConfirmSync(p) \/ AcceptResponse(p) \/ AdoptEpoch(p)
    BY <1>4 DEF RejectResponse, ConfirmSync, AcceptResponse, AdoptEpoch, Consume
  <1>5. CASE SkipApplied(p) \/ JournalCommand(p) \/ HelperCommits(p) \/ HelperFails(p)
             \/ RecordApplied(p)
    BY <1>5 DEF SkipApplied, JournalCommand, HelperCommits, HelperFails, RecordApplied
  <1>6. CASE FinishWalk(p)
    <2>1. UNCHANGED shown /\ (Post(p) \/ UNCHANGED netVars)
      BY <1>6, Zenon DEF FinishWalk
    <2> QED
      BY <2>1 DEF Post
  <1>7. CASE Crash(p) \/ OperatorStops(p)
    <2>1. Dies(p)
      BY <1>7 DEF Crash, OperatorStops, StopBridge
    <2> QED
      BY <2>1 DEF Dies
  <1> QED
    BY <1>1, <1>2, <1>3, <1>4, <1>5, <1>6, <1>7 DEF Step

\* What a step of process p shows, and what it leaves to the operator.
LEMMA ShownStep ==
    ASSUME TypeOK, NEW p \in Proc, Step(p) \/ Crash(p) \/ OperatorStops(p)
    PROVE  /\ shown \subseteq shown'
           /\ UNCHANGED attested
  <1> USE DEF eventKitVars
  <1>1. CASE Step(p)
    BY <1>1 DEF Step, LoadState, AcquireLock, PostSnapshot, PostFails, RejectResponse,
       AcceptResponse, AdoptEpoch, SkipApplied, JournalCommand, HelperCommits, TakesEffect,
       HelperFails, RecordApplied, FinishWalk, ConfirmSync
  <1>2. CASE Crash(p)
    BY <1>2 DEF Crash, Dies, TakesEffect
  <1>3. CASE OperatorStops(p)
    BY <1>3 DEF OperatorStops, StopBridge, Dies
  <1> QED
    BY <1>1, <1>2, <1>3

\* What a step of process p newly acknowledges, on disk or in memory, is what
\* its helper has committed.
Acknowledgeable(p, c) ==
    \/ Has(disk, c)
    \/ Has(mem[p], c)
    \/ pc[p] = "committed" /\ c = mem[p].inFlight

\* A command enters a ledger only after it took effect in EventKit, or by the
\* operator's word.
LEMMA AcknowledgeStep ==
    ASSUME Types, Journal, NEW p \in Proc, Step(p) \/ Crash(p) \/ OperatorStops(p),
           NEW c \in Cmd, Has(disk', c) \/ Has(mem'[p], c)
    PROVE  Acknowledgeable(p, c)
  <1> USE DEF Acknowledgeable
  <1>1. TypeOK /\ HelperHasCommand /\ StatesStayValid /\ mem \in [Proc -> State]
    BY DEF Types, TypeOK, Journal
  <1>2. ~Has(EmptyState, c)
    BY DEF EmptyState, Has, Range
  <1>3. CASE Quiet(p)
    BY <1>3 DEF Quiet
  <1>4. CASE AdoptEpoch(p) \/ JournalCommand(p) \/ RecordApplied(p)
    <2> PICK s \in State : Writes(p, s) /\ AcknowledgesOnly(p, s)
      BY <1>1, <1>4, WriteSteps
    <2>1. disk' \in {disk, s} /\ mem'[p] \in {mem[p], s}
      BY <1>1 DEF Writes
    <2> QED
      BY <2>1 DEF AcknowledgesOnly
  <1>5. CASE LoadState(p) \/ AcquireLock(p)
    <2>1. disk' = disk /\ mem'[p] \in {mem[p], disk, EmptyState}
      BY <1>1, <1>5 DEF LoadState, AcquireLock
    <2> QED
      BY <1>2, <2>1
  <1>6. CASE Crash(p) \/ OperatorStops(p)
    <2>1. Dies(p)
      BY <1>6 DEF Crash, OperatorStops, StopBridge
    <2>2. disk' = disk /\ mem'[p] = EmptyState
      BY <1>1, <2>1 DEF Dies
    <2> QED
      BY <1>2, <2>2
  <1> QED
    BY <1>1, <1>3, <1>4, <1>5, <1>6, QuietSteps DEF Step

\* A process acknowledges nothing but what EventKit shows or was attested.
LEMMA LedgersStep ==
    ASSUME Types, Journal, Views, NEW p \in Proc, Step(p) \/ Crash(p) \/ OperatorStops(p)
    PROVE  LedgersShown'
  <1>1. TypeOK /\ HelperHasCommand /\ LedgersShown
    BY DEF Types, Views
  <1>2. shown \subseteq shown' /\ attested' = attested
    BY <1>1, ShownStep
  <1>3. /\ \A q \in Proc \ {p} : pc'[q] = pc[q] /\ mem'[q] = mem[q]
        /\ mem \in [Proc -> State] /\ pc \in [Proc -> Place]
    BY <1>1, ProcessFrame DEF TypeOK
  <1>4. \A c \in Cmd : Acknowledgeable(p, c) => c \in shown' \cup attested'
    BY <1>1, <1>2 DEF Acknowledgeable, LedgersShown, LedgerShown
  <1>5. LedgerShown(disk)'
    BY <1>4, AcknowledgeStep DEF LedgerShown, Has
  <1>6. LedgerShown(mem[p])'
    BY <1>4, AcknowledgeStep DEF LedgerShown, Has
  <1>7. \A q \in Proc \ {p} : LedgerShown(mem[q])'
    BY <1>1, <1>2, <1>3 DEF LedgersShown, LedgerShown, Has
  <1>8. ASSUME pc'[p] = "committed" PROVE mem'[p].inFlight \in shown'
    <2>1. CASE HelperCommits(p)
      BY <1>1, <2>1 DEF HelperCommits, TakesEffect, TypeOK
    <2>2. CASE ~HelperCommits(p)
      <3>1. pc'[p] # "committed"
        <4> USE <1>3 DEF Goto, EndSync
        <4>1. CASE LoadState(p) \/ AcquireLock(p) \/ PostSnapshot(p) \/ PostFails(p)
          BY <4>1 DEF LoadState, AcquireLock, PostSnapshot, PostFails
        <4>2. CASE RejectResponse(p) \/ ConfirmSync(p) \/ AcceptResponse(p) \/ AdoptEpoch(p)
          BY <4>2 DEF RejectResponse, ConfirmSync, AcceptResponse, AdoptEpoch
        <4>3. CASE SkipApplied(p) \/ JournalCommand(p) \/ HelperFails(p) \/ RecordApplied(p)
          BY <4>3 DEF SkipApplied, JournalCommand, HelperFails, RecordApplied
        <4>4. CASE FinishWalk(p)
          <5>1. Goto(p, "await2") \/ Goto(p, "idle")
            BY <4>4, Zenon DEF FinishWalk
          <5> QED
            BY <5>1
        <4>5. CASE Crash(p) \/ OperatorStops(p)
          BY <4>5 DEF Crash, OperatorStops, StopBridge, Dies
        <4> QED
          BY <2>2, <4>1, <4>2, <4>3, <4>4, <4>5 DEF Step
      <3> QED
        BY <1>8, <3>1
    <2> QED
      BY <2>1, <2>2
  <1>9. \A q \in Proc \ {p} : pc'[q] = "committed" => mem'[q].inFlight \in shown'
    BY <1>1, <1>2, <1>3 DEF LedgersShown
  <1> QED
    BY <1>5, <1>6, <1>7, <1>8, <1>9 DEF LedgersShown

\* A new snapshot shows all that any earlier one did.
LEMMA RequestsShowStep ==
    ASSUME Types, Views, NEW p \in Proc, Step(p) \/ Crash(p) \/ OperatorStops(p),
           UNCHANGED <<queue, haEpoch, haView, epochOf, rank>>
    PROVE  RequestsShow'
  <1>1. TypeOK /\ RequestsShow
    BY DEF Types, Views
  <1>2. /\ Len(requests) \in Nat
        /\ \A j \in 1 .. Len(requests) : requests[j] \in Request /\ RequestShows(requests[j])
    BY <1>1 DEF TypeOK, RequestsShow
  <1>3. shown \subseteq shown' /\ attested' = attested /\ Settled' \subseteq Settled
    BY <1>1, ShownStep, ViewsMonotone
  <1>4. ASSUME Len(requests') = Len(requests),
               \A j \in 1 .. Len(requests) :
                  /\ requests'[j].acked = requests[j].acked
                  /\ requests'[j].view = requests[j].view
                  /\ requests'[j].stale = requests[j].stale
        PROVE  RequestsShow'
    BY <1>1, <1>3, <1>4 DEF RequestsShow, RequestShows
  <1>5. CASE requests' = requests
    BY <1>4, <1>5
  <1>6. CASE requests' = Abandoned(p)
    BY <1>1, <1>4, <1>6, AbandonedShows
  <1>7. CASE requests' = Append(requests, SnapshotOf(p)) /\ UNCHANGED shown
    <2> DEFINE n == Len(requests)
    <2>1. /\ Len(requests') = n + 1
          /\ \A j \in 1 .. n : requests'[j] = requests[j]
          /\ requests'[n + 1] = SnapshotOf(p)
      BY <1>1, <1>7 DEF TypeOK
    <2>2. /\ SnapshotOf(p).acked = Range(mem[p].applied)
          /\ SnapshotOf(p).view = shown
      BY DEF SnapshotOf
    <2>3. Range(mem[p].applied) \subseteq shown \cup attested
      <3>1. mem[p].applied \in Seq(Cmd)
        BY <1>1 DEF TypeOK, State
      <3> QED
        BY <3>1 DEF Views, LedgersShown, LedgerShown, Has, Range
    <2>4. Settled \subseteq shown
      BY DEF Views
    <2>5. /\ requests'[n + 1].acked \subseteq requests'[n + 1].view \cup attested'
          /\ requests'[n + 1].view \subseteq shown'
          /\ Settled' \subseteq requests'[n + 1].view
      BY <1>3, <1>7, <2>1, <2>2, <2>3, <2>4
    <2>6. ASSUME NEW j \in 1 .. n + 1 PROVE RequestShows(requests[j])'
      <3>1. CASE j \in 1 .. n
        BY <1>2, <1>3, <2>1, <3>1 DEF RequestShows
      <3>2. CASE j = n + 1
        BY <2>5, <3>2 DEF RequestShows
      <3> QED
        BY <1>2, <3>1, <3>2
    <2>7. \A j \in 1 .. n + 1 : j \in 1 .. n \/ j = n + 1
      BY <1>2
    <2>8. ASSUME NEW j \in 1 .. n + 1, NEW k \in 1 .. n + 1, j < k
          PROVE  requests'[j].view \subseteq requests'[k].view
      <3>1. j \in 1 .. n
        BY <1>2, <2>8
      <3>2. CASE k \in 1 .. n
        BY <1>1, <2>1, <2>8, <3>1, <3>2 DEF RequestsShow
      <3>3. CASE k = n + 1
        BY <1>2, <2>1, <2>2, <3>1, <3>3 DEF RequestShows
      <3> QED
        BY <2>7, <3>2, <3>3
    <2> QED
      BY <2>1, <2>6, <2>8 DEF RequestsShow
  <1> QED
    BY <1>1, <1>5, <1>6, <1>7, RequestsStep

\* The operator acknowledges only what is then attested.
LEMMA ViewsOperator ==
    ASSUME Types, Journal, Views,
           \/ RecoverRetry \/ RecoverApplied \/ OperatorAcceptsEpoch
           \/ \E l \in List : MakeReadOnly(l) \/ MakeWritable(l),
           UNCHANGED <<queue, haEpoch, haView, epochOf, rank>>
    PROVE  Views'
  <1>1. TypeOK /\ LedgersShown /\ Valid(disk)
    BY DEF Types, Views, Journal, StatesStayValid
  <1>2. /\ UNCHANGED <<pc, mem, requests, shown>>
        /\ attested \subseteq attested'
    BY DEF RecoverRetry, RecoverApplied, OperatorAcceptsEpoch, ResetQueueEpoch,
           MakeReadOnly, MakeWritable, netVars, eventKitVars
  <1>3. Settled' \subseteq Settled
    BY <1>1, <1>2, ViewsMonotone
  <1>4. \A c \in Cmd : Has(disk', c) => Has(disk, c) \/ c \in attested'
    <2>1. CASE RecoverApplied
      <3> DEFINE s == [disk EXCEPT !.inFlight = NoCmd]
      <3>1. s \in State /\ Valid(s) /\ disk.inFlight \in Cmd /\ s.applied = disk.applied
        BY <1>1, <2>1 DEF RecoverApplied, TypeOK, State, Valid, Has
      <3>2. Range(MarkApplied(s, disk.inFlight).applied) \subseteq Range(s.applied) \cup {disk.inFlight}
        BY <3>1, MarkAppliedValid
      <3>3. disk' = MarkApplied(s, disk.inFlight) /\ disk.inFlight \in attested'
        BY <2>1 DEF RecoverApplied, Save
      <3> QED
        BY <3>1, <3>2, <3>3 DEF Has
    <2>2. CASE ~RecoverApplied
      <3>1. disk'.applied = disk.applied
        BY <1>1, <2>2 DEF RecoverRetry, OperatorAcceptsEpoch, ResetQueueEpoch, Save,
           MakeReadOnly, MakeWritable, TypeOK, State
      <3> QED
        BY <3>1 DEF Has
    <2> QED
      BY <2>1, <2>2
  <1>5. LedgersShown'
    BY <1>1, <1>2, <1>4 DEF LedgersShown, LedgerShown, Has
  <1>6. RequestsShow'
    BY <1>2, <1>3 DEF Views, RequestsShow, RequestShows
  <1> QED
    BY <1>2, <1>3, <1>5, <1>6 DEF Views

\* Every step preserves the invariant on acknowledgements.
LEMMA ViewsNext == Types /\ Journal /\ Views /\ [Next]_vars => Views'
  <1> SUFFICES ASSUME Types, Journal, Views, [Next]_vars PROVE Views'
    OBVIOUS
  <1>1. TypeOK /\ HelperHasCommand
    BY DEF Types
  <1>2. CASE MacNext
    <2>1. UNCHANGED <<queue, haEpoch, haView, epochOf, rank>>
      BY <1>1, <1>2, MacFrame
    <2>2. ASSUME NEW p \in Proc, Step(p) \/ Crash(p) \/ OperatorStops(p)
          PROVE  Views'
      <3>1. LedgersShown' /\ RequestsShow'
        BY <2>1, <2>2, LedgersStep, RequestsShowStep
      <3>2. shown \subseteq shown' /\ Settled' \subseteq Settled
        BY <1>1, <2>1, <2>2, ShownStep, ViewsMonotone
      <3> QED
        BY <2>1, <3>1, <3>2 DEF Views
    <2> QED
      BY <1>2, <2>1, <2>2, ViewsOperator DEF MacNext
  <1>3. CASE HANext
    BY <1>3, ViewsHA
  <1>4. CASE NetNext
    BY <1>4, ViewsNet
  <1>5. CASE UNCHANGED vars
    BY <1>5 DEF vars, Views, LedgersShown, LedgerShown, RequestsShow, RequestShows, Settled,
       AcceptedCommands, IsAccepted
  <1> QED
    BY <1>2, <1>3, <1>4, <1>5 DEF Next

\* In every reachable state what a ledger or a request acknowledges is shown
\* by EventKit, by that request's lists, or attested by an operator.
THEOREM ViewsInvariant == Spec => []Views
  BY ViewsInit, ViewsNext, TypesInvariant, JournalInvariant, PTL DEF Spec

\* An accepted edit of the current queue that Home Assistant no longer shows
\* optimistically is one its last snapshot shows, or one the operator attested:
\* no loss, delay, reordering or crash takes it back (runtime.py
\* async_process_snapshot, client.go postSnapshot).
THEOREM EditsDoNotDisappear == Spec => []NoEditDisappears
  <1>1. Views => NoEditDisappears
    BY DEF Views, Settled, NoEditDisappears
  <1> QED
    BY <1>1, ViewsInvariant, PTL
================================================================================
