------------------------------- MODULE HARuntime -------------------------------
(***************************************************************************)
(* The runtime of one config entry inside Home Assistant                   *)
(* (custom_components/icloud_reminders_bridge: runtime.py, __init__.py,    *)
(* todo.py), at the grain of asyncio: a task runs until it awaits.  The    *)
(* transactions that HomeAssistant takes as one step are here the sequence *)
(* wait for the lock, change the runtime in place, await the save, and     *)
(* notify or roll back; what else runs in between sees the changes.        *)
(*                                                                         *)
(* A task is a service call (an edit) or a webhook handler (a post).  A    *)
(* reload or a restart makes a new runtime object, a generation; the tasks *)
(* of the old one go on after a reload.  The file is written by            *)
(* Home Assistant's Store, which is taken to do what runtime.py relies on: *)
(* async_save writes what it is given, or raises, and then either the old  *)
(* file or the new one is there.                                           *)
(***************************************************************************)
EXTENDS Naturals, FiniteSets

CONSTANTS
    Edit,         \* the edits users make, each one command
    Creates,      \* those that create a reminder; the others change one
    Posts,        \* how many snapshots the bridge posts
    List,         \* the reminder lists
    ListOf,       \* the list of each edit
    Nobody,       \* the lock is free
    Starts,       \* the sets of edits that may be under way at the start
    MaxGen,       \* bound on the runtime objects created
    QueueCap,     \* MAX_COMMANDS
    ResponseCap,  \* how many commands fit in a response (MAX_PAYLOAD_BYTES)
    FaultBound    \* how many events of each kind a behaviour may have

\* A posted snapshot is known by its sent_at.
Post == 1 .. Posts
Task == Edit \cup Post
Gen  == 1 .. MaxGen

\* A save fails; Home Assistant restarts; the entry is reloaded while nothing
\* runs in it, or while a task does; the operator changes the allowlist; a
\* reminder is deleted or moved on the Mac, so that a snapshot lacks it.
Fault == {"save", "restart", "reload", "overlap", "reconfigure", "missing"}

ASSUME CreatesAssumption == Creates \subseteq Edit
ASSUME PostsAssumption == Posts \in Nat
ASSUME ListOfAssumption == ListOf \in [Edit -> List]
ASSUME TaskAssumption == Edit \cap Post = {}
ASSUME NobodyAssumption == Nobody \notin Task
ASSUME StartsAssumption == Starts \subseteq SUBSET Edit
ASSUME MaxGenAssumption == MaxGen \in Nat \ {0}
ASSUME CapsAssumption == QueueCap \in Nat \ {0} /\ ResponseCap \in Nat
ASSUME FaultBoundAssumption == FaultBound \in [Fault -> Nat]

VARIABLES
    allowed,    \* entry.data: the allowlist
    gen,        \* the newest runtime object
    up,         \* where its setup is: "down", "saving" (its revocations), "up"
    mem,        \* the lists, queue and last_snapshot_sent_at of each runtime
    previous,   \* the copies its open transaction would restore
    holder,     \* the task that holds its lock
    stored,     \* the file
    at,         \* where each task is
    runs,       \* the runtime object each task uses
    post,       \* what each snapshot says
    entity,     \* the state the todo entities publish
    offered,    \* commands the bridge has received
    effects,    \* commands it has applied
    faults,     \* how many events of each kind have happened
    confirmed,  \* history: edits whose service call returned success
    ghost,      \* history: edits that a save stored although it raised
    revoked,    \* history: edits whose list was off the allowlist since
    dropped     \* history: edits given up as revoked, the file included

vars == <<allowed, gen, up, mem, previous, holder, stored, at, runs, post,
          entity, offered, effects, faults, confirmed, ghost, revoked, dropped>>

haVars == <<allowed, gen, up, mem, previous, holder, stored>>
history == <<confirmed, ghost, revoked, dropped>>

\* What a runtime keeps and stores: its lists, which of them can be modified,
\* the edits whose reminder is in them under Apple's uid (for a create, the
\* reminder it made), the edits whose effect they show, the queue, and the last
\* accepted sent_at.
Image == [lists    : SUBSET List,
          writable : SUBSET List,
          found    : SUBSET Edit,
          view     : SUBSET Edit,
          queue    : SUBSET Edit,
          sentAt   : Nat]

EmptyImage ==
    [lists |-> {}, writable |-> {}, found |-> {}, view |-> {}, queue |-> {}, sentAt |-> 0]

Snapshot == [lists    : SUBSET List,
             writable : SUBSET List,
             found    : SUBSET Edit,
             acked    : SUBSET Edit]

Place == {"idle", "sent", "waiting", "saving", "done", "failed"}

On(lists) == {c \in Edit : ListOf[c] \in lists}

Spend(f) ==
    /\ faults[f] < FaultBound[f]
    /\ faults' = [faults EXCEPT ![f] = @ + 1]

Goto(t, place) == at' = [at EXCEPT ![t] = place]

\* What the entities publish; sentAt, which they do not, says of which snapshot
\* it is.
Published(image) == [lists |-> image.lists, view |-> image.view, sentAt |-> image.sentAt]

\* The edits that _apply_optimistic can apply to the lists that have the
\* reminders "found": a create adds one, any other edit looks for its uid.
Applicable(found) == Creates \cup found

Running == up = "up"

(***************************************************************************)
(* Transactions.                                                           *)
(***************************************************************************)

\* The body of task t's transaction ran to its end; it now awaits the save.
Change(t, image) ==
    LET g == runs[t] IN
    /\ mem' = [mem EXCEPT ![g] = image]
    /\ previous' = [previous EXCEPT ![g] = mem[g]]
    /\ holder' = [holder EXCEPT ![g] = t]
    /\ Goto(t, "saving")
    /\ UNCHANGED <<allowed, gen, up, stored, runs, post, entity, offered, effects, faults, history>>

\* The body raised ProtocolError: nothing has changed, the lock is released.
Refuse(t) ==
    /\ Goto(t, "failed")
    /\ UNCHANGED <<haVars, runs, post, entity, offered, effects, faults, history>>

\* A faulty variant of Enters: the transaction does not take the lock.
EntersUnlocked(t) == at[t] = "waiting"

\* Task t enters its transaction.
Enters(t) == at[t] = "waiting" /\ holder[runs[t]] = Nobody

\* A faulty variant of Written: the save is given the copy for the roll-back.
WrittenPrevious(t) == previous[runs[t]]

\* What the save of task t writes.
Written(t) == mem[runs[t]]

\* The save returned: the lock is free, the listeners of a runtime that is
\* still set up are notified.
Commit(t) ==
    LET g == runs[t] IN
    /\ at[t] = "saving"
    /\ stored' = Written(t)
    /\ holder' = [holder EXCEPT ![g] = Nobody]
    /\ entity' = IF Running /\ g = gen THEN Published(mem[g]) ELSE entity
    /\ Goto(t, "done")
    /\ previous' = [previous EXCEPT ![g] = EmptyImage]
    /\ UNCHANGED <<allowed, gen, up, mem, runs, post, effects, faults, ghost, revoked>>

\* A faulty variant of RollBack: the lock is not released.
RollBackKeepsLock(t) ==
    LET g == runs[t] IN
    /\ at[t] = "saving"
    /\ Spend("save")
    /\ stored' \in {stored, Written(t)}
    /\ ghost' = ghost \cup (stored'.queue \ stored.queue)
    /\ mem' = [mem EXCEPT ![g] = previous[g]]
    /\ previous' = [previous EXCEPT ![g] = EmptyImage]
    /\ Goto(t, "failed")
    /\ UNCHANGED <<allowed, gen, up, holder, runs, post, entity, offered, effects,
                   confirmed, revoked, dropped>>

\* The save raised, or the task was cancelled while it waited for it: the
\* runtime is rolled back and nobody is notified.  The new file may be there.
RollBack(t) ==
    LET g == runs[t] IN
    /\ at[t] = "saving"
    /\ Spend("save")
    /\ stored' \in {stored, Written(t)}
    /\ ghost' = ghost \cup (stored'.queue \ stored.queue)
    /\ mem' = [mem EXCEPT ![g] = previous[g]]
    /\ previous' = [previous EXCEPT ![g] = EmptyImage]
    /\ holder' = [holder EXCEPT ![g] = Nobody]
    /\ Goto(t, "failed")
    /\ UNCHANGED <<allowed, gen, up, runs, post, entity, offered, effects,
                   confirmed, revoked, dropped>>

(***************************************************************************)
(* A service call of a todo entity.                                        *)
(***************************************************************************)

\* async_queue_command before it takes the lock.
CallService(c) ==
    /\ Running
    /\ at[c] = "idle"
    /\ IF ListOf[c] \in mem[gen].writable
       THEN Goto(c, "waiting") /\ runs' = [runs EXCEPT ![c] = gen]
       ELSE Goto(c, "failed") /\ UNCHANGED runs
    /\ UNCHANGED <<haVars, post, entity, offered, effects, faults, history>>

\* The checks under the lock.
MayQueue(c) ==
    LET image == mem[runs[c]] IN
    /\ ListOf[c] \in image.lists \cap allowed
    /\ ListOf[c] \in image.writable
    /\ Cardinality(image.queue) < QueueCap
    /\ c \in Applicable(image.found)

QueueEdit(c) ==
    /\ Enters(c)
    /\ IF MayQueue(c)
       THEN Change(c, [mem[runs[c]] EXCEPT !.queue = @ \cup {c}, !.view = @ \cup {c}])
       ELSE Refuse(c)

\* The service call returns success.
ConfirmEdit(c) ==
    /\ Commit(c)
    /\ confirmed' = confirmed \cup {c}
    /\ UNCHANGED <<offered, dropped>>

(***************************************************************************)
(* A webhook handler.                                                      *)
(***************************************************************************)

\* The reminders there may be in the lists: those that other edits are about
\* and those that the applied ones created.
Reminders(lists) == On(lists) \cap ((Edit \ Creates) \cup effects)

\* The bridge stamps and sends its n-th snapshot: the lists it has, those it
\* can modify, and an acknowledgement of the commands it applied, which the
\* reminders in the lists show.  Any reminder may be missing: users delete and
\* move reminders on the Mac.
SendSnapshot(n, lists, writable, found) ==
    /\ at[n] = "idle"
    /\ \A k \in 1 .. n - 1 : at[k] # "idle"
    /\ post' = [post EXCEPT ![n] =
                   [lists |-> lists, writable |-> writable, found |-> found, acked |-> effects]]
    /\ IF found = Reminders(lists) THEN UNCHANGED faults ELSE Spend("missing")
    /\ Goto(n, "sent")
    /\ UNCHANGED <<haVars, runs, entity, offered, effects, history>>

\* The request reaches Home Assistant, and _validate_snapshot runs before the
\* lock is taken: one list outside the allowlist refuses the whole snapshot.
ReceiveSnapshot(n) ==
    /\ Running
    /\ at[n] = "sent"
    /\ IF post[n].lists \subseteq allowed
       THEN Goto(n, "waiting") /\ runs' = [runs EXCEPT ![n] = gen]
       ELSE Goto(n, "failed") /\ UNCHANGED runs
    /\ UNCHANGED <<haVars, post, entity, offered, effects, faults, history>>

\* The queue after snapshot n: without what it acknowledges and what is no
\* longer allowed.
Remaining(n) == (mem[runs[n]].queue \ post[n].acked) \cap On(allowed)

\* The commands of the response.
Response(n) == Remaining(n) \cap On(post[n].writable)

MayAccept(n) ==
    /\ n > mem[runs[n]].sentAt
    /\ Cardinality(Response(n)) <= ResponseCap

\* What the lists of snapshot n show once the edits that remain are applied to
\* them again.  An edit whose reminder is not there is not, and stays queued.
Shown(n) ==
    LET again == Remaining(n) \cap Applicable(post[n].found)
    IN  (post[n].acked \cap post[n].found) \cup (again \cap On(post[n].lists))

\* A faulty variant of ProcessSnapshot: the edits are not applied again.
ProcessWithoutEdits(n) ==
    /\ Enters(n)
    /\ IF MayAccept(n)
       THEN Change(n, [lists    |-> post[n].lists,
                       writable |-> post[n].writable,
                       found    |-> post[n].found,
                       view     |-> post[n].acked \cap post[n].found,
                       queue    |-> Remaining(n),
                       sentAt   |-> n])
       ELSE Refuse(n)

\* The lists of the snapshot are adopted and the edits that remain are applied
\* to them again.
ProcessSnapshot(n) ==
    /\ Enters(n)
    /\ IF MayAccept(n)
       THEN Change(n, [lists    |-> post[n].lists,
                       writable |-> post[n].writable,
                       found    |-> post[n].found,
                       view     |-> Shown(n),
                       queue    |-> Remaining(n),
                       sentAt   |-> n])
       ELSE Refuse(n)

\* The response is sent: what it offers is in the queue that has been stored.
\* It may not arrive.
AnswerSnapshot(n) ==
    LET g == runs[n] IN
    /\ Commit(n)
    /\ \/ offered' = offered \cup (mem[g].queue \cap On(mem[g].writable))
       \/ UNCHANGED offered
    /\ dropped' = dropped \cup (previous[g].queue \ (mem[g].queue \cup post[n].acked))
    /\ UNCHANGED confirmed

\* The bridge applies a command it has received.
ApplyCommand(c) ==
    /\ c \in offered
    /\ effects' = effects \cup {c}
    /\ UNCHANGED <<haVars, at, runs, post, entity, offered, faults, history>>

(***************************************************************************)
(* Entities, setup and unload.                                             *)
(***************************************************************************)

\* Home Assistant polls a todo entity: it reads the runtime without the lock.
PollEntity ==
    /\ Running
    /\ entity' = Published(mem[gen])
    /\ UNCHANGED <<haVars, at, runs, post, offered, effects, faults, history>>

\* The operator changes the allowlist in the reconfigure flow.
Reconfigure(lists) ==
    /\ Spend("reconfigure")
    /\ allowed' = lists
    /\ revoked' = revoked \cup (Edit \ On(lists))
    /\ UNCHANGED <<gen, up, mem, previous, holder, stored, at, runs, post, entity,
                   offered, effects, confirmed, ghost, dropped>>

NewEntity == [lists |-> {}, view |-> {}, sentAt |-> 0]

\* async_unload_entry: the entities and the webhook go, the tasks that are
\* running in the old runtime object stay, and with them that object.
Unload ==
    /\ Running
    /\ IF \E t \in Task : at[t] \in {"waiting", "saving"}
       THEN Spend("overlap") /\ UNCHANGED mem
       ELSE Spend("reload") /\ mem' = [mem EXCEPT ![gen] = EmptyImage]
    /\ up' = "down"
    /\ entity' = NewEntity
    /\ UNCHANGED <<allowed, gen, previous, holder, stored, at, runs, post,
                   offered, effects, history>>

\* Faulty variants of Loaded: one without the last sent_at, one that reads it
\* as nothing.
LoadedWithoutSentAt ==
    [lists    |-> stored.lists \cap allowed,
     writable |-> stored.writable \cap allowed,
     found    |-> stored.found \cap On(allowed),
     view     |-> stored.view \cap On(allowed),
     queue    |-> stored.queue \cap On(allowed)]

LoadedAtZero ==
    [lists    |-> stored.lists \cap allowed,
     writable |-> stored.writable \cap allowed,
     found    |-> stored.found \cap On(allowed),
     view     |-> stored.view \cap On(allowed),
     queue    |-> stored.queue \cap On(allowed),
     sentAt   |-> 0]

\* What async_load makes of the file: the revoked lists and edits are left out.
Loaded ==
    [lists    |-> stored.lists \cap allowed,
     writable |-> stored.writable \cap allowed,
     found    |-> stored.found \cap On(allowed),
     view     |-> stored.view \cap On(allowed),
     queue    |-> stored.queue \cap On(allowed),
     sentAt   |-> stored.sentAt]

\* async_setup_entry: a new runtime object loads the file; what it revokes it
\* saves before it goes on.
Setup ==
    /\ up = "down"
    /\ gen < MaxGen
    /\ gen' = gen + 1
    /\ mem' = [mem EXCEPT ![gen'] = Loaded]
    /\ previous' = [previous EXCEPT ![gen'] = stored]
    /\ IF Loaded = stored
       THEN up' = "up" /\ entity' = Published(Loaded)
       ELSE up' = "saving" /\ UNCHANGED entity
    /\ UNCHANGED <<allowed, holder, stored, at, runs, post,
                   offered, effects, faults, history>>

\* A faulty variant of FinishSetup: the revocations are not saved.
FinishSetupUnsaved ==
    /\ up = "saving"
    /\ up' = "up"
    /\ entity' = Published(mem[gen])
    /\ dropped' = dropped \cup (previous[gen].queue \ mem[gen].queue)
    /\ previous' = [previous EXCEPT ![gen] = EmptyImage]
    /\ UNCHANGED <<allowed, gen, mem, holder, stored, at, runs, post,
                   offered, effects, faults, confirmed, ghost, revoked>>

\* The revocations have been saved: the entities and the webhook come up.
FinishSetup ==
    /\ up = "saving"
    /\ stored' = mem[gen]
    /\ up' = "up"
    /\ entity' = Published(mem[gen])
    /\ dropped' = dropped \cup (previous[gen].queue \ mem[gen].queue)
    /\ previous' = [previous EXCEPT ![gen] = EmptyImage]
    /\ UNCHANGED <<allowed, gen, mem, holder, at, runs, post,
                   offered, effects, faults, confirmed, ghost, revoked>>

\* The revocations cannot be saved: the entry is not set up.
SetupFails ==
    /\ up = "saving"
    /\ Spend("save")
    /\ stored' \in {stored, mem[gen]}
    /\ up' = "down"
    /\ mem' = [mem EXCEPT ![gen] = EmptyImage]
    /\ previous' = [previous EXCEPT ![gen] = EmptyImage]
    /\ UNCHANGED <<allowed, gen, holder, at, runs, post, entity,
                   offered, effects, history>>

\* Home Assistant stops and its memory is lost: of the saves under way any one
\* may be the last that reached the file.
Restart ==
    LET cut == {t \in Task : at[t] = "saving"} IN
    /\ up # "down"
    /\ Spend("restart")
    /\ up' = "down"
    /\ entity' = NewEntity
    /\ stored' \in {stored} \cup {Written(t) : t \in cut}
                            \cup {mem[g] : g \in {g \in {gen} : up = "saving"}}
    /\ ghost' = ghost \cup (stored'.queue \ stored.queue)
    /\ at' = [t \in Task |-> IF at[t] \in {"waiting", "saving"} THEN "failed" ELSE at[t]]
    /\ mem' = [g \in Gen |-> EmptyImage]
    /\ previous' = [g \in Gen |-> EmptyImage]
    /\ holder' = [g \in Gen |-> Nobody]
    /\ UNCHANGED <<allowed, gen, runs, post, offered, effects,
                   confirmed, revoked, dropped>>

\* Where a behaviour may start: the file of an entry whose edits D the bridge has
\* received but not yet acknowledged.  It stands for the snapshots and calls that
\* lead there, not for code.
Underway(D) ==
    [lists |-> List, writable |-> List, found |-> Edit \ Creates, view |-> D, queue |-> D,
     sentAt |-> 0]

\* A new entry has just been set up, or one that ran before is about to be.
Init ==
    /\ \E D \in Starts :
          /\ stored = IF D = {} THEN EmptyImage ELSE Underway(D)
          /\ at = [t \in Task |-> IF t \in D THEN "done" ELSE "idle"]
          /\ up = IF D = {} THEN "up" ELSE "down"
          /\ offered = D
          /\ confirmed = D
    /\ allowed = List
    /\ gen = 1
    /\ mem = [g \in Gen |-> EmptyImage]
    /\ previous = [g \in Gen |-> EmptyImage]
    /\ holder = [g \in Gen |-> Nobody]
    /\ runs = [t \in Task |-> 1]
    /\ post = [n \in Post |-> [lists |-> {}, writable |-> {}, found |-> {}, acked |-> {}]]
    /\ entity = NewEntity
    /\ effects = {}
    /\ faults = [f \in Fault |-> 0]
    /\ ghost = {}
    /\ revoked = {}
    /\ dropped = {}

TaskStep ==
    \/ \E c \in Edit : QueueEdit(c) \/ ConfirmEdit(c)
    \/ \E n \in Post : ProcessSnapshot(n) \/ AnswerSnapshot(n)

Next ==
    \/ TaskStep
    \/ \E t \in Task : RollBack(t)
    \/ \E c \in Edit : CallService(c) \/ ApplyCommand(c)
    \/ \E n \in Post : ReceiveSnapshot(n)
    \/ \E n \in Post, lists \in SUBSET List :
          \E writable \in SUBSET lists, found \in SUBSET Reminders(lists) :
             SendSnapshot(n, lists, writable, found)
    \/ PollEntity
    \/ \E lists \in SUBSET List : Reconfigure(lists)
    \/ Unload \/ Setup \/ FinishSetup \/ SetupFails \/ Restart

Spec == Init /\ [][Next]_vars

(***************************************************************************)
(* Properties.                                                             *)
(***************************************************************************)

\* Every variable has its type: BridgeRuntime.__init__ and what async_load
\* accepts.
TypeOK ==
    /\ allowed \in SUBSET List
    /\ gen \in Gen
    /\ up \in {"down", "saving", "up"}
    /\ mem \in [Gen -> Image]
    /\ previous \in [Gen -> Image]
    /\ holder \in [Gen -> Task \cup {Nobody}]
    /\ stored \in Image
    /\ at \in [Task -> Place]
    /\ runs \in [Task -> Gen]
    /\ post \in [Post -> Snapshot]
    /\ entity \in [lists : SUBSET List, view : SUBSET Edit, sentAt : Nat]
    /\ offered \in SUBSET Edit
    /\ effects \in SUBSET Edit
    /\ faults \in [Fault -> Nat]
    /\ confirmed \in SUBSET Edit
    /\ ghost \in SUBSET Edit
    /\ revoked \in SUBSET Edit
    /\ dropped \in SUBSET Edit

\* An edit whose service call returned success is in the file until the bridge
\* has applied it, through failed saves, roll-backs and restarts, unless its
\* list was revoked.
ConfirmedEditsDurable ==
    confirmed \ (effects \cup revoked) \subseteq stored.queue

\* The bridge is only offered edits whose call returned success, or that a save
\* stored although it raised: never the uncommitted changes of another task.
OnlyStoredOffered == offered \subseteq confirmed \cup ghost

\* The snapshot behind what is shown lacks the reminder of edit c, which was
\* deleted or moved on the Mac.  A create's is only missing when the snapshot
\* acknowledges that it was made.
Missing(shown, c) ==
    /\ shown.sentAt \in Post
    /\ c \notin post[shown.sentAt].found
    /\ c \in Creates => c \in post[shown.sentAt].acked

\* Once its service call returned, a user goes on seeing an edit on the entity
\* of its list: no stale snapshot, roll-back, poll or restart takes it away.  The
\* one exception is a reminder that the Mac no longer has in the list: then
\* _apply_optimistic finds no uid to change (runtime.py:340).
EditStaysVisible ==
    \A c \in (confirmed \ revoked) \cap On(entity.lists) :
        c \in entity.view \/ Missing(entity, c)

\* The queue and the lists of a runtime agree: an edit that waits for the
\* bridge is applied to its list whenever that list is there and, unless the
\* edit creates it, has its reminder.
PendingIsVisible ==
    \A g \in Gen :
        mem[g].queue \cap On(mem[g].lists) \cap Applicable(mem[g].found) \subseteq mem[g].view

\* Putting a list back on the allowlist does not bring back edits that were
\* given up when it was revoked (runtime.py:124).
DroppedStaysDropped == Running => mem[gen].queue \cap dropped = {}

\* Every call and every post gets its answer: the lock of a runtime is always
\* released, although a save fails, a body raises or the entry is reloaded.
Fairness == WF_vars(TaskStep \/ \E t \in Task : RollBack(t))

LiveSpec == Spec /\ Fairness

EveryTaskEnds == \A t \in Task : at[t] = "waiting" ~> at[t] \in {"done", "failed"}
================================================================================
