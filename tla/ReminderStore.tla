----------------------------- MODULE ReminderStore -----------------------------
(***************************************************************************)
(* The writers of Apple's reminders on one Mac: the bridge, which applies  *)
(* Home Assistant's commands, any number of local MCP servers, and Apple's *)
(* own applications, which know nothing of the others                      *)
(* (internal/reminderstore, internal/mcpserver, eventkit-helper).          *)
(*                                                                         *)
(* An operation of the store is one or two runs of the EventKit helper.    *)
(* An update that omits fields is two: it reads the reminder, merges, and  *)
(* writes all of it.  MCP operations take the bridge's lock one by one, a  *)
(* bridge keeps it while it runs.  A run of the helper is a single step    *)
(* towards EventKit, and the helper does not outlive its process.          *)
(***************************************************************************)
EXTENDS Naturals

CONSTANTS
    Client,    \* MCP servers, and runs of doctor, whose probe takes the lock
    Bridge,    \* the bridge process
    Reminder,  \* EventKit identifiers
    List,      \* EventKit lists
    Allowed,   \* the configured allowlist
    Note,      \* what an optional field (description, due) can hold
    Absent,    \* no such reminder
    Omitted,   \* a field left out of an MCP update
    Nobody     \* the lock is free; no request

Writer == Client \cup {Bridge}

ASSUME AllowedAssumption == Allowed \subseteq List
ASSUME WriterAssumption == Bridge \notin Client /\ Nobody \notin Writer

VARIABLES
    present,   \* the lists EventKit has
    writable,  \* those it can modify
    item,      \* the reminders
    lock,      \* who holds the state lock
    at,        \* where each writer is: "idle", "checked", "merged"
    request,   \* what it was asked to do
    held,      \* the reminder an update with omitted fields has read
    overtaken  \* history: writers whose reminder Apple has changed since then

vars == <<present, writable, item, lock, at, request, held, overtaken>>

\* A reminder.  "archived" is completed for longer than completed_retention.
Status == {"needs_action", "completed"}
Item == [list : List, note : Note, status : Status \cup {"archived"}]

ASSUME AbsentAssumption == Absent \notin Item
ASSUME OmittedAssumption == Omitted \notin Note

Request ==
    [kind : {"create", "update"}, list : List, id : Reminder, note : Note, status : Status]
    \cup [kind : {"patch"}, list : List, id : Reminder, note : Note \cup {Omitted}, status : Status]
    \cup [kind : {"complete", "reopen"}, list : List, id : Reminder]
    \cup [kind : {"read"}, list : List]

Lists == <<present, writable>>

Exists(u) == item[u] # Absent

(***************************************************************************)
(* The helper.                                                             *)
(***************************************************************************)

\* A faulty variant of Scoped: the reminder may be in any list.
ScopedAnywhere(r) == Exists(r.id) /\ r.list \in writable

\* scopedReminder: an existing reminder of exactly the requested list, which
\* can be modified.
Scoped(r) == Exists(r.id) /\ item[r.id].list = r.list /\ r.list \in writable

\* The guards of create, update and setCompleted.  EventKit gives a new
\* reminder an identifier that is not in use.
CanRun(r) == IF r.kind = "create" THEN ~Exists(r.id) /\ r.list \in writable ELSE Scoped(r)

\* What create, update and setCompleted save.
Saved(r) ==
    IF r.kind \in {"complete", "reopen"}
    THEN [item[r.id] EXCEPT !.status = IF r.kind = "complete" THEN "completed" ELSE "needs_action"]
    ELSE [list |-> r.list, note |-> r.note, status |-> r.status]

(***************************************************************************)
(* Operations of the store.                                                *)
(***************************************************************************)

\* A faulty variant of Finish: the lock is not released.
FinishKeepsLock(w) ==
    /\ at' = [at EXCEPT ![w] = "idle"]
    /\ request' = [request EXCEPT ![w] = Nobody]
    /\ held' = [held EXCEPT ![w] = Absent]
    /\ overtaken' = overtaken \ {w}
    /\ UNCHANGED lock

\* Writer w's operation returns, with or without an error.  An MCP server
\* releases the lock, a bridge goes on holding it.
Finish(w) ==
    /\ at' = [at EXCEPT ![w] = "idle"]
    /\ request' = [request EXCEPT ![w] = Nobody]
    /\ held' = [held EXCEPT ![w] = Absent]
    /\ overtaken' = overtaken \ {w}
    /\ lock' = IF lock = w /\ w # Bridge THEN Nobody ELSE lock

\* The tools: lists and items are read, a new reminder is open, a change is a
\* patch.
Offers(r) ==
    /\ r.kind # "update"
    /\ r.kind = "create" => r.status = "needs_action"

\* A faulty variant of CallTool: the operation does not take the lock.
CallToolUnlocked(w, r) ==
    /\ at[w] = "idle"
    /\ Offers(r)
    /\ at' = [at EXCEPT ![w] = "checked"]
    /\ request' = [request EXCEPT ![w] = r]
    /\ UNCHANGED <<Lists, item, lock, held, overtaken>>

\* An MCP client calls a tool.  Unless the lock is free the call fails at once
\* and nothing happens.
CallTool(w, r) ==
    /\ at[w] = "idle"
    /\ Offers(r)
    /\ lock = Nobody
    /\ lock' = w
    /\ at' = [at EXCEPT ![w] = "checked"]
    /\ request' = [request EXCEPT ![w] = r]
    /\ UNCHANGED <<Lists, item, held, overtaken>>

\* serve or sync-once starts; it exits if it does not get the lock.
BridgeStarts ==
    /\ lock = Nobody
    /\ lock' = Bridge
    /\ UNCHANGED <<Lists, item, at, request, held, overtaken>>

\* The bridge reads its lists for a snapshot, or applies a command of
\* Home Assistant, which replaces all fields.
BridgeApplies(r) ==
    /\ lock = Bridge
    /\ at[Bridge] = "idle"
    /\ r.kind # "patch"
    /\ at' = [at EXCEPT ![Bridge] = "checked"]
    /\ request' = [request EXCEPT ![Bridge] = r]
    /\ UNCHANGED <<Lists, item, lock, held, overtaken>>

\* A list outside the allowlist: checkWrite and SetCompleted, before any run of
\* the helper, or a reading tool that does not find it in its answer.
RefuseScope(w) ==
    /\ at[w] = "checked"
    /\ request[w].kind # "patch"
    /\ request[w].list \notin Allowed
    /\ Finish(w)
    /\ UNCHANGED <<Lists, item>>

\* What Snapshot returns of reminder u: nothing while an allowlisted list is
\* missing, and no old history.
InSnapshot(u) ==
    /\ Allowed \subseteq present
    /\ Exists(u)
    /\ item[u].list \in Allowed
    /\ item[u].status # "archived"

\* A reading tool answers from one run of the helper, or from none.
AnswerRead(w) ==
    /\ at[w] = "checked"
    /\ request[w].kind = "read"
    /\ request[w].list \in Allowed
    /\ Finish(w)
    /\ UNCHANGED <<Lists, item>>

\* UpdatePatch reads the reminder with one run of the helper.
ReadCurrent(w) ==
    LET r == request[w] IN
    /\ at[w] = "checked"
    /\ r.kind = "patch"
    /\ InSnapshot(r.id)
    /\ item[r.id].list = r.list
    /\ held' = [held EXCEPT ![w] = item[r.id]]
    /\ at' = [at EXCEPT ![w] = "merged"]
    /\ UNCHANGED <<Lists, item, lock, request, overtaken>>

\* The snapshot does not have the reminder in the requested list.
NothingToPatch(w) ==
    LET r == request[w] IN
    /\ at[w] = "checked"
    /\ r.kind = "patch"
    /\ ~(InSnapshot(r.id) /\ item[r.id].list = r.list)
    /\ Finish(w)
    /\ UNCHANGED <<Lists, item>>

\* A faulty variant of Merged: an omitted field is written like any other.
MergedBlindly(w) ==
    [kind |-> "update", list |-> request[w].list, id |-> request[w].id,
     note |-> request[w].note, status |-> request[w].status]

\* The full update that UpdatePatch makes of its request: an omitted field
\* keeps what has been read.
Merged(w) ==
    [kind   |-> "update", list |-> request[w].list, id |-> request[w].id,
     note   |-> IF request[w].note = Omitted THEN held[w].note ELSE request[w].note,
     status |-> request[w].status]

\* The request that writer w hands to the helper.
Handed(w) == IF request[w].kind = "patch" THEN Merged(w) ELSE request[w]

Ready(w) ==
    \/ at[w] = "merged"
    \/ at[w] = "checked" /\ request[w].kind \notin {"patch", "read"} /\ request[w].list \in Allowed

\* The helper saves the reminder.  The operation may return an error all the
\* same: a timeout, too much output, a reminder that is not valid.
HelperSaves(w) ==
    LET r == Handed(w) IN
    /\ Ready(w)
    /\ CanRun(r)
    /\ item' = [item EXCEPT ![r.id] = Saved(r)]
    /\ Finish(w)
    /\ UNCHANGED Lists

\* The helper refuses, is killed at its timeout, or the process stops.
HelperFails(w) ==
    /\ at[w] # "idle"
    /\ Finish(w)
    /\ UNCHANGED <<Lists, item>>

\* The bridge exits, with what it was doing undone; its lock goes with it.
BridgeStops ==
    /\ lock = Bridge
    /\ lock' = Nobody
    /\ at' = [at EXCEPT ![Bridge] = "idle"]
    /\ request' = [request EXCEPT ![Bridge] = Nobody]
    /\ held' = [held EXCEPT ![Bridge] = Absent]
    /\ overtaken' = overtaken \ {Bridge}
    /\ UNCHANGED <<Lists, item>>

(***************************************************************************)
(* The pages of an answer.                                                 *)
(***************************************************************************)
PageSize  == 100
MaxOffset == 1000000

\* pageBounds refuses the request.
PageRefused(offset, limit) == offset > MaxOffset \/ limit > PageSize

\* The entries first .. last - 1 of a result of "total" entries, and where to
\* go on; limit 0 is a limit left out.
Page(offset, limit, total) ==
    LET first == IF offset > total THEN total ELSE offset
        size  == IF limit = 0 THEN PageSize ELSE limit
        last  == IF first + size > total THEN total ELSE first + size
    IN  [first |-> first, last |-> last, next |-> IF last < total THEN {last} ELSE {}]

(***************************************************************************)
(* Apple.                                                                  *)
(***************************************************************************)

\* The note of reminder u outlives a step.
NoteStays(u) == Exists(u) /\ item'[u] # Absent /\ item'[u].note = item[u].note

\* A step of Apple's overtakes the updates that have read a note it changes.
Overtakes ==
    overtaken' = overtaken \cup {w \in Writer : at[w] = "merged" /\ ~NoteStays(request[w].id)}

\* A reminder is made, changed, moved or deleted outside the bridge.
AppleEdits(u, new) ==
    /\ new # Absent => new.list \in writable
    /\ Exists(u) => item[u].list \in writable
    /\ item' = [item EXCEPT ![u] = new]
    /\ Overtakes
    /\ UNCHANGED <<Lists, lock, at, request, held>>

\* A completed reminder gets older than completed_retention.
GrowsOld(u) ==
    /\ Exists(u)
    /\ item[u].status = "completed"
    /\ item' = [item EXCEPT ![u].status = "archived"]
    /\ UNCHANGED <<Lists, lock, at, request, held, overtaken>>

\* Lists appear, disappear with their reminders, and change their access.
ListsChange(lists, modifiable) ==
    /\ present' = lists
    /\ writable' = modifiable
    /\ item' = [u \in Reminder |->
                  IF Exists(u) /\ item[u].list \notin lists THEN Absent ELSE item[u]]
    /\ Overtakes
    /\ UNCHANGED <<lock, at, request, held>>

AppleStep ==
    \/ \E u \in Reminder : GrowsOld(u) \/ \E new \in Item \cup {Absent} : AppleEdits(u, new)
    \/ \E lists \in SUBSET List : \E modifiable \in SUBSET lists : ListsChange(lists, modifiable)

(***************************************************************************)
(* The specification.                                                      *)
(***************************************************************************)
Init ==
    /\ present = List
    /\ writable = List
    /\ item = [u \in Reminder |-> Absent]
    /\ lock = Nobody
    /\ at = [w \in Writer |-> "idle"]
    /\ request = [w \in Writer |-> Nobody]
    /\ held = [w \in Writer |-> Absent]
    /\ overtaken = {}

Operation(w) ==
    RefuseScope(w) \/ AnswerRead(w) \/ ReadCurrent(w) \/ NothingToPatch(w) \/ HelperSaves(w) \/ HelperFails(w)

Next ==
    \/ \E w \in Client, r \in Request : CallTool(w, r)
    \/ \E r \in Request : BridgeApplies(r)
    \/ BridgeStarts \/ BridgeStops
    \/ \E w \in Writer : Operation(w)
    \/ AppleStep

Spec == Init /\ [][Next]_vars

\* An operation ends: each run of the helper does, at its timeout if not before.
LiveSpec == Spec /\ \A w \in Client : WF_vars(Operation(w))

(***************************************************************************)
(* Properties.                                                             *)
(***************************************************************************)

\* Every variable has its type: model.Item, the helper's requests, the lock.
TypeOK ==
    /\ present \in SUBSET List
    /\ writable \in SUBSET present
    /\ item \in [Reminder -> Item \cup {Absent}]
    /\ lock \in Writer \cup {Nobody}
    /\ at \in [Writer -> {"idle", "checked", "merged"}]
    /\ request \in [Writer -> Request \cup {Nobody}]
    /\ held \in [Writer -> Item \cup {Absent}]
    /\ overtaken \in SUBSET Writer

\* An update that omits a field keeps what the field holds when it is written,
\* whoever set it (docs/reminder-semantics.md: "MCP omission preserves the
\* existing value").  Only what Apple's applications change between the two
\* runs of the helper is undone, never what the bridge or an MCP server wrote.
OmittedFieldKept ==
    [][\A w \in Writer :
          HelperSaves(w) /\ at[w] = "merged" /\ request[w].note = Omitted =>
              LET u == request[w].id IN
              item'[u].note = item[u].note \/ w \in overtaken]_vars

\* Nothing but Apple changes a reminder that is in a list outside the
\* allowlist or that cannot be modified, however the reminder got there while
\* the operation was under way.
OutOfScopeUntouched ==
    [][\A u \in Reminder :
          /\ Exists(u)
          /\ item'[u] # item[u]
          => item[u].list \in Allowed \cap writable \/ AppleStep]_vars

\* An MCP server releases the lock after every operation, so that it does not
\* keep a bridge from starting (the comment of LockedStore).
LockReleased == \A w \in Client : lock = w ~> lock # w
================================================================================
