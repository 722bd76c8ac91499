-------------------------- MODULE ReminderStoreProofs --------------------------
(***************************************************************************)
(* Theorems about ReminderStore, for any lists, reminders and MCP servers. *)
(* What an update with omitted fields has read stays what the reminder     *)
(* holds, but for Apple's edits, because nobody else writes while its      *)
(* writer has the lock (LockInv, HeldInv).                                 *)
(***************************************************************************)
EXTENDS ReminderStore, TLAPS

\* What the helper saves of a well-formed request is a reminder.
LEMMA SavedType ==
    ASSUME TypeOK, NEW r \in Request, r.kind \notin {"patch", "read"}, CanRun(r)
    PROVE  Saved(r) \in Item
<1>1. CASE r.kind \in {"complete", "reopen"}
    <2>1. item[r.id] \in Item
        BY <1>1 DEF Request, CanRun, Scoped, Exists, TypeOK
    <2> QED BY <1>1, <2>1 DEF Saved, Item, Status
<1>2. CASE r.kind \in {"create", "update"}
    BY <1>2 DEF Saved, Item, Request
<1> QED BY <1>1, <1>2 DEF Request

\* A writer that is merging serves an MCP update and has read a reminder, and a
\* writer that is doing anything has a request.
ReadInv ==
    \A w \in Writer :
        /\ at[w] # "idle" => request[w] \in Request
        /\ at[w] = "merged" => request[w].kind = "patch" /\ held[w] \in Item

\* The types and what they rest on are inductive.
IInv == TypeOK /\ ReadInv

\* What is handed to the helper is a well-formed request that is not a patch.
LEMMA HandedType ==
    ASSUME IInv, NEW w \in Writer, Ready(w)
    PROVE  Handed(w) \in Request /\ Handed(w).kind \notin {"patch", "read"} /\ Handed(w).id = request[w].id
<1>1. CASE at[w] = "merged"
    <2>1. request[w] \in Request /\ request[w].kind = "patch" /\ held[w] \in Item
        BY <1>1 DEF IInv, ReadInv
    <2>2. (IF request[w].note = Omitted THEN held[w].note ELSE request[w].note) \in Note
        BY <2>1 DEF Request, Item
    <2>3. request[w].list \in List /\ request[w].id \in Reminder /\ request[w].status \in Status
        BY <2>1 DEF Request
    <2> QED BY <2>1, <2>2, <2>3 DEF Handed, Merged, Request
<1>2. CASE at[w] = "checked" /\ request[w].kind \notin {"patch", "read"}
    BY <1>2 DEF IInv, ReadInv, Handed
<1> QED BY <1>1, <1>2 DEF Ready

\* Returning from an operation keeps the types of what it touches.
LEMMA FinishType ==
    ASSUME IInv, NEW w \in Writer, Finish(w)
    PROVE  /\ lock' \in Writer \cup {Nobody}
           /\ at' \in [Writer -> {"idle", "checked", "merged"}]
           /\ request' \in [Writer -> Request \cup {Nobody}]
           /\ held' \in [Writer -> Item \cup {Absent}]
           /\ overtaken' \in SUBSET Writer
           /\ ReadInv'
BY DEF Finish, IInv, TypeOK, ReadInv

\* The initial states are well typed.
LEMMA InitType == Init => IInv
BY WriterAssumption DEF Init, IInv, TypeOK, ReadInv, Writer

\* Every step keeps the types.
LEMMA NextType == IInv /\ [Next]_vars => IInv'
<1> SUFFICES ASSUME IInv, [Next]_vars PROVE IInv'
    OBVIOUS
<1>1. ASSUME NEW w \in Client, NEW r \in Request, CallTool(w, r) PROVE IInv'
    BY <1>1 DEF CallTool, IInv, TypeOK, ReadInv, Lists, Writer
<1>2. ASSUME NEW r \in Request, BridgeApplies(r) PROVE IInv'
    BY <1>2 DEF BridgeApplies, IInv, TypeOK, ReadInv, Lists, Writer
<1>3. CASE BridgeStarts
    BY <1>3 DEF BridgeStarts, IInv, TypeOK, ReadInv, Lists, Writer
<1>4. CASE BridgeStops
    BY <1>4 DEF BridgeStops, IInv, TypeOK, ReadInv, Lists, Writer
<1>5. ASSUME NEW w \in Writer, Operation(w) PROVE IInv'
    <2>1. CASE RefuseScope(w) \/ AnswerRead(w) \/ NothingToPatch(w) \/ HelperFails(w)
        <3>1. Finish(w) /\ UNCHANGED <<Lists, item>>
            BY <2>1 DEF RefuseScope, AnswerRead, NothingToPatch, HelperFails
        <3> QED BY <3>1, FinishType DEF IInv, TypeOK, Lists
    <2>2. CASE ReadCurrent(w)
        <3>1. item[request[w].id] \in Item /\ request[w] \in Request
            BY <2>2 DEF ReadCurrent, InSnapshot, Exists, IInv, TypeOK, ReadInv, Request
        <3> QED BY <2>2, <3>1 DEF ReadCurrent, IInv, TypeOK, ReadInv, Lists
    <2>3. CASE HelperSaves(w)
        <3> DEFINE r == Handed(w)
        <3>1. r \in Request /\ r.kind \notin {"patch", "read"}
            BY <2>3, HandedType DEF HelperSaves
        <3>2. Saved(r) \in Item
            BY <2>3, <3>1, SavedType DEF HelperSaves, IInv
        <3>3. r.id \in Reminder
            BY <3>1 DEF Request
        <3> HIDE DEF r
        <3>4. Finish(w) /\ UNCHANGED Lists /\ item' = [item EXCEPT ![r.id] = Saved(r)]
            BY <2>3 DEF HelperSaves, r
        <3> QED BY <3>2, <3>3, <3>4, FinishType DEF IInv, TypeOK, Lists
    <2> QED BY <1>5, <2>1, <2>2, <2>3 DEF Operation
<1>6. CASE AppleStep
    <2>1. ASSUME NEW u \in Reminder, GrowsOld(u) PROVE IInv'
        BY <2>1 DEF GrowsOld, Exists, IInv, TypeOK, ReadInv, Lists, Item
    <2>2. ASSUME NEW u \in Reminder, NEW new \in Item \cup {Absent}, AppleEdits(u, new) PROVE IInv'
        BY <2>2 DEF AppleEdits, Overtakes, IInv, TypeOK, ReadInv, Lists
    <2>3. ASSUME NEW lists \in SUBSET List, NEW modifiable \in SUBSET lists,
                 ListsChange(lists, modifiable)
          PROVE  IInv'
        <3>1. item' \in [Reminder -> Item \cup {Absent}]
            BY <2>3 DEF ListsChange, IInv, TypeOK
        <3> QED BY <2>3, <3>1 DEF ListsChange, Overtakes, IInv, TypeOK, ReadInv
    <2> QED BY <1>6, <2>1, <2>2, <2>3 DEF AppleStep
<1>7. CASE UNCHANGED vars
    BY <1>7 DEF vars, IInv, TypeOK, ReadInv
<1> QED BY <1>1, <1>2, <1>3, <1>4, <1>5, <1>6, <1>7 DEF Next

\* Every reachable state is well typed, for any lists, reminders and servers.
THEOREM TypeCorrect == Spec => []TypeOK
<1>1. IInv => TypeOK
    BY DEF IInv
<1> QED BY <1>1, InitType, NextType, PTL DEF Spec

\* Whoever is doing anything has the lock.
LockInv == \A w \in Writer : at[w] # "idle" => lock = w

\* Only what is in an allowlisted list is merged.
ScopeInv == \A w \in Writer : at[w] = "merged" => request[w].list \in Allowed

\* What a merging writer has read is what the reminder holds, unless Apple has
\* changed it since.
HeldInv ==
    \A w \in Writer : at[w] = "merged" =>
        LET u == request[w].id IN
        \/ Exists(u) /\ item[u].note = held[w].note
        \/ w \in overtaken

SInv == IInv /\ LockInv /\ ScopeInv /\ HeldInv

\* Nobody is doing anything at the start.
LEMMA InitSafe == Init => SInv
BY InitType DEF Init, SInv, LockInv, ScopeInv, HeldInv

\* Returning from an operation leaves nothing to be said about the writer, and
\* the others were doing nothing.
LEMMA FinishSafe ==
    ASSUME SInv, NEW w \in Writer, at[w] # "idle", Finish(w)
    PROVE  \A v \in Writer : at'[v] = "idle"
<1>1. \A v \in Writer \ {w} : at[v] = "idle"
    BY DEF SInv, LockInv
<1> QED BY <1>1 DEF Finish, SInv, IInv, TypeOK

\* With every writer idle the safety invariant is its type part.
LEMMA IdleSafe ==
    ASSUME IInv', \A v \in Writer : at'[v] = "idle"
    PROVE  SInv'
BY DEF SInv, LockInv, ScopeInv, HeldInv

\* Apple's steps overtake a merging writer or leave the note it has read alone.
LEMMA AppleTellsOn ==
    ASSUME TypeOK, AppleStep, NEW w \in Writer, at[w] = "merged", request[w].id \in Reminder
    PROVE  /\ w \in overtaken => w \in overtaken'
           /\ w \in overtaken' \/ (Exists(request[w].id) => NoteStays(request[w].id))
<1> DEFINE u == request[w].id
<1>1. ASSUME NEW x \in Reminder, GrowsOld(x) PROVE Exists(u) => NoteStays(u)
    <2>1. item[x] \in Item
        BY <1>1 DEF GrowsOld, Exists, TypeOK
    <2>2. item' = [item EXCEPT ![x].status = "archived"]
        BY <1>1 DEF GrowsOld
    <2>3. item'[x] \in Item /\ item'[x].note = item[x].note
        BY <2>1, <2>2 DEF Item, TypeOK
    <2>4. u # x => item'[u] = item[u]
        BY <2>2 DEF TypeOK
    <2> QED BY <2>3, <2>4, AbsentAssumption DEF NoteStays, Exists
<1>2. ASSUME NEW x \in Reminder, GrowsOld(x) PROVE overtaken' = overtaken
    BY <1>2 DEF GrowsOld
<1>3. CASE Overtakes
    BY <1>3 DEF Overtakes
<1> QED BY <1>1, <1>2, <1>3 DEF AppleStep, AppleEdits, ListsChange

\* Every step keeps the safety invariant.
LEMMA NextSafe == SInv /\ [Next]_vars => SInv'
<1> SUFFICES ASSUME SInv, [Next]_vars PROVE SInv'
    OBVIOUS
<1>0. IInv'
    BY NextType DEF SInv
<1>1. ASSUME NEW w \in Client, NEW r \in Request, CallTool(w, r) PROVE SInv'
    <2>1. \A v \in Writer : at[v] = "idle"
        BY <1>1, WriterAssumption DEF CallTool, SInv, LockInv, Writer
    <2> QED BY <1>0, <1>1, <2>1 DEF CallTool, SInv, IInv, TypeOK, LockInv, ScopeInv, HeldInv, Writer
<1>2. ASSUME NEW r \in Request, BridgeApplies(r) PROVE SInv'
    BY <1>0, <1>2 DEF BridgeApplies, SInv, IInv, TypeOK, LockInv, ScopeInv, HeldInv, Writer, Exists
<1>3. CASE BridgeStarts
    <2>1. \A v \in Writer : at[v] = "idle"
        BY <1>3, WriterAssumption DEF BridgeStarts, SInv, LockInv, Writer
    <2> QED BY <1>0, <1>3, <2>1, IdleSafe DEF BridgeStarts
<1>4. CASE BridgeStops
    <2>1. \A v \in Writer : at'[v] = "idle"
        BY <1>4 DEF BridgeStops, SInv, IInv, TypeOK, LockInv, Writer
    <2> QED BY <1>0, <2>1, IdleSafe
<1>5. ASSUME NEW w \in Writer, Operation(w) PROVE SInv'
    <2>1. CASE ReadCurrent(w)
        <3>1. LockInv'
            BY <2>1 DEF ReadCurrent, SInv, IInv, TypeOK, LockInv
        <3>2. ScopeInv'
            BY <2>1 DEF ReadCurrent, InSnapshot, SInv, IInv, TypeOK, ScopeInv
        <3>3. HeldInv'
            BY <2>1 DEF ReadCurrent, InSnapshot, SInv, IInv, TypeOK, HeldInv, Exists
        <3> QED BY <1>0, <3>1, <3>2, <3>3 DEF SInv
    <2>2. CASE RefuseScope(w) \/ AnswerRead(w) \/ NothingToPatch(w) \/ HelperFails(w) \/ HelperSaves(w)
        <3>1. at[w] # "idle" /\ Finish(w)
            BY <2>2 DEF RefuseScope, AnswerRead, NothingToPatch, HelperFails, HelperSaves, Ready
        <3> QED BY <1>0, <3>1, FinishSafe, IdleSafe
    <2> QED BY <1>5, <2>1, <2>2 DEF Operation
<1>6. CASE AppleStep
    <2>1. UNCHANGED <<lock, at, request, held>>
        BY <1>6 DEF AppleStep, GrowsOld, AppleEdits, ListsChange
    <2>2. LockInv' /\ ScopeInv'
        BY <2>1 DEF SInv, LockInv, ScopeInv
    <2>3. HeldInv'
        BY <1>6, <2>1, AppleTellsOn DEF SInv, HeldInv, IInv, ReadInv, Request, Exists, NoteStays
    <2> QED BY <1>0, <2>2, <2>3 DEF SInv
<1>7. CASE UNCHANGED vars
    BY <1>0, <1>7 DEF vars, SInv, LockInv, ScopeInv, HeldInv, Exists
<1> QED BY <1>1, <1>2, <1>3, <1>4, <1>5, <1>6, <1>7 DEF Next

\* Nothing but Apple changes a reminder outside the allowlist or in a list that
\* cannot be modified, for any number of MCP servers beside the bridge.
THEOREM ScopeRespected == Spec => OutOfScopeUntouched
<1> DEFINE A == \A u \in Reminder :
                   /\ Exists(u)
                   /\ item'[u] # item[u]
                   => item[u].list \in Allowed \cap writable \/ AppleStep
<1>1. SInv /\ [Next]_vars => [A]_vars
    <2> SUFFICES ASSUME SInv, Next, NEW u \in Reminder, Exists(u), item'[u] # item[u], ~AppleStep
                 PROVE  item[u].list \in Allowed \cap writable
        OBVIOUS
    <2>1. PICK w \in Writer : HelperSaves(w)
        <3>1. ~(item' = item)
            OBVIOUS
        <3> QED BY <3>1 DEF Next, CallTool, BridgeApplies, BridgeStarts, BridgeStops, Operation,
                            RefuseScope, AnswerRead, ReadCurrent, NothingToPatch,
                            HelperFails
    <2> DEFINE r == Handed(w)
    <2>2. Ready(w) /\ CanRun(r) /\ item' = [item EXCEPT ![r.id] = Saved(r)]
        BY <2>1 DEF HelperSaves
    <2>3. r.list \in Allowed
        BY <2>2 DEF Ready, Handed, Merged, SInv, ScopeInv
    <2> HIDE DEF r
    <2>4. u = r.id
        BY <2>2 DEF SInv, IInv, TypeOK
    <2>5. item[u].list = r.list /\ r.list \in writable
        BY <2>2, <2>4 DEF CanRun, Scoped
    <2> QED BY <2>3, <2>5
<1> QED BY <1>1, InitSafe, NextSafe, PTL DEF Spec, OutOfScopeUntouched

\* An update that omits a field keeps what the field holds, unless Apple has
\* changed it since the update read it, for any number of MCP servers beside the
\* bridge.
THEOREM OmissionKeeps == Spec => OmittedFieldKept
<1> DEFINE A == \A w \in Writer :
                   HelperSaves(w) /\ at[w] = "merged" /\ request[w].note = Omitted =>
                       LET u == request[w].id IN
                       item'[u].note = item[u].note \/ w \in overtaken
<1>1. SInv /\ [Next]_vars => [A]_vars
    <2> SUFFICES ASSUME SInv, NEW w \in Writer, HelperSaves(w), at[w] = "merged",
                        request[w].note = Omitted, w \notin overtaken
                 PROVE  item'[request[w].id].note = item[request[w].id].note
        OBVIOUS
    <2> DEFINE u == request[w].id
    <2>1. item[u].note = held[w].note
        BY DEF SInv, HeldInv
    <2>2. request[w].kind = "patch" /\ u \in Reminder
        BY DEF SInv, IInv, ReadInv, Request
    <2>3. Handed(w).id = u /\ Handed(w).kind = "update" /\ Handed(w).note = held[w].note
        BY <2>2 DEF Handed, Merged
    <2>4. Saved(Handed(w)).note = held[w].note
        BY <2>3 DEF Saved
    <2>5. item'[u] = Saved(Handed(w))
        BY <2>2, <2>3 DEF HelperSaves, SInv, IInv, TypeOK
    <2> QED BY <2>1, <2>4, <2>5
<1> QED BY <1>1, InitSafe, NextSafe, PTL DEF Spec, OmittedFieldKept

\* A client that follows next_offset (pageBounds) is told of every entry of a
\* result that does not change, of none twice, and never sent to an offset that
\* is refused: a page that has a next one is full and ends where that begins,
\* a page that has none ends with the result.
THEOREM PagesJoin ==
    ASSUME NEW offset \in Nat, NEW limit \in Nat, NEW total \in Nat,
           ~PageRefused(offset, limit), total <= MaxOffset
    PROVE  LET page == Page(offset, limit, total)
           IN  /\ page.first <= page.last /\ page.last <= total
               /\ page.next = {} => page.last = total
               /\ \A next \in page.next :
                     /\ page.first = offset /\ page.last = next /\ offset < next
                     /\ next - offset = IF limit = 0 THEN PageSize ELSE limit
                     /\ ~PageRefused(next, limit)
<1> DEFINE size == IF limit = 0 THEN PageSize ELSE limit
<1>1. size \in Nat /\ size > 0
    BY DEF PageSize
<1> QED BY <1>1, SMT DEF Page, PageRefused, PageSize, MaxOffset
================================================================================
