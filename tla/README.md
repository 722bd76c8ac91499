# Fruit Forwarder: specifications, model checking and proofs

TLA+ modules of the synchronization of reminders and calendars between Home Assistant
and Apple's EventKit, the TLC runs that check them on small instances, and TLAPS
proofs of their safety properties and of the refinement for every instance. `src/` below is the repository;
paths in the text are relative to it.

    tlc -config sync_safety.cfg MCCommandSync.tla      # one run, see "Runs"
    tlapm CommandSyncEffects.tla                       # one proof module

`PROJECT.json` lists the same things for tools: components, runs, the source lines
of every definition, findings, hazards and theorems.

## 1. The system

A user edits a todo entity in Home Assistant. The custom component stores the edit
as a *command* and shows it at once. A bridge process on a Mac regularly posts a
*snapshot* (the allowlisted reminder lists, and the identifiers of the commands it
has applied) to a webhook; the response carries the queued commands. The bridge
applies them one by one with a helper that talks to EventKit, and posts another
snapshot that confirms them. Both sides may crash, the network may lose, delay and
reorder, saves may fail, and the effect of a helper that did not answer is unknown.
Local MCP servers write the same reminders. Snapshots also carry the
events of allowlisted calendars, which Home Assistant shows read-only until they are stale.

| Component (source) | State it keeps | Operations | Talks to | What must hold |
| --- | --- | --- | --- | --- |
| Acknowledgement state `internal/state/state.go` | ledger of at most 1,000 applied identifiers, the in-flight command, the accepted epoch, in one file; an advisory lock | Load, Save (temporary file, rename, directory sync), Has, MarkApplied, Acquire, Probe | every bridge process | no state is built that Save or Load refuses; the ledger forgets nothing that is still queued |
| Sync client `internal/hasync/client.go` | that state in memory, the response being walked, the retry delay | Run, SyncOnce, postSnapshot, acceptQueueEpoch, validation | webhook, store, state file | no command applied twice, none of another queue, uncertainty recorded before it arises |
| Command line `cmd/icloud-reminders-bridge/main.go` | none of its own | serve, sync-once, recover, reset-queue-epoch, doctor, mcp | state file, lock | one process applies commands; the operator can resolve what the bridge refuses |
| Reminder store and helper `internal/reminderstore`, `eventkit-helper` | none; EventKit has the reminders | create, update, patch, complete, reopen, snapshot, calendar events | EventKit | exact scope; a patch keeps what it omits |
| Locked store, MCP server `internal/mcpserver` | none | the tools that read and write, pages | the same lock | writers do not undo each other; the lock comes back; pages cover an answer once |
| Runtime `custom_components/.../runtime.py` | lists, command queue, epoch, last sent_at, in memory and in HA's storage | async_load, async_process_snapshot, async_queue_command, the transaction | webhook, entities, storage | a confirmed edit is neither lost nor hidden; nothing unsaved is offered |
| Entry, config flow `__init__.py`, `config_flow.py` | entries with token, unique_id, bridge and allowlists; the registered webhook | setup and its failures, unload, create, reconfigure | runtime, Home Assistant | no old token stays open; entries do not disturb each other; a reload or a revocation loses and revives nothing |
| Entities `todo.py`, `calendar.py` | published state | service calls, polling | runtime | an edit stays visible; nothing stale or revoked is shown |
| Calendars `reminderstore/calendars.go`, `calendar_data.py`, `runtime.py` | a read-only cache and the time it was filled | read all or nothing, replaced by snapshots, kept without, dropped when revoked | webhook, clocks | what is shown is recent and allowed; an error hides nothing that is fresh; everything comes back |
| Configuration, keychain, diagnostics, installation and release scripts | files | read once, or run by hand | | not modelled |

What is hard here: the ambiguity between EventKit's commit and its record on disk;
two processes and an operator around one lock and one file; snapshots that overtake
each other or arrive after the client's timeout; a bounded ledger against a queue of
the same bound; a queue that comes back as another one; in-place changes of the
runtime while a save is awaited; a reload that leaves tasks of the old runtime
running; two clocks, of which one may be set; a webhook registry that entries share.
The hazards in PROJECT.json name the line of each and the property for it.

## 2. Modules

    DurableQueue            what the queue promises (abstract)
        ^ implemented by
    CommandSync ---------- HomeAssistant --.
        |                                   +-- Webhook -- BridgeState
        '----------------- MacBridge ------'
        ^ proofs: CommandSyncTypes <- CommandSyncJournal <- CommandSyncViews <- CommandSyncEffects
    HARuntime        <- HARuntimeProofs       one config entry, at the grain of asyncio
    ReminderStore    <- ReminderStoreProofs   the readers and writers of EventKit on one Mac
    CalendarSync     <- CalendarSyncProofs    what is shown and how old it is, over time
    EntryLifecycle   <- EntryLifecycleProofs  the config entries and their webhooks
    MC...                   values of the constants for TLC

**BridgeState** is the value that `state.go` stores and the operators on it. A command
stands for its identifier; epochs are numbers in the order Home Assistant makes them.

**Webhook** is the network. `requests` holds the posted snapshots in the order of their
`sent_at`; they are delivered in any order, lost, or delivered when their sender no
longer waits (`awaited`). A request is `stale` once one with a later `sent_at` has been
accepted, which replaces the comparison of timestamps in `runtime.py:185`.

**HomeAssistant** has the runtime's transactions as single steps: `QueueCommand`
(`async_queue_command`), `AcceptSnapshot` and `RejectSnapshot`
(`async_process_snapshot`, with the refusal of old snapshots and of oversized
responses), `NewStorage` (the storage is lost or replaced: a new epoch).

**MacBridge** has one action per step of `SyncOnce` between two points where another
process, the network or a crash can matter. `pc` says where a process is. `LoadState` and
`AcquireLock` are separate steps in the order of `main.go:115-119`. `JournalCommand`,
`HelperCommits`, `HelperFails` and `RecordApplied` are the loop of `client.go:139-156`;
every `Save` can fail, before or after the rename. `Crash` can happen anywhere and lets
a running helper commit or not. `RecoverRetry`, `RecoverApplied` and `ResetQueueEpoch`
are the operator's commands.

**CommandSync** composes the three, states the properties, the fairness and the
refinement of DurableQueue.

**DurableQueue** says without processes, files or messages what an edit may go through:
accepted, tried with an uncertain outcome on record, in effect at most once, confirmed,
retried or attested by the operator, retired only when it is in effect or attested.
`CommandSync!Promise` maps accepted commands, the queue and the journal on disk to it.

**HARuntime** opens the transactions that HomeAssistant closes: a task waits for
`asyncio.Lock`, changes the runtime in place (`Change`), awaits the save, then commits or
rolls back. Entities poll in between. `gen` numbers the runtime objects: a reload makes a
new one while the old one's tasks go on. The allowlist changes under it (`Reconfigure`),
and `Setup`/`FinishSetup` drop and save what was revoked. Which waiting task gets the lock
is left open (asyncio is first come first served). Home Assistant's `Store` is external:
`async_save` writes what it is given, or raises and leaves the old or the new file, which
is what `runtime.py` relies on (a `Store` that logs a failed write and returns would break
the promise of `runtime.py:238` outside this code). An edit creates a reminder (`Creates`) or
changes one; users delete and move reminders on the Mac, so a snapshot says which of them it
`found`, and `_apply_optimistic` (`Shown`, `Applicable`) can only change those. `Underway` is a
start state that stands for the calls and snapshots that lead there, and for no code.

**ReminderStore** has the bridge, any number of MCP servers and Apple's applications
change reminders. An update that omits fields is two runs of the helper under one lock
(`ReadCurrent`, `HelperSaves`). Description and due date are one field, `note`: the code
treats them alike. The title is always replaced and is left out. `overtaken` are the updates
whose reminder Apple's applications changed after the update read it. The tools that read, the
bridge's own snapshots and the probe of doctor take the lock like the others and change
nothing (`AnswerRead`; a `Client` that is a run of doctor could do less than the model lets
it do). `Page` and `PageRefused` are `pageBounds` of `pagination.go`.

**CalendarSync** has one bridge and one entry over time. A round reads the reminders, reads
every calendar or none (`ReadableSets`, `Published`), stamps what it read with the Mac's
clock and posts it; `Accept` and `Refuse` are `async_process_snapshot` as far as scope,
stamps and calendars are concerned. `EndRound` sets the timer to the delay of
`retryDelay`, jitter included. Time passes in ticks; every instant is kept as an age or
relative to Home Assistant's clock, so that behaviours without end have finitely many
states. `calm` counts the ticks since something last disturbed reminders or calendars;
`withdrawn` remembers what was revoked at a setup and not received in an accepted snapshot
since.

**EntryLifecycle** has several config entries. Home Assistant takes one entry through
setup and unload a step at a time, several entries at once; the config flow changes the
stored data at any moment and schedules a reload. `webhook` is Home Assistant's registry.
A token stands for its hash, the unique_id. `HARuntime` has what happens between setup and
unload; `EntryLifecycle` has one runtime per entry and no tasks.

Some operators are commented "a faulty variant": a plausible mistake in the operator
after it. No specification uses them; substituted for the original they show that the
property in question would notice (PROJECT.json, `mutants`).

## 3. Assumptions of the models

- A command is its identifier. Its fields matter only where the code branches on them:
  its list, and whether the bridge's validation accepts it (`Invalid`).
- A helper does not outlive its process: launchd ends the whole job, and the Go context
  kills the helper on a signal and at the 30 s timeout.
- `sync-once` is the first round of `serve` followed by a stop.
- A failed EventKit read before the first post changes nothing and is not a step.
- The commands in the response to the confirming snapshot wait for the next round, as in
  `client.go:164`.
- The operator follows docs/command-lifecycle.md: stops a bridge that asks for a
  resolution, answers "applied" or "retry", accepts the current epoch. "retry" is counted
  as a fresh start of that command (`execs`), because it is the operator who vouches for it.
- The conversion of items and events is left out. Time is in CalendarSync only; the other
  modules let every delay take any time.
- CalendarSync: Home Assistant's clock is steady, the Mac's may be set at any time. A round,
  an answer and the 20 s timeout take less than a tick of five minutes, and stamps made
  within one tick have no order. The age of calendars counts from their arrival, as in
  `runtime.py:197`; the time on the way is bounded by `MaxTransit`. The second post of a
  round is left out (it is a round without delay). A save that raises with the new file in
  place is HARuntime's subject. `Interval <= StaleAfter` is assumed.
- EntryLifecycle: removing, disabling and restarting are Home Assistant's and external. An
  entry whose unload failed is not set up again before a restart.

## 4. Runs

`CHECK_DEADLOCK FALSE` appears where a behaviour may really end: the constants allow
finitely many commands, posts and faults, and then nothing is left to do. ReminderStore,
CalendarSync and EntryLifecycle never end and are checked for deadlock.

| Run | Instance | Shows |
| --- | --- | --- |
| `sync_safety` | 1 process, 3 commands of one list, ledger and queue 2, 2 epochs, one of each fault | StatesStayValid, AtMostOnce, QueuedEffectsRemembered, NoEditDisappears, EpochFence, NoSilentAdoption, UncertainNeverForgotten, refinement of DurableQueue (a lost queue included), types |
| `sync_two_bridges` | 2 processes, 3 commands, 2 lists of which one turns read-only, 2 epochs, late answer | EpochFence, ListOrder, JournalledBeforeEffect |
| `sync_liveness` | 1 process, 2 commands, 2 epochs, crash, failed helper, loss, read-only period | EveryEditSettles |
| `ha_safety` | 2 edits, a create and a change (both under way at the start, or none), 2 posts, 3 runtimes, a failed save, a restart, 2 allowlist changes, a snapshot that lacks a reminder | ConfirmedEditsDurable, OnlyStoredOffered, EditStaysVisible, PendingIsVisible, DroppedStaysDropped, types |
| `ha_live` | 2 edits, queue and response of 1, 2 runtimes, a failed save, a reload at rest or under a running task, an allowlist change | EveryTaskEnds |
| `local_writers` | 2 MCP servers, the bridge, Apple; 1 reminder, 2 lists, one of them allowed | OmittedFieldKept, OutOfScopeUntouched, LockReleased, types |
| `calendar_sync` | 2 calendars, 2 snapshots in the network, a Mac clock that is right or 10 minutes ahead, any number of faults | AvailableIsRecent, RevokedStaysHidden, ReadErrorHidesNothing, NoOlderReading, RemindersRecover, CalendarsRecover, types |
| `entry_lifecycle` | 3 entries, 3 tokens, 3 bridges | NoStaleWebhook, LoadedIsReachable, IdentitiesDistinct, SettledUsesCurrentToken, types |
| `race_stale_load`, `wedged_bridge`, `poison_command`, `reload_overlap` | small | the findings of section 7: each is expected to be violated |

Why the bounds are enough. Three commands against a ledger and a queue of two reach the
eviction with a full queue, which is where 1,000 meets 1,000; with two, nothing is ever
evicted. Two requests in the network are an old and a new one; a third adds no new order
relative to an accepted one. Fault budgets (`FaultBound`) are per kind and may be spent
in one behaviour in any order; one of each already combines crash, failed save and failed
helper around one command. A second process is enough to hold or to miss the lock. In
HARuntime two posts and two edits give every pair of transactions. A restart of an entry in
which nothing runs loses just what a reload at rest does, which is left to `ha_live`. The second
start, with edits the bridge holds but has not acknowledged and an entry that is not set up
yet, gives two setups around the changes of the allowlist, and is what lets a post from before they were applied arrive after the one that
acknowledges them. Reminders do not interact in ReminderStore, so one is enough.

In CalendarSync a tick is five minutes, and `StaleAfter`, `MaxAhead` and `RetryCap` are the
10, 5 and 15 minutes of the code. Faults are not counted; only the time in the network
(`MaxTransit`), the snapshots in it (`MaxRequests`) and the failures in a row are bounded,
the last where the delay has reached its cap. Two calendars are one that can be read and
one that cannot; a clock 10 minutes ahead is refused until it has been caught up, which a
clock within 5 would not be. `Recovery` is the smallest number of ticks for which the
recovery properties hold (TLC finds them violated with one less, and section 6 proves the
bound): a transit, the time a clock that was ahead takes to be caught up, and the longest delay. In EntryLifecycle two entries exchange two tokens; the third of
each is for a chain, A taking what B gave up for C.

Symmetry is used in safety runs only, for commands of one list, for calendars and
for entries, tokens and bridges; no definition chooses among them (`rank` orders commands in
every state).

## 5. Liveness and fairness

`EveryEditSettles` (an accepted command leaves the queue) rests on: weak fairness of each
process's own steps (`KeepAlive` in the launch agent's plist, and `Client.Run`, which never
stops retrying); weak fairness of Home Assistant's answers; strong fairness of the
operator's commands, because a bridge that restarts takes the lock again and again and they
are only enabled in between; weak fairness of a read-only list becoming writable. Faults
are not fair and are finite by their budgets: with a network that always fails nothing can
be promised. With weak fairness of `recover` the property is false (TLC finds the bridge
taking the lock in every round), and the stop of a bridge that refuses is fair because
docs/command-lifecycle.md asks for it.

`EveryTaskEnds` needs only that asyncio goes on running ready tasks and that a save ends.
`LockReleased` needs only that a run of the helper ends, which its timeout ensures.

`RemindersRecover` and `CalendarsRecover` say more than liveness and need no fairness: within
`Recovery` ticks without a disturbance everything is shown. Time cannot pass over what is
due (`Idle`): a round whose timer has run out, a snapshot at its bound in the network, a
reload that is scheduled. The count starts again with every fault, and runs only while the
entry is set up, the Mac's clock is acceptable and the calendars are on the allowlist.

## 6. Proofs

Proved with TLAPS, for any sets of commands, lists, processes, calendars, entries and tokens,
any bounds and any fault budgets, from the named ASSUMEs of the modules alone. Most say that
constants are of the right kind and that `Nobody`, `NoCmd` and the like are not elements of
the sets they stand beside. Two say more. `LedgerCoversQueue`: the ledger of the Mac is at
least as large as the queue of Home Assistant, which `maxAppliedCommands` (`state.go`) and
`MAX_COMMANDS` (`const.py`), both 1,000, satisfy exactly; with a smaller ledger TLC finds
QueuedEffectsRemembered violated. `RecoveryAssumption`: `Recovery` exceeds
`MaxTransit + (MaxAhead - skew) + RetryCap` for every skew the Mac's clock may keep.

| Theorem | Says | Rests on |
| --- | --- | --- |
| `CommandSyncTypes!TypeCorrect` | TypeOK | inductive with: finitely many commands are accepted (needed for `rank`), a running helper has a command |
| `CommandSyncJournal!JournalInvariant`, `StatesAlwaysValid`, `EffectsAreJournalled` | StatesStayValid, JournalledBeforeEffect | `Journal`: a process is in the locked part of its run exactly when it holds the lock; while its helper runs the file is its memory; every state is valid |
| `CommandSyncJournal!FenceInvariant`, `EpochsAreFenced`, `EpochIsNotReplaced` | EpochFence, NoSilentAdoption | `Fence`: the epoch follows a command from queue to response, walk and helper |
| `CommandSyncViews!ViewsInvariant`, `EditsDoNotDisappear` | NoEditDisappears | `Views`: what a ledger, a request or HA has settled is shown by EventKit, by that request's lists, or attested |
| `CommandSyncEffects!EditsTakeEffectInOrder` | ListOrder | `Ordered`: a response or a walk that has a command has what comes before it and has not happened |
| `CommandSyncEffects!EditsAppliedAtMostOnce`, `EffectsStayRemembered`, `UncertainOutcomesKept` | AtMostOnce, QueuedEffectsRemembered, UncertainNeverForgotten, while no process takes the lock with an outdated ledger (`[]LoadCurrent`) | `Once`: file and ledgers account for what happened to queued commands; and `Answers`, `Counted` |
| `CommandSyncEffects!QueueImplementsPromise` | the refinement of DurableQueue, under the same hypothesis | the same, one lemma per kind of step |
| `CommandSyncEffects!OneBridgeLedgerCurrent`, `OneBridgeAppliesOnce`, `OneBridgeKeepsPromise` | all four without the hypothesis, if there is one bridge process | `LoadCurrent` is inductive then |
| `HARuntimeProofs!TypeCorrect`, `PendingEditsVisible` | TypeOK, PendingIsVisible | `VisibleInv`: also for the copy a task rolls back to; a list without the reminder of an edit is the exception that the property states |
| `HARuntimeProofs!ConfirmedEditsAreDurable`, `OnlyStoredIsOffered`, `EditsStayVisible`, `DroppedEditsStayDropped` | the properties of `ha_safety`, if no reload overlaps a task (`NoOverlap`) | `ImageInv`: file, memory and roll-back copy each are a sound image of what was confirmed |
| `ReminderStoreProofs!TypeCorrect`, `ScopeRespected`, `OmissionKeeps` | TypeOK, OutOfScopeUntouched, OmittedFieldKept | `SInv`: whoever works has the lock; what a merging update has read is what the reminder holds, unless Apple changed it since |
| `ReminderStoreProofs!PagesJoin` | following next_offset covers an answer once | the definition of `Page` |
| `CalendarSyncProofs!TypeCorrect`, `ShownIsRecent`, `RevokedIsHidden`, `ReadErrorsHideNothing`, `NoOlderReadings` | TypeOK, AvailableIsRecent, RevokedStaysHidden, ReadErrorHidesNothing, NoOlderReading | `IInv`: a stamp and an age add up to the Mac's clock; a later stamp means a later reading unless the clock was set back; a snapshot has all calendars or none |
| `CalendarSyncProofs!RecoveryInvariant`, `RemindersDoRecover`, `CalendarsDoRecover` | RemindersRecover, CalendarsRecover | `RecoveryInv`: which round of a calm may still fail, and how long that lasts |
| `EntryLifecycleProofs!TypeCorrect`, `NoWebhookStaysOpen`, `WebhookReachesItsEntry`, `NoSharedIdentity`, `RotationTakesEffect` | TypeOK and the four properties of `entry_lifecycle` | `IInv`: registry and runtimes agree; the unique_id is that of the token; a runtime made since the last change has the stored token |

Few of the properties are inductive. JournalledBeforeEffect says nothing of a process that
is between two helpers, so `LockHeld` follows every process from AcquireLock to its end;
its step for MarkApplied needs that the ledger has no duplicates and that the oldest entry
is evicted exactly at the bound (`NewestValid`, `MarkAppliedValid`). NoEditDisappears is
about Home Assistant, while the reason lies on the Mac: an identifier is in a ledger only
after its effect was in EventKit, so every snapshot that acknowledges it also shows it;
snapshots still on their way, and the ones a dead process left behind, need the same, and
an older one can take the effect out of view again unless it is stale by then. `Views`
states this for ledgers in memory and on disk, and for every request, and its proof uses
`Types` and `Journal`. Each invariant has one lemma per group of actions.

ListOrder says that a command takes effect after those before it. `Ordered` looks back from
every command that a response or a walk contains: what comes before it in its list has
happened, or is in the same response or walk, or is what the helper runs for. It
holds because the runtime withholds the commands of a list all or none and the
bridge walks a response from its first. No hypothesis about processes is needed: a walk from
an outdated ledger repeats commands and keeps their order.

AtMostOnce needs four invariants more. `Answers`: a process waits for one answer at most, to
the ledger that it has in memory, so a late answer to an earlier post is never taken for
it. `Counted` is the counting argument behind the two bounds: a response brings at
most `QueueCap` commands, none of them in the ledger it answers and none that is queued
stays in that ledger, so `LedgerCap` places suffice for the walk and MarkApplied evicts only
identifiers that are no longer queued (`Room`, `MarkAppliedRoom`); the same for the one command
a crash leaves in flight. `Once` says that the file, and the ledger of every process that may
sync, account for each queued command that happened, and that what a process
is about to run has not happened. It is preserved by every step from a state with
`LoadCurrent`. That hypothesis is a condition on states, not on constants, and is
false in general: `race_stale_load` is a behaviour that breaks it with two processes. The
theorems so say that this race is the only way to apply an edit twice, to forget a queued
effect or to lose an uncertain outcome; and `OneBridgeLedgerCurrent` that it cannot happen to
one process. Between its load and its lock only the operator writes the file: recover then
resolves a command that the process has in flight in its memory and refuses to go on with, and
reset-queue-epoch leaves ledger and journal alone. `LoadCurrent` is about these two and claims no
more; the epoch in memory may be outdated.
`Counted` also shows that the loop's own look at the ledger (`SkipApplied`) is a second guard
that never fires, because a response excludes the ledger it answers (`NothingToSkip`).

The refinement maps every step. Queueing, the journal entry, the commit of a helper (heard of
or in a crash), the removal from the queue by a snapshot and the operator's two answers
are DurableQueue's actions of that meaning; a save that raises with the new file in place
counts as the save; everything else stutters. That the mapped guards hold is
what `Once` and `Views` are for: a commit is of a command that never took effect, a retired
command is in effect or attested.

RemindersRecover bounds a time, and no ranking argument is needed because `calm` measures it.
`CalmInv`: in a calm the clocks agree and the other snapshots are older than the calm, so that a
round fails only for a stamp that is not newer than the last. `LastInv`: that last stamp is
behind the Mac's clock, or comes closer with every tick. `RoundsInv`: either what is shown will
not be older than `Interval` when the timer runs out, or the timer runs out within `Delay`.

ConfirmedEditsDurable is about the file of Home Assistant, while an edit comes there from
the memory of a runtime that another task may have changed or rolled back. `ImageInv`
therefore says of three images (the file, the runtime, the copy a task rolls back to) that
each has what was confirmed and nothing that was dropped; `LockInv` and `ActiveInv`, that one
task at a time works on the newest runtime; `PostInv` and `OriginInv`, what a snapshot on its
way may show and acknowledge. `NoOverlap` is `FaultBound["overlap"] = 0`, the setting of
`ha_safety`; without it `ActiveInv` is false and so is the property (`reload_overlap`).

NoOlderReading compares readings, but the code compares stamps of a clock that may be set.
`OrderInv` says when the two agree: as long as a snapshot is not marked `stepped`, its stamp
is later than another's only if it was read later. SettledUsesCurrentToken is about loaded
entries; `CurrentInv` says the same from the moment the runtime is made, so that a token
changed in the middle of a setup is not missed.

Every invariant and action property of the passing runs, and the refinement, is a theorem.
Only model-checked: liveness (EveryEditSettles, EveryTaskEnds, LockReleased), which is out of
the prover's reach. The findings of section 7 are runs.

## 7. Findings

Each is a run that is expected to be violated; PROJECT.json quotes both sides.

- **race_stale_load** (`main.go:115`): serve and sync-once load the state before they take
  the lock. A process that waits in between works with an old ledger and can apply a
  command a second time and write the old state back. recover and reset-queue-epoch take
  the lock first.
- **wedged_bridge** (`client.go:144`): when the journal cannot be written the command stays
  in flight in memory only. serve then refuses every round, doctor has nothing to report,
  recover nothing to resolve; only a restart helps.
- **poison_command** (`client.go:271`): Home Assistant bounds text in characters, the bridge
  in bytes and lower. One command in between makes the bridge refuse every response.
- **reload_overlap** (`__init__.py:73`): a service call that waits in the old runtime during a
  reload saves and confirms an edit that the new runtime does not know and overwrites.

Observations without a run; but for the first and the last, no document promises otherwise.

- A change waits in the queue while its reminder is deleted or moved on the Mac. The next snapshot
  has no uid to apply it to, and `_apply_optimistic` (`runtime.py:340-350`) does nothing: the entity
  no longer shows the change, and the command stays queued and is offered.
  docs/command-lifecycle.md:12 says that a queued mutation is "reflected optimistically in the HA
  entity". EditStaysVisible and PendingIsVisible name this as their one exception.
- A calendar that is revoked and soon allowed again is shown from a snapshot that was read and
  posted before the revocation and arrives after it (`runtime.py:175-197` looks at the current
  allowlist and the stamp). RevokedStaysHidden therefore says "received" and not "read";
  AvailableIsRecent bounds the age.
- A poll while a save is awaited publishes an edit that may be rolled back; the next poll
  corrects it.
- serve keeps the lock from start to exit, so MCP calls fail for as long as the launch agent
  runs, although LockedStore takes the lock per operation. The probe of doctor takes it for
  a moment too, and doctor reports the command of a running round as uncertain.
- The queue is bounded by number, a response by 1 MiB (`runtime.py:230`). Beyond that every
  snapshot is rolled back, acknowledgements included, and the queue cannot shrink.
- One list or calendar outside Home Assistant's allowlist makes it refuse whole snapshots
  (`runtime.py:295`, `calendar_data.py:27`), reminders and acknowledgements included.
- `poll_interval` has no upper bound (`config.go:131`); above 10 minutes everything is hidden
  part of the time. Staleness counts from the arrival of a snapshot, not from its reading.
- Two entries that exchange tokens can collide for a moment: an entry set up with the token
  another has just given up, but not yet unregistered, fails to set up and has to be
  reloaded. An entry removed while its unload had failed leaves its webhook until Home
  Assistant restarts.
- Equal titles have no order (`sort.Slice`, `store.go:292`), so a reminder may be on two pages
  of two calls, or on none.
- `rollback-macos.sh:87-92` puts the old bridge in place before the helper. When the second move
  fails, what the script copies back is the bridge of the backup again: it stays beside the
  current helper, although the script reports that it restored the previous pair.

## 8. Plan

Done, in this order: BridgeState, Webhook, HomeAssistant, MacBridge, CommandSync with
DurableQueue; the proofs; HARuntime; ReminderStore with proofs; CalendarSync and
EntryLifecycle with proofs; the proofs of HARuntime; CommandSyncEffects (order, at most once,
the refinement) and the recovery of CalendarSync. Next:

1. That the transactions of HARuntime implement atomic ones. HomeAssistant as it stands is not
   that specification: it has no revocation, no reload and no save that raises with the new
   file in place, so a small one has to be stated first.
2. A restored backup of Home Assistant with an epoch that the Mac already accepts, and a
   helper that outlives an MCP server.
3. The installation and rollback scripts as sequences of file operations with failures.

Not modelled: the configuration file and the keychain (read once, no changing state; their
values are constants), diagnostics, packaging and release tooling, the conversions of
reminders, dates and events in Swift and Python (Foundation's and Home Assistant's
behaviour, not this code's), and the bounds and formats of single fields.
