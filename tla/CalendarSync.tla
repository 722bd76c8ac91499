------------------------------ MODULE CalendarSync ------------------------------
(***************************************************************************)
(* The freshness of what Home Assistant shows.  The bridge reads reminders *)
(* and calendars, stamps what it read with the Mac's clock and posts it    *)
(* (hasync/client.go: Run, retryDelay, postSnapshot); Home Assistant       *)
(* refuses stamps that are not newer, keeps the last calendars when a      *)
(* snapshot has none, and shows what is not stale (runtime.py, calendar.py,*)
(* todo.py).                                                               *)
(*                                                                         *)
(* Time passes in ticks.  Instants are kept relative to the clock of       *)
(* Home Assistant, as ages, so that a behaviour may go on forever in       *)
(* finitely many states; an age stops at the first value beyond which      *)
(* nothing depends on it.  What takes less than a tick (a request that is  *)
(* answered, the timeout of 20 s, a round, the polling of entities) takes  *)
(* none.                                                                   *)
(***************************************************************************)
EXTENDS Integers, FiniteSets

CONSTANTS
    Calendar,     \* the calendars the bridge is configured with
    Omitted,      \* a snapshot without calendars, an allowlist without the key
    Interval,     \* poll_interval
    RetryCap,     \* maxRetryBackoff
    StaleAfter,   \* SNAPSHOT_STALE_AFTER_SECONDS
    MaxAhead,     \* how far in the future a stamp may be (runtime.py:280)
    Skews,        \* how far the Mac's clock may be ahead of Home Assistant's
    MaxTransit,   \* bound on the time a snapshot spends in the network
    MaxRequests,  \* bound on the snapshots in the network
    MaxFailures,  \* bound on the failures in a row that are counted
    Recovery      \* how long an undisturbed system may take to show everything

ASSUME OmittedAssumption == \A calendars \in SUBSET Calendar : Omitted # calendars
ASSUME TimesAssumption ==
    /\ Interval \in Nat \ {0} /\ RetryCap \in Nat /\ Interval <= RetryCap
    /\ StaleAfter \in Nat /\ MaxAhead \in Nat
    /\ MaxTransit \in Nat /\ Recovery \in Nat
\* config.go:131 bounds poll_interval from below only; a bridge that polls less
\* often than snapshots become stale is out of what is claimed here.
ASSUME IntervalAssumption == Interval <= StaleAfter
ASSUME SkewsAssumption == Skews \subseteq Int /\ \E s \in Skews : \A t \in Skews : s <= t
ASSUME BoundsAssumption == MaxRequests \in Nat \ {0} /\ MaxFailures \in Nat \ {0}
\* Time to recover: the last late snapshot arrives, its stamp is caught up by the
\* Mac's clock, and the bridge ends the wait of its last failure.
ASSUME RecoveryAssumption ==
    /\ Recovery > 0
    /\ \A s \in Skews : s <= MaxAhead => Recovery > MaxTransit + (MaxAhead - s) + RetryCap

VARIABLES
    skew,       \* the Mac's clock minus Home Assistant's
    pc,         \* where the bridge is in a round
    failures,   \* Run's count of failed rounds
    wait,       \* what is left of its timer
    requests,   \* the snapshots in the network
    allowed,    \* entry.data: the calendar allowlist
    up,         \* the entry is set up
    reload,     \* a reload is scheduled
    cache,      \* what the runtime keeps
    filed,      \* the calendars in its file
    calm,       \* history: since when nothing has disturbed reminders, calendars
    withdrawn   \* history: calendars off the allowlist at a setup, not received since

bridge == <<pc, failures, wait>>
ha == <<allowed, up, reload, cache, filed, withdrawn>>
vars == <<skew, bridge, requests, ha, calm>>

OldestReading == StaleAfter + MaxTransit + 1
OldestStamp == (CHOOSE s \in Skews : \A t \in Skews : s <= t) - MaxTransit - 1

AtMost(n, bound) == IF n < bound THEN n ELSE bound

Request == [calendars : {Omitted} \cup SUBSET Calendar,
            sentAt    : Int,      \* relative to Home Assistant's clock
            age       : Nat,      \* since it was read and posted
            awaited   : BOOLEAN,  \* the bridge still waits for the answer
            stepped   : BOOLEAN]  \* the Mac's clock was set back since

(***************************************************************************)
(* The bridge.                                                             *)
(***************************************************************************)

\* The delay after n failures, before the jitter.
Backoff[n \in 0 .. MaxFailures] ==
    IF n = 0 THEN Interval
    ELSE LET d == Backoff[n - 1] IN IF 2 * d >= RetryCap THEN RetryCap ELSE 2 * d

\* A faulty variant of RetryDelays: jitter may exceed the cap.
RetryDelaysUncapped(n) ==
    IF n = 0 THEN {Interval} ELSE (9 * Backoff[n]) \div 10 .. (11 * Backoff[n] + 9) \div 10

\* retryDelay: the delays that a jitter of 10% can make of it, to the tick.
RetryDelays(n) ==
    IF n = 0 THEN {Interval}
    ELSE {AtMost(IF d < Interval THEN Interval ELSE d, RetryCap) :
              d \in (9 * Backoff[n]) \div 10 .. (11 * Backoff[n] + 9) \div 10}

EndRound(n) ==
    /\ failures' = n
    /\ wait' \in RetryDelays(n)
    /\ pc' = "timer"

\* A faulty variant of RoundSucceeds: the count is not reset.
RoundSucceedsAsBefore == EndRound(failures)

RoundSucceeds == EndRound(0)
RoundFails == EndRound(AtMost(failures + 1, MaxFailures))

Disturbed == calm' = [reminders |-> 0, calendars |-> 0]

\* A faulty variant of Published: what was read before the error is posted.
PublishedSoFar(readable) == readable

\* Calendars are posted when there are any and every one of them could be read.
Published(readable) ==
    IF readable = Calendar /\ readable # {} THEN readable ELSE Omitted

\* The reminders cannot be read: the round ends without a post.
ReadFails ==
    /\ pc = "timer" /\ wait = 0
    /\ RoundFails
    /\ Disturbed
    /\ UNCHANGED <<skew, requests, ha>>

\* CalendarEvents: the sets of calendars that can be read at the same time.  A
\* calendar cannot when EventKit fails or answers with another calendar, another
\* name, or events that are not valid.
ReadableSets == SUBSET Calendar

PostSnapshot(readable) ==
    /\ Cardinality(requests) < MaxRequests
    /\ requests' = requests \cup
          {[calendars |-> Published(readable), sentAt |-> skew,
            age |-> 0, awaited |-> TRUE, stepped |-> FALSE]}
    /\ pc' = "posted"
    /\ UNCHANGED <<failures, wait>>

\* A faulty variant of StartRound: an unreadable calendar ends the round.
StartRoundWithAll ==
    /\ pc = "timer" /\ wait = 0
    /\ \E readable \in ReadableSets :
          /\ calm' = [calm EXCEPT !.calendars = IF readable = Calendar THEN @ ELSE 0]
          /\ IF readable = Calendar
             THEN PostSnapshot(readable)
             ELSE RoundFails /\ UNCHANGED requests
    /\ UNCHANGED <<skew, ha>>

\* The reminders are read, the calendars as far as they are readable, and posted.
StartRound ==
    /\ pc = "timer" /\ wait = 0
    /\ \E readable \in ReadableSets :
          /\ PostSnapshot(readable)
          /\ calm' = [calm EXCEPT !.calendars = IF readable = Calendar THEN @ ELSE 0]
    /\ UNCHANGED <<skew, ha>>

GiveUp == requests' = {[r EXCEPT !.awaited = FALSE] : r \in requests}

\* No answer within 20 s; the snapshot may still arrive.
Timeout ==
    /\ pc = "posted"
    /\ GiveUp
    /\ RoundFails
    /\ Disturbed
    /\ UNCHANGED <<skew, ha>>

\* The bridge is ended and started again.
Restart ==
    /\ GiveUp
    /\ pc' = "timer" /\ failures' = 0 /\ wait' = 0
    /\ Disturbed
    /\ UNCHANGED <<skew, ha>>

\* The Mac's clock is set.
SetClock(s) ==
    /\ s # skew
    /\ skew' = s
    /\ requests' = {[r EXCEPT !.stepped = @ \/ s < skew] : r \in requests}
    /\ Disturbed
    /\ UNCHANGED <<bridge, ha>>

(***************************************************************************)
(* Home Assistant.                                                         *)
(***************************************************************************)

\* The calendars it accepts; an entry from before the key accepts none.
Allowed == IF allowed = Omitted THEN {} ELSE allowed

\* A faulty variant of Stale: the order of the stamps is not checked.
StaleNever(r) == FALSE

\* The stamp is not newer than the last; within a tick the order is open.
Stale(r) == r.sentAt < cache.lastSentAt
MaybeStale(r) == r.sentAt <= cache.lastSentAt

InScope(r) == r.calendars # Omitted => r.calendars \subseteq Allowed

TooFarAhead(r) == r.sentAt > MaxAhead

\* A faulty variant of Stored: calendars count as fresh without being there.
StoredAsFresh(r) ==
    [calendars |-> IF r.calendars = Omitted THEN cache.calendars ELSE r.calendars,
     read      |-> IF r.calendars = Omitted THEN cache.read ELSE r.age,
     calendarSync |-> 0, sync |-> 0, lastSentAt |-> r.sentAt]

\* The cache once r is accepted: without calendars the last ones stay.
Stored(r) ==
    IF r.calendars = Omitted
    THEN [cache EXCEPT !.sync = 0, !.lastSentAt = r.sentAt]
    ELSE [calendars |-> r.calendars, read |-> r.age, calendarSync |-> 0,
          sync |-> 0, lastSentAt |-> r.sentAt]

\* The answer to an awaited request arrives: success when the bridge finds the
\* capability it needs in it.
Answered(r, success) ==
    IF r.awaited /\ pc = "posted"
    THEN IF success THEN RoundSucceeds ELSE RoundFails
    ELSE UNCHANGED bridge

Take(r) == requests' = requests \ {r}

\* The bridge wants calendars to be supported, even where it posted none.
Supported == Calendar = {} \/ allowed # Omitted

\* The snapshot is stored.  Only its stamp and the present allowlist count: it
\* may have been read before a revocation that is over.
Accept(r) ==
    /\ up
    /\ InScope(r) /\ ~ TooFarAhead(r) /\ ~ Stale(r)
    /\ Take(r)
    /\ cache' = Stored(r)
    /\ filed' = cache'.calendars
    /\ withdrawn' = IF r.calendars = Omitted THEN withdrawn ELSE withdrawn \ r.calendars
    /\ UNCHANGED <<skew, allowed, up, reload>>

\* A snapshot is accepted and the bridge learns of it, or not.
AcceptAndAnswer(r) ==
    Accept(r) /\ Answered(r, Supported) /\ UNCHANGED calm
AcceptInSilence(r) ==
    Accept(r) /\ r.awaited /\ Disturbed /\ UNCHANGED bridge

\* A snapshot is refused, or Home Assistant does not run.
Refuse(r) ==
    /\ ~ up \/ ~ InScope(r) \/ TooFarAhead(r) \/ MaybeStale(r)
    /\ Take(r)
    /\ Answered(r, FALSE)
    /\ UNCHANGED <<skew, ha, calm>>

\* The save fails and the transaction is rolled back.
SaveFails(r) ==
    /\ up
    /\ InScope(r) /\ ~ TooFarAhead(r) /\ ~ Stale(r)
    /\ Take(r)
    /\ Answered(r, FALSE)
    /\ Disturbed
    /\ UNCHANGED <<skew, ha>>

Lose(r) == Take(r) /\ Disturbed /\ UNCHANGED <<skew, bridge, ha>>

\* The user changes the allowlist: stored at once, the reload is scheduled.
Reconfigure(calendars) ==
    /\ allowed' = calendars
    /\ reload' = up
    /\ Disturbed
    /\ UNCHANGED <<skew, bridge, requests, up, cache, filed, withdrawn>>

\* Home Assistant stops, or reloads the entry.
Unload ==
    /\ up
    /\ up' = FALSE /\ reload' = FALSE
    /\ Disturbed
    /\ UNCHANGED <<skew, bridge, requests, allowed, cache, filed, withdrawn>>

\* A faulty variant of Load: what was revoked stays in the file.
LoadWithoutSaving ==
    /\ ~ up
    /\ up' = TRUE
    /\ cache' = [cache EXCEPT !.calendars = filed \cap Allowed]
    /\ withdrawn' = withdrawn \cup (Calendar \ Allowed)
    /\ UNCHANGED <<skew, bridge, requests, allowed, reload, filed, calm>>

\* async_load: what is no longer allowed is dropped, in the file too.
Load ==
    /\ ~ up
    /\ up' = TRUE
    /\ cache' = [cache EXCEPT !.calendars = filed \cap Allowed]
    /\ filed' = cache'.calendars
    /\ withdrawn' = withdrawn \cup (Calendar \ Allowed)
    /\ UNCHANGED <<skew, bridge, requests, allowed, reload, calm>>

(***************************************************************************)
(* Time.                                                                   *)
(***************************************************************************)

\* Nothing that takes less than a tick is pending.
Idle ==
    /\ pc = "timer" /\ wait > 0
    /\ ~ reload
    /\ \A r \in requests : r.age < MaxTransit

\* Snapshots can be accepted as far as clocks and allowlist are concerned.
Agreeing == up /\ skew <= MaxAhead /\ Calendar \subseteq Allowed

Longer(n) == IF Agreeing THEN AtMost(n + 1, Recovery) ELSE 0

Tick ==
    /\ Idle
    /\ wait' = wait - 1
    /\ requests' = {[r EXCEPT !.sentAt = @ - 1, !.age = @ + 1] : r \in requests}
    /\ cache' = [cache EXCEPT
          !.read = AtMost(@ + 1, OldestReading),
          !.calendarSync = AtMost(@ + 1, StaleAfter + 1),
          !.sync = AtMost(@ + 1, StaleAfter + 1),
          !.lastSentAt = IF @ > OldestStamp THEN @ - 1 ELSE @]
    /\ calm' = [reminders |-> Longer(calm.reminders), calendars |-> Longer(calm.calendars)]
    /\ UNCHANGED <<skew, pc, failures, allowed, up, reload, filed, withdrawn>>

(***************************************************************************)
(* The specification.                                                      *)
(***************************************************************************)

Init ==
    /\ skew \in Skews
    /\ pc = "timer" /\ failures = 0 /\ wait = 0
    /\ requests = {}
    /\ allowed \in {Omitted} \cup SUBSET Calendar
    /\ up = TRUE /\ reload = FALSE
    /\ cache = [calendars |-> {}, read |-> OldestReading, calendarSync |-> StaleAfter + 1,
                sync |-> StaleAfter + 1, lastSentAt |-> OldestStamp]
    /\ filed = {}
    /\ calm = [reminders |-> 0, calendars |-> 0]
    /\ withdrawn = {}

Next ==
    \/ ReadFails \/ StartRound \/ Timeout \/ Restart
    \/ \E s \in Skews : SetClock(s)
    \/ \E r \in requests :
          \/ AcceptAndAnswer(r) \/ AcceptInSilence(r)
          \/ Refuse(r) \/ SaveFails(r) \/ Lose(r)
    \/ \E calendars \in SUBSET Calendar : Reconfigure(calendars)
    \/ Unload \/ Load
    \/ Tick

Spec == Init /\ [][Next]_vars

(***************************************************************************)
(* What the entities show (calendar.py:49, todo.py:92).  They are polled   *)
(* within a tick, so the delay of the poll is left out.                    *)
(***************************************************************************)

TodoShown == up /\ cache.sync <= StaleAfter

CalendarsShown ==
    IF up /\ cache.calendarSync <= StaleAfter THEN cache.calendars ELSE {}

(***************************************************************************)
(* Properties.                                                             *)
(***************************************************************************)

\* Every variable has its type.
TypeOK ==
    /\ skew \in Skews
    /\ pc \in {"timer", "posted"}
    /\ failures \in 0 .. MaxFailures
    /\ wait \in 0 .. RetryCap
    /\ requests \subseteq Request
    /\ \A r \in requests : OldestStamp < r.sentAt /\ r.age <= MaxTransit
    /\ allowed \in {Omitted} \cup SUBSET Calendar
    /\ up \in BOOLEAN /\ reload \in BOOLEAN
    /\ cache \in [calendars : SUBSET Calendar, read : 0 .. OldestReading,
                  calendarSync : 0 .. StaleAfter + 1, sync : 0 .. StaleAfter + 1,
                  lastSentAt : Int]
    /\ filed \subseteq Calendar
    /\ calm \in [reminders : 0 .. Recovery, calendars : 0 .. Recovery]
    /\ withdrawn \subseteq Calendar

\* A calendar that is shown was read not longer ago than snapshots stay fresh
\* and may be on their way, whatever failed since: the age is taken from
\* the calendars' own snapshot, not from the last one (runtime.py:195).
AvailableIsRecent ==
    CalendarsShown # {} => cache.read <= StaleAfter + MaxTransit

\* What is revoked is hidden once the entry is set up again, whatever arrives
\* late, and allowing it again does not bring back what was cached or filed
\* (runtime.py:83-125): it is shown once a snapshot with it has been accepted
\* since.  That snapshot may have been read before the revocation and have been
\* on its way all the time; AvailableIsRecent bounds its age.
RevokedStaysHidden ==
    ~ reload => CalendarsShown \cap withdrawn = {} /\ CalendarsShown \subseteq Allowed

\* A calendar leaves the screen because it is stale or revoked, or with the whole
\* entry; a snapshot of a round in which some calendar could not be read
\* never takes the others away (client.go:189, runtime.py:173).
ReadErrorHidesNothing ==
    [][\A c \in CalendarsShown :
          \/ c \in CalendarsShown'
          \/ ~ up' \/ cache'.calendarSync > StaleAfter \/ c \notin Allowed]_vars

\* A snapshot that arrives late never replaces calendars that were read after it,
\* unless the Mac's clock was set back while it was on its way (runtime.py:188).
\* Stamps of one tick have no order here and are left aside.
NoOlderReading ==
    [][\A r \in requests :
          Accept(r) /\ ~ r.stepped /\ r.sentAt # cache.lastSentAt
          => cache'.read <= cache.read]_vars

\* Once nothing is disturbed for long enough, the reminders are shown, whether
\* calendars can be read or not: delays after failures are bounded and end with
\* the first success, and a clock that was ahead is caught up (client.go:89).
RemindersRecover == calm.reminders = Recovery => TodoShown

\* And so are all calendars, once they can be read again.
CalendarsRecover == calm.calendars = Recovery => CalendarsShown = Calendar
================================================================================
