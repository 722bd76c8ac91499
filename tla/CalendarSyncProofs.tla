--------------------------- MODULE CalendarSyncProofs ---------------------------
(***************************************************************************)
(* Theorems about CalendarSync, for any calendars, clocks and delays: what *)
(* is shown is recent (ReadInv) and allowed (ScopeInv), a round in which   *)
(* something could not be read takes nothing away (WholeInv), late         *)
(* snapshots do not replace newer ones (OrderInv), and everything is shown *)
(* again within Recovery ticks of the last disturbance (RecoveryInv).      *)
(***************************************************************************)
EXTENDS CalendarSync, TLAPS

\* The earliest of the skews.
Earliest == CHOOSE s \in Skews : \A t \in Skews : s <= t

\* There is one.
LEMMA EarliestType ==
    /\ Earliest \in Int /\ \A t \in Skews : t \in Int /\ Earliest <= t
    /\ OldestStamp \in Int /\ OldestStamp = Earliest - MaxTransit - 1
<1>1. Earliest \in Skews /\ \A t \in Skews : Earliest <= t
    BY SkewsAssumption DEF Earliest
<1>2. OldestStamp = Earliest - MaxTransit - 1
    BY DEF Earliest, OldestStamp
<1> QED BY <1>1, <1>2, SkewsAssumption, TimesAssumption

\* The types of what the other invariants are about.
CacheType ==
    cache \in [calendars : SUBSET Calendar, read : 0 .. OldestReading,
               calendarSync : 0 .. StaleAfter + 1, sync : 0 .. StaleAfter + 1,
               lastSentAt : Int]

RequestsType == skew \in Skews /\ requests \subseteq Request

\* A snapshot's stamp and age add up to a reading of the Mac's clock.
StampInv == \A r \in requests : r.age <= MaxTransit /\ r.sentAt + r.age \in Skews

\* The calendars were not read longer before they arrived than MaxTransit.
ReadInv == cache.read <= cache.calendarSync + MaxTransit

\* The file has what the cache has, and neither has what was withdrawn; what is in
\* them is allowed unless the entry is to be set up again.
ScopeInv ==
    /\ filed = cache.calendars
    /\ cache.calendars \cap withdrawn = {}
    /\ up /\ ~ reload => cache.calendars \subseteq Allowed

\* A snapshot has all calendars or none.
WholeInv == \A r \in requests : r.calendars \in {Omitted, Calendar}

\* As long as the Mac's clock is not set back, a snapshot with a later stamp
\* than another, or than the last accepted one, was read later.
OrderInv ==
    \A r \in requests : ~ r.stepped =>
        /\ r.sentAt + r.age <= skew
        /\ \A q \in requests : q.sentAt < r.sentAt => r.age <= q.age
        /\ cache.lastSentAt < r.sentAt => r.age <= cache.read

\* The inductive invariant.
IInv == RequestsType /\ CacheType /\ StampInv /\ ReadInv /\ WholeInv /\ OrderInv

\* What a step does to the snapshots in the network and to the cache, whatever
\* else it does: one is posted, some are given up, the clock is set, one
\* is taken, and accepted or not, time passes, or the calendars are restricted.
Posts ==
    /\ \E calendars \in {Omitted, Calendar} : requests' = requests \cup
          {[calendars |-> calendars, sentAt |-> skew, age |-> 0,
            awaited |-> TRUE, stepped |-> FALSE]}
    /\ UNCHANGED <<skew, cache, up>>

GivesUp == GiveUp /\ UNCHANGED <<skew, cache, up>>

Takes ==
    /\ UNCHANGED <<skew, cache>> /\ requests' \subseteq requests
    /\ UNCHANGED up \/ ~ up'

Restricts ==
    /\ cache' = [cache EXCEPT !.calendars = filed \cap Allowed]
    /\ ~ up
    /\ UNCHANGED <<skew, requests>>

\* The initial states satisfy the invariant.
LEMMA InitInv == Init => IInv
<1> SUFFICES ASSUME Init PROVE IInv
    OBVIOUS
<1>1. CacheType
    BY EarliestType, TimesAssumption DEF Init, CacheType, OldestReading
<1>2. ReadInv
    BY TimesAssumption DEF Init, ReadInv, OldestReading
<1> QED BY <1>1, <1>2 DEF Init, IInv, RequestsType, StampInv, WholeInv, OrderInv

\* A snapshot is posted, and has the latest stamp unless the clock was set back.
LEMMA PostsInv == ASSUME IInv, Posts PROVE IInv'
<1> PICK calendars \in {Omitted, Calendar} : requests' = requests \cup
          {[calendars |-> calendars, sentAt |-> skew, age |-> 0,
            awaited |-> TRUE, stepped |-> FALSE]}
    BY DEF Posts
<1> DEFINE new == [calendars |-> calendars, sentAt |-> skew, age |-> 0,
                   awaited |-> TRUE, stepped |-> FALSE]
<1>1. /\ skew \in Int /\ skew \in Skews /\ UNCHANGED <<skew, cache>>
      /\ requests' = requests \cup {new}
    BY SkewsAssumption DEF Posts, IInv, RequestsType
<1>2. new \in Request
    BY <1>1 DEF Request
<1>3. RequestsType' /\ CacheType' /\ ReadInv' /\ WholeInv'
    <2>1. RequestsType'
        BY <1>1, <1>2 DEF IInv, RequestsType
    <2>2. CacheType' /\ ReadInv'
        BY <1>1 DEF IInv, CacheType, ReadInv
    <2>3. new.calendars \in {Omitted, Calendar}
        OBVIOUS
    <2> HIDE DEF new
    <2>4. WholeInv'
        BY <1>1, <2>3 DEF IInv, WholeInv
    <2> QED BY <2>1, <2>2, <2>4
<1>4. StampInv'
    BY <1>1, TimesAssumption DEF IInv, StampInv
<1>5. OrderInv'
    <2>1. \A r \in requests : r.sentAt \in Int /\ r.age \in Nat
        BY DEF IInv, RequestsType, Request
    <2>2. cache.read >= 0 /\ cache.lastSentAt \in Int
        BY TimesAssumption DEF IInv, CacheType, OldestReading
    <2>3. new.sentAt = skew /\ new.age = 0
        OBVIOUS
    <2> HIDE DEF new
    <2> QED BY <1>1, <2>1, <2>2, <2>3 DEF IInv, OrderInv
<1> QED BY <1>3, <1>4, <1>5 DEF IInv

\* The snapshots that are in the network were there before, perhaps with another
\* mark, and the Mac's clock was not set back for those that are not marked.
LEMMA SameSnapshotsInv ==
    ASSUME IInv, UNCHANGED cache, skew' \in Skews, requests' \subseteq Request,
           \A t \in requests' : \E r \in requests :
               /\ t.calendars = r.calendars /\ t.sentAt = r.sentAt /\ t.age = r.age
               /\ ~ t.stepped => ~ r.stepped /\ skew <= skew'
    PROVE  IInv'
<1>1. RequestsType' /\ CacheType' /\ ReadInv'
    BY DEF IInv, RequestsType, CacheType, ReadInv
<1>2. WholeInv' /\ StampInv'
    BY DEF IInv, WholeInv, StampInv
<1>3. OrderInv'
    <2> SUFFICES ASSUME NEW t \in requests', ~ t.stepped
                 PROVE  /\ t.sentAt + t.age <= skew'
                        /\ \A q \in requests' : q.sentAt < t.sentAt => t.age <= q.age
                        /\ cache'.lastSentAt < t.sentAt => t.age <= cache'.read
        BY DEF OrderInv
    <2> PICK r \in requests :
            /\ t.calendars = r.calendars /\ t.sentAt = r.sentAt /\ t.age = r.age
            /\ ~ r.stepped /\ skew <= skew'
        OBVIOUS
    <2>1. r.sentAt \in Int /\ r.age \in Nat /\ skew \in Int /\ skew' \in Int
        BY SkewsAssumption DEF IInv, RequestsType, Request
    <2>2. r.sentAt + r.age <= skew
        BY DEF IInv, OrderInv
    <2>3. t.sentAt + t.age <= skew'
        BY <2>1, <2>2
    <2>4. \A q \in requests : q.sentAt < r.sentAt => r.age <= q.age
        BY DEF IInv, OrderInv
    <2>5. cache'.lastSentAt < t.sentAt => t.age <= cache'.read
        BY DEF IInv, OrderInv
    <2> QED BY <2>3, <2>4, <2>5
<1> QED BY <1>1, <1>2, <1>3 DEF IInv

\* The bridge does not wait any longer; nothing else changes about a snapshot.
LEMMA GivesUpInv == ASSUME IInv, GivesUp PROVE IInv'
<1>1. UNCHANGED <<skew, cache>> /\ requests' = {[r EXCEPT !.awaited = FALSE] : r \in requests}
    BY DEF GivesUp, GiveUp
<1>2. ASSUME NEW r \in requests, NEW t, t = [r EXCEPT !.awaited = FALSE]
      PROVE  /\ t \in Request /\ t.calendars = r.calendars /\ t.sentAt = r.sentAt
             /\ t.age = r.age /\ t.stepped = r.stepped
    BY <1>2 DEF IInv, RequestsType, Request
<1>3. skew \in Int
    BY SkewsAssumption DEF IInv, RequestsType
<1>4. \A t \in requests' : t \in Request /\ \E r \in requests :
          /\ t.calendars = r.calendars /\ t.sentAt = r.sentAt /\ t.age = r.age
          /\ ~ t.stepped => ~ r.stepped /\ skew <= skew'
    BY <1>1, <1>2, <1>3
<1> QED BY <1>1, <1>4, SameSnapshotsInv DEF IInv, RequestsType

\* The Mac's clock is set; snapshots under way are marked if it is set back.
LEMMA SetClockInv == ASSUME IInv, NEW s \in Skews, SetClock(s) PROVE IInv'
<1>1. /\ skew' = s /\ UNCHANGED cache /\ s \in Int /\ skew \in Int
      /\ requests' = {[r EXCEPT !.stepped = @ \/ s < skew] : r \in requests}
    BY SkewsAssumption DEF SetClock, ha, IInv, RequestsType
<1>2. ASSUME NEW r \in requests, NEW t, t = [r EXCEPT !.stepped = @ \/ s < skew]
      PROVE  /\ t \in Request /\ t.calendars = r.calendars /\ t.sentAt = r.sentAt
             /\ t.age = r.age /\ (~ t.stepped => ~ r.stepped /\ ~ (s < skew))
    BY <1>1, <1>2 DEF IInv, RequestsType, Request
<1>3. \A t \in requests' : t \in Request /\ \E r \in requests :
          /\ t.calendars = r.calendars /\ t.sentAt = r.sentAt /\ t.age = r.age
          /\ ~ t.stepped => ~ r.stepped /\ skew <= skew'
    BY <1>1, <1>2
<1> QED BY <1>1, <1>3, SameSnapshotsInv DEF IInv, RequestsType

\* A snapshot leaves the network without changing the cache.
LEMMA TakesInv == ASSUME IInv, Takes PROVE IInv'
BY DEF Takes, IInv, RequestsType, CacheType, ReadInv, WholeInv, StampInv, OrderInv

\* A snapshot is accepted.
LEMMA AcceptInv == ASSUME IInv, NEW r \in requests, Accept(r) PROVE IInv'
<1>1. UNCHANGED skew /\ requests' = requests \ {r} /\ cache' = Stored(r)
    BY DEF Accept, Take
<1>2. r \in Request /\ r.sentAt \in Int /\ r.age \in Nat /\ r.age <= MaxTransit
    BY DEF IInv, RequestsType, StampInv, Request
<1>3. r.sentAt >= cache.lastSentAt
    BY <1>2 DEF Accept, Stale, IInv, CacheType
<1>4. MaxTransit \in Nat /\ StaleAfter \in Nat /\ OldestReading = StaleAfter + MaxTransit + 1
    BY TimesAssumption DEF OldestReading
<1>5. CacheType' /\ ReadInv'
    <2>1. CASE r.calendars = Omitted
        <3>1. cache' = [cache EXCEPT !.sync = 0, !.lastSentAt = r.sentAt]
            BY <2>1, <1>1 DEF Stored
        <3>2. cache' = [calendars |-> cache.calendars, read |-> cache.read, sync |-> 0,
                        calendarSync |-> cache.calendarSync, lastSentAt |-> r.sentAt]
            BY <3>1 DEF IInv, CacheType
        <3>4. CacheType'
            BY <3>2, <1>2, <1>4 DEF IInv, CacheType
        <3>3. cache'.read = cache.read /\ cache'.calendarSync = cache.calendarSync
            BY <3>1 DEF IInv, CacheType
        <3> QED BY <3>4, <3>3 DEF IInv, ReadInv
    <2>2. CASE r.calendars # Omitted
        <3>1. r.calendars \in SUBSET Calendar
            BY <1>2, <2>2 DEF Request
        <3> QED BY <2>2, <3>1, <1>1, <1>2, <1>4 DEF Stored, IInv, CacheType, ReadInv
    <2> QED BY <2>1, <2>2
<1>6. RequestsType' /\ StampInv' /\ WholeInv'
    BY <1>1 DEF IInv, RequestsType, StampInv, WholeInv
<1>7. OrderInv'
    <2>1. \A q \in requests : q.sentAt \in Int /\ q.age \in Nat
        BY DEF IInv, RequestsType, Request
    <2>2. cache.lastSentAt \in Int /\ cache'.lastSentAt = r.sentAt
        BY <1>1 DEF Stored, IInv, CacheType
    <2>3. cache'.read = cache.read \/ cache'.read = r.age
        BY <1>1 DEF Stored, IInv, CacheType
    <2> QED BY <1>1, <1>2, <1>3, <2>1, <2>2, <2>3 DEF IInv, OrderInv
<1> QED BY <1>5, <1>6, <1>7 DEF IInv

\* A tick: everything in the network and in the cache gets older by one.
LEMMA TickInv == ASSUME IInv, Tick PROVE IInv'
<1>1. /\ UNCHANGED skew
      /\ requests' = {[r EXCEPT !.sentAt = @ - 1, !.age = @ + 1] : r \in requests}
    BY DEF Tick
<1>2. \A r \in requests :
          r.sentAt \in Int /\ r.age \in Nat /\ r \in Request /\ r.age < MaxTransit
    BY DEF Tick, Idle, IInv, RequestsType, Request
<1>3. ASSUME NEW r \in requests, NEW t, t = [r EXCEPT !.sentAt = @ - 1, !.age = @ + 1]
      PROVE  /\ t \in Request /\ t.calendars = r.calendars /\ t.sentAt = r.sentAt - 1
             /\ t.age = r.age + 1 /\ t.stepped = r.stepped
    <2>1. r.sentAt - 1 \in Int /\ r.age + 1 \in Nat
        BY <1>2
    <2>2. t = [calendars |-> r.calendars, sentAt |-> r.sentAt - 1, age |-> r.age + 1,
               awaited |-> r.awaited, stepped |-> r.stepped]
        BY <1>2, <1>3 DEF Request
    <2> QED BY <1>2, <2>1, <2>2 DEF Request
<1>4. \A t \in requests' : t \in Request /\ \E r \in requests :
          /\ t.calendars = r.calendars /\ t.sentAt = r.sentAt - 1
          /\ t.age = r.age + 1 /\ t.stepped = r.stepped
    <2> SUFFICES ASSUME NEW t \in requests'
                 PROVE  t \in Request /\ \E r \in requests :
                            /\ t.calendars = r.calendars /\ t.sentAt = r.sentAt - 1
                            /\ t.age = r.age + 1 /\ t.stepped = r.stepped
        OBVIOUS
    <2>1. PICK r \in requests : t = [r EXCEPT !.sentAt = @ - 1, !.age = @ + 1]
        BY <1>1
    <2> QED BY <2>1, <1>3
<1>5. MaxTransit \in Nat /\ StaleAfter \in Nat /\ OldestReading = StaleAfter + MaxTransit + 1
    BY TimesAssumption DEF OldestReading
<1>6. /\ cache.read \in 0 .. OldestReading /\ cache.calendarSync \in 0 .. StaleAfter + 1
      /\ cache.sync \in 0 .. StaleAfter + 1 /\ cache.lastSentAt \in Int
      /\ cache.calendars \in SUBSET Calendar
    BY DEF IInv, CacheType
<1>7. cache' = [calendars |-> cache.calendars,
                read |-> AtMost(cache.read + 1, OldestReading),
                calendarSync |-> AtMost(cache.calendarSync + 1, StaleAfter + 1),
                sync |-> AtMost(cache.sync + 1, StaleAfter + 1),
                lastSentAt |-> IF cache.lastSentAt > OldestStamp
                               THEN cache.lastSentAt - 1 ELSE cache.lastSentAt]
    BY DEF Tick, IInv, CacheType
<1>8. CacheType'
    <2>1. AtMost(cache.read + 1, OldestReading) \in 0 .. OldestReading
        BY <1>5, <1>6 DEF AtMost
    <2>2. AtMost(cache.calendarSync + 1, StaleAfter + 1) \in 0 .. StaleAfter + 1
          /\ AtMost(cache.sync + 1, StaleAfter + 1) \in 0 .. StaleAfter + 1
        BY <1>5, <1>6 DEF AtMost
    <2> QED BY <1>6, <1>7, <2>1, <2>2, EarliestType DEF CacheType
<1>9. ReadInv'
    BY <1>5, <1>6, <1>7 DEF IInv, ReadInv, AtMost
<1>10. RequestsType' /\ WholeInv'
    BY <1>1, <1>4 DEF IInv, RequestsType, WholeInv
<1>11. StampInv'
    <2>1. \A r \in requests : r.sentAt - 1 + (r.age + 1) = r.sentAt + r.age
        BY <1>2
    <2>2. \A r \in requests : r.age + 1 <= MaxTransit
        BY <1>2, <1>5
    <2>3. UNCHANGED <<skew, MaxTransit>>
        BY DEF Tick
    <2> QED BY <1>4, <2>1, <2>2, <2>3 DEF IInv, StampInv
<1>12. OrderInv'
    <2> SUFFICES ASSUME NEW t \in requests', ~ t.stepped
                 PROVE  /\ t.sentAt + t.age <= skew'
                        /\ \A q \in requests' : q.sentAt < t.sentAt => t.age <= q.age
                        /\ cache'.lastSentAt < t.sentAt => t.age <= cache'.read
        BY DEF OrderInv
    <2> PICK r \in requests :
            t.sentAt = r.sentAt - 1 /\ t.age = r.age + 1 /\ ~ r.stepped
        BY <1>4
    <2>1. /\ r.sentAt + r.age <= skew
          /\ \A q \in requests : q.sentAt < r.sentAt => r.age <= q.age
          /\ cache.lastSentAt < r.sentAt => r.age <= cache.read
        BY DEF IInv, OrderInv
    <2>2. t.sentAt + t.age <= skew'
        <3>1. skew \in Int /\ skew' = skew
            BY SkewsAssumption DEF Tick, IInv, RequestsType
        <3> QED BY <1>2, <2>1, <3>1
    <2>3. \A q \in requests' : q.sentAt < t.sentAt => t.age <= q.age
        BY <1>2, <1>4, <2>1
    <2>4. cache'.lastSentAt < t.sentAt => t.age <= cache'.read
        <3>1. cache'.lastSentAt >= cache.lastSentAt - 1
            BY <1>6, <1>7, EarliestType
        <3>2. cache'.lastSentAt \in Int
            BY <1>6, <1>7, EarliestType
        <3>3. r.age + 1 <= OldestReading
            BY <1>2, <1>5
        <3>4. r.age <= cache.read => r.age + 1 <= cache'.read
            BY <1>2, <1>5, <1>6, <1>7, <3>3 DEF AtMost
        <3> QED BY <1>2, <1>6, <2>1, <3>1, <3>2, <3>4
    <2> QED BY <2>2, <2>3, <2>4
<1> QED BY <1>8, <1>9, <1>10, <1>11, <1>12 DEF IInv

\* A setup drops what is not allowed.
LEMMA RestrictsInv == ASSUME IInv, ScopeInv, Restricts PROVE IInv'
<1>1. UNCHANGED <<skew, requests>> /\ cache' = [cache EXCEPT !.calendars = filed \cap Allowed]
    BY DEF Restricts
<1>2. filed \cap Allowed \subseteq Calendar
    BY DEF ScopeInv, IInv, CacheType
<1>3. CacheType' /\ ReadInv'
    BY <1>1, <1>2 DEF IInv, CacheType, ReadInv
<1>4. cache'.read = cache.read /\ cache'.lastSentAt = cache.lastSentAt
    BY <1>1 DEF IInv, CacheType
<1> QED BY <1>1, <1>3, <1>4 DEF IInv, RequestsType, WholeInv, StampInv, OrderInv

\* Every step is one of these.
LEMMA Steps ==
    ASSUME [Next]_vars
    PROVE  \/ Posts \/ GivesUp \/ Takes \/ Restricts \/ Tick
           \/ \E s \in Skews : SetClock(s)
           \/ \E r \in requests : Accept(r)
<1> USE DEF bridge, ha, vars
<1>1. CASE StartRound
    <2>1. PICK readable \in SUBSET Calendar : PostSnapshot(readable)
        BY <1>1 DEF StartRound, ReadableSets
    <2>2. Published(readable) \in {Omitted, Calendar}
        BY DEF Published
    <2> QED BY <1>1, <2>1, <2>2 DEF StartRound, PostSnapshot, Posts
<1>2. CASE ReadFails
    BY <1>2 DEF ReadFails, Takes
<1>3. CASE Timeout \/ Restart
    BY <1>3 DEF Timeout, Restart, GivesUp
<1>4. CASE \E r \in requests :
               \/ AcceptAndAnswer(r) \/ AcceptInSilence(r)
               \/ Refuse(r) \/ SaveFails(r) \/ Lose(r)
    BY <1>4 DEF AcceptAndAnswer, AcceptInSilence, Refuse, SaveFails, Lose, Take, Takes
<1>5. CASE (\E calendars \in SUBSET Calendar : Reconfigure(calendars)) \/ Unload
    BY <1>5 DEF Reconfigure, Unload, Takes
<1>6. CASE Load
    BY <1>6 DEF Load, Restricts
<1>7. CASE UNCHANGED vars
    BY <1>7 DEF Takes
<1> QED BY <1>1, <1>2, <1>3, <1>4, <1>5, <1>6, <1>7 DEF Next

\* ScopeInv is kept by what a step does to the entry.
LEMMA ScopeStep == IInv /\ ScopeInv /\ [Next]_vars => ScopeInv'
<1> SUFFICES ASSUME IInv, ScopeInv, [Next]_vars PROVE ScopeInv'
    OBVIOUS
<1> USE DEF bridge, ha, vars
<1>1. ASSUME UNCHANGED <<up, reload, allowed, cache, filed, withdrawn>> PROVE ScopeInv'
    BY <1>1 DEF ScopeInv, Allowed
<1>2. ASSUME NEW r \in requests, Accept(r) PROVE ScopeInv'
    <2>1. cache'.calendars = IF r.calendars = Omitted THEN cache.calendars ELSE r.calendars
        BY <1>2 DEF Accept, Stored, IInv, CacheType
    <2>2. /\ filed' = cache'.calendars /\ UNCHANGED <<up, reload, allowed>>
          /\ withdrawn' = IF r.calendars = Omitted THEN withdrawn
                          ELSE withdrawn \ r.calendars
          /\ r.calendars # Omitted => r.calendars \subseteq Allowed
        BY <1>2 DEF Accept, InScope
    <2> QED BY <2>1, <2>2 DEF ScopeInv, Allowed
<1>3. ASSUME NEW calendars, Reconfigure(calendars) PROVE ScopeInv'
    BY <1>3 DEF Reconfigure, ScopeInv
<1>4. CASE Unload
    BY <1>4 DEF Unload, ScopeInv
<1>5. CASE Load
    <2>1. cache'.calendars = filed \cap Allowed /\ filed' = cache'.calendars
        BY <1>5 DEF Load, IInv, CacheType
    <2>2. withdrawn' = withdrawn \cup (Calendar \ Allowed) /\ UNCHANGED allowed
        BY <1>5 DEF Load
    <2> QED BY <2>1, <2>2 DEF ScopeInv, Allowed
<1>6. CASE Tick
    <2>1. cache'.calendars = cache.calendars
        BY <1>6 DEF Tick, IInv, CacheType
    <2>2. UNCHANGED <<up, reload, allowed, filed, withdrawn>>
        BY <1>6 DEF Tick
    <2> QED BY <2>1, <2>2 DEF ScopeInv, Allowed
<1> QED BY <1>1, <1>2, <1>3, <1>4, <1>5, <1>6 DEF Next, ReadFails, StartRound, Timeout,
        Restart, SetClock, AcceptAndAnswer, AcceptInSilence, Refuse, SaveFails, Lose

\* Every step keeps the invariant.
LEMMA NextInv == IInv /\ ScopeInv /\ [Next]_vars => IInv'
BY Steps, PostsInv, GivesUpInv, TakesInv, RestrictsInv, TickInv, SetClockInv, AcceptInv

\* The invariants hold in every behaviour.
LEMMA Invariance == Spec => [](IInv /\ ScopeInv)
<1>1. Init => ScopeInv
    BY DEF Init, ScopeInv
<1> QED BY <1>1, InitInv, NextInv, ScopeStep, PTL DEF Spec

\* The delays are delays, whatever the jitter makes of the backoff.
LEMMA DelaysType == \A n : RetryDelays(n) \subseteq 0 .. RetryCap
<1> SUFFICES ASSUME NEW n, NEW d \in RetryDelays(n) PROVE d \in 0 .. RetryCap
    OBVIOUS
<1>1. CASE n = 0
    BY <1>1, TimesAssumption DEF RetryDelays
<1>2. CASE n # 0
    <2>1. PICK j \in (9 * Backoff[n]) \div 10 .. (11 * Backoff[n] + 9) \div 10 :
              d = AtMost(IF j < Interval THEN Interval ELSE j, RetryCap)
        BY <1>2 DEF RetryDelays
    <2>2. j \in Int
        OBVIOUS
    <2> QED BY <2>1, <2>2, TimesAssumption DEF AtMost
<1> QED BY <1>1, <1>2

\* The types of the bridge's timer, of the entry and of the history.
RestType ==
    /\ pc \in {"timer", "posted"} /\ failures \in 0 .. MaxFailures /\ wait \in 0 .. RetryCap
    /\ allowed \in {Omitted} \cup SUBSET Calendar
    /\ up \in BOOLEAN /\ reload \in BOOLEAN
    /\ filed \subseteq Calendar /\ withdrawn \subseteq Calendar
    /\ calm \in [reminders : 0 .. Recovery, calendars : 0 .. Recovery]

\* A round that ends leaves the timer well typed.
LEMMA EndRoundType ==
    ASSUME RestType, RoundSucceeds \/ RoundFails
    PROVE  /\ pc' \in {"timer", "posted"} /\ failures' \in 0 .. MaxFailures
           /\ wait' \in 0 .. RetryCap
BY DelaysType, BoundsAssumption DEF RestType, RoundSucceeds, RoundFails, EndRound, AtMost

\* Every step keeps these types.
LEMMA RestStep == IInv /\ ScopeInv /\ RestType /\ [Next]_vars => RestType'
<1> SUFFICES ASSUME IInv, ScopeInv, RestType, [Next]_vars PROVE RestType'
    OBVIOUS
<1>0. /\ 0 \in 0 .. RetryCap /\ 0 \in 0 .. MaxFailures
      /\ Disturbed => calm' \in [reminders : 0 .. Recovery, calendars : 0 .. Recovery]
    BY TimesAssumption, BoundsAssumption DEF Disturbed
<1> USE <1>0 DEF RestType, bridge, ha, vars
<1>1. CASE ReadFails \/ Timeout
    BY <1>1, EndRoundType DEF ReadFails, Timeout
<1>2. CASE StartRound
    <2>1. calm' \in [reminders : 0 .. Recovery, calendars : 0 .. Recovery]
        BY <1>2, TimesAssumption DEF StartRound
    <2> QED BY <1>2, <2>1 DEF StartRound, PostSnapshot
<1>3. CASE Restart
    BY <1>3 DEF Restart
<1>4. ASSUME NEW s, SetClock(s) PROVE RestType'
    BY <1>4 DEF SetClock
<1>5. ASSUME NEW r \in requests, NEW success, Answered(r, success)
      PROVE  /\ pc' \in {"timer", "posted"} /\ failures' \in 0 .. MaxFailures
             /\ wait' \in 0 .. RetryCap
    BY <1>5, EndRoundType DEF Answered
<1>6. ASSUME NEW r \in requests, Accept(r) PROVE filed' \subseteq Calendar
    BY <1>6, AcceptInv DEF Accept, IInv, CacheType
<1>7. ASSUME NEW r \in requests, AcceptAndAnswer(r) \/ AcceptInSilence(r) PROVE RestType'
    <2>1. Accept(r)
        BY <1>7 DEF AcceptAndAnswer, AcceptInSilence
    <2>2. UNCHANGED <<allowed, up, reload>> /\ withdrawn' \subseteq withdrawn
        BY <2>1 DEF Accept
    <2> QED BY <1>5, <1>6, <1>7, <2>1, <2>2 DEF AcceptAndAnswer, AcceptInSilence
<1>8. ASSUME NEW r \in requests, Refuse(r) \/ SaveFails(r) \/ Lose(r) PROVE RestType'
    <2>1. CASE Refuse(r)
        BY <1>5, <2>1 DEF Refuse
    <2>2. CASE SaveFails(r)
        BY <1>5, <2>2 DEF SaveFails
    <2>3. CASE Lose(r)
        BY <2>3 DEF Lose
    <2> QED BY <1>8, <2>1, <2>2, <2>3
<1>9. ASSUME NEW calendars \in SUBSET Calendar, Reconfigure(calendars) PROVE RestType'
    BY <1>9 DEF Reconfigure
<1>10. CASE Unload
    BY <1>10 DEF Unload
<1>11. CASE Load
    <2>1. cache'.calendars = filed \cap Allowed
        BY <1>11 DEF Load, IInv, CacheType
    <2> QED BY <1>11, <2>1 DEF Load
<1>12. CASE Tick
    <2>1. wait' = wait - 1 /\ wait > 0 /\ wait \in 0 .. RetryCap
        BY <1>12 DEF Tick, Idle
    <2>2. wait' \in 0 .. RetryCap
        BY <2>1, TimesAssumption
    <2>3. \A n \in 0 .. Recovery : Longer(n) \in 0 .. Recovery
        BY TimesAssumption DEF Longer, AtMost
    <2>4. calm' \in [reminders : 0 .. Recovery, calendars : 0 .. Recovery]
        BY <1>12, <2>3 DEF Tick
    <2> QED BY <1>12, <2>2, <2>4 DEF Tick
<1> QED BY <1>1, <1>2, <1>3, <1>4, <1>7, <1>8, <1>9, <1>10, <1>11, <1>12 DEF Next

\* The types of the other variables, through the whole of Spec.
LEMMA RestInvariance == Spec => []RestType
<1>1. Init => RestType
    <2>1. 0 \in 0 .. RetryCap /\ 0 \in 0 .. MaxFailures /\ 0 \in 0 .. Recovery
        BY TimesAssumption, BoundsAssumption
    <2> SUFFICES ASSUME Init PROVE RestType
        OBVIOUS
    <2>2. calm \in [reminders : 0 .. Recovery, calendars : 0 .. Recovery]
        BY <2>1 DEF Init
    <2>3. up \in BOOLEAN /\ reload \in BOOLEAN
        BY DEF Init
    <2> QED BY <2>1, <2>2, <2>3 DEF Init, RestType
<1> QED BY <1>1, Invariance, RestStep, PTL DEF Spec

\* Every variable has its type, and stamps stay in the range that the capped ages
\* leave (client.go:72-121, runtime.py:68).
THEOREM TypeCorrect == Spec => []TypeOK
<1>1. IInv /\ RestType => TypeOK
    <2> SUFFICES ASSUME IInv, RestType PROVE TypeOK
        OBVIOUS
    <2>1. ASSUME NEW r \in requests PROVE OldestStamp < r.sentAt /\ r.age <= MaxTransit
        <3>1. r.sentAt \in Int /\ r.age \in Nat /\ r.age <= MaxTransit
              /\ r.sentAt + r.age \in Skews
            BY DEF IInv, RequestsType, StampInv, Request
        <3>2. Earliest <= r.sentAt + r.age
            BY <3>1, EarliestType
        <3> QED BY <3>1, <3>2, EarliestType, TimesAssumption
    <2> QED BY <2>1 DEF TypeOK, IInv, RequestsType, CacheType, RestType
<1> QED BY <1>1, Invariance, RestInvariance, PTL

\* Calendars that are shown were read within StaleAfter and the time a snapshot may
\* take, whatever failed since (runtime.py:195, calendar.py:49).
THEOREM ShownIsRecent == Spec => []AvailableIsRecent
<1>1. IInv => AvailableIsRecent
    BY TimesAssumption DEF IInv, CacheType, ReadInv, AvailableIsRecent, CalendarsShown,
                           OldestReading
<1> QED BY <1>1, Invariance, PTL

\* Calendars that are shown are allowed, and were in a snapshot accepted since
\* they were last withdrawn, unless the entry is about to be set up again
\* (runtime.py:83-125).
THEOREM RevokedIsHidden == Spec => []RevokedStaysHidden
<1>1. ScopeInv => RevokedStaysHidden
    BY DEF ScopeInv, RevokedStaysHidden, CalendarsShown
<1> QED BY <1>1, Invariance, PTL

\* A round in which a calendar could not be read takes no other from the screen
\* (client.go:189, runtime.py:195).
THEOREM ReadErrorsHideNothing == Spec => ReadErrorHidesNothing
<1>1. IInv /\ [Next]_vars =>
          [\A c \in CalendarsShown :
              \/ c \in CalendarsShown'
              \/ ~ up' \/ cache'.calendarSync > StaleAfter \/ c \notin Allowed]_vars
    <2> SUFFICES ASSUME IInv, [Next]_vars, NEW c \in CalendarsShown, up'
                 PROVE  c \in CalendarsShown' \/ cache'.calendarSync > StaleAfter
        OBVIOUS
    <2>1. up /\ cache.calendarSync <= StaleAfter /\ c \in cache.calendars
        BY DEF CalendarsShown
    <2>2. CASE UNCHANGED cache
        BY <2>1, <2>2 DEF CalendarsShown
    <2>3. ASSUME NEW r \in requests, Accept(r) PROVE c \in CalendarsShown'
        <3>1. cache' = Stored(r) /\ r.calendars \in {Omitted, Calendar}
            BY <2>3 DEF Accept, IInv, WholeInv
        <3>2. c \in Calendar
            BY <2>1 DEF IInv, CacheType
        <3>3. c \in cache'.calendars /\ cache'.calendarSync <= StaleAfter
            BY <3>1, <3>2, <2>1, TimesAssumption DEF Stored, IInv, CacheType
        <3> QED BY <3>3 DEF CalendarsShown
    <2>4. CASE Tick
        <3>1. cache'.calendars = cache.calendars
            BY <2>4 DEF Tick, IInv, CacheType
        <3>2. CacheType'
            BY <2>4, TickInv DEF IInv
        <3>3. cache'.calendarSync \in Nat /\ StaleAfter \in Nat
            BY <3>2, TimesAssumption DEF CacheType
        <3> QED BY <2>1, <3>1, <3>3 DEF CalendarsShown
    <2> QED BY Steps, <2>1, <2>2, <2>3, <2>4
            DEF Posts, GivesUp, Takes, Restricts, SetClock, ha
<1> QED BY <1>1, Invariance, PTL DEF Spec, ReadErrorHidesNothing

\* A late snapshot does not replace calendars that were read after it
\* (runtime.py:188).
THEOREM NoOlderReadings == Spec => NoOlderReading
<1>1. IInv /\ [Next]_vars =>
          [\A r \in requests :
              Accept(r) /\ ~ r.stepped /\ r.sentAt # cache.lastSentAt
              => cache'.read <= cache.read]_vars
    <2> SUFFICES ASSUME IInv, NEW r \in requests, Accept(r), ~ r.stepped,
                        r.sentAt # cache.lastSentAt
                 PROVE  cache'.read <= cache.read
        OBVIOUS
    <2>1. r.sentAt \in Int /\ cache.lastSentAt \in Int /\ cache.read \in Int
        BY DEF IInv, RequestsType, CacheType, Request
    <2>2. cache.lastSentAt < r.sentAt
        BY <2>1 DEF Accept, Stale
    <2>3. r.age <= cache.read
        BY <2>2 DEF IInv, OrderInv
    <2>4. cache'.read = cache.read \/ cache'.read = r.age
        BY DEF Accept, Stored, IInv, CacheType
    <2> QED BY <2>1, <2>3, <2>4
<1> QED BY <1>1, Invariance, PTL DEF Spec, NoOlderReading

(***************************************************************************)
(* Recovery.  calm counts the ticks since the last disturbance.  While it  *)
(* does, clocks and allowlist agree (CalmInv), so that a round fails only  *)
(* for a stamp that is not newer than the last one; the last stamp is soon *)
(* behind the Mac's clock (LastInv); and the round that starts then, after *)
(* a wait of at most RetryCap, makes everything fresh and keeps it so      *)
(* (RoundsInv).                                                            *)
(***************************************************************************)

\* A bridge that has posted has no other snapshot under way it waits for.
BridgeInv ==
    /\ pc = "posted" => wait = 0
    /\ \A r \in requests : r.awaited => pc = "posted"
    /\ \A q, r \in requests : q.awaited /\ r.awaited => q = r

\* In a calm, the snapshot the bridge waits for can be accepted, and the others
\* were posted before it.
CalmInv ==
    /\ calm.calendars <= calm.reminders
    /\ calm.reminders > 0 => Agreeing
    /\ \A r \in requests :
          IF r.awaited
          THEN calm.reminders > 0 =>
                  /\ r.sentAt = skew
                  /\ calm.calendars > 0 => r.calendars = Published(Calendar)
          ELSE calm.reminders <= r.age

\* The last accepted stamp was not too far ahead, and in a calm either is behind the
\* Mac's clock before the next round, or comes closer with every tick.
LastInv ==
    /\ cache.lastSentAt <= MaxAhead \/ cache.lastSentAt <= OldestStamp
    /\ calm.reminders > 0 =>
          \/ cache.lastSentAt < skew
          \/ cache.lastSentAt = skew /\ pc = "timer" /\ wait > 0
          \/ calm.reminders + cache.lastSentAt <= MaxTransit + MaxAhead

\* How long it takes until a round makes up for what failed.
Delay == MaxTransit + (MaxAhead - skew) + RetryCap

\* In a calm, what is shown will not be older than Interval when the next round
\* ends, or that round ends within Delay.
RoundsInv ==
    /\ calm.reminders > 0 =>
          cache.sync + wait <= Interval \/ calm.reminders + wait <= Delay
    /\ calm.calendars > 0 /\ Calendar # {} =>
          \/ cache.calendars = Calendar /\ cache.calendarSync + wait <= Interval
          \/ calm.calendars + wait <= Delay

RecoveryInv == BridgeInv /\ CalmInv /\ LastInv /\ RoundsInv

\* The types that the proofs about a calm use.
LEMMA CalmTypes ==
    ASSUME IInv, RestType
    PROVE  /\ skew \in Int /\ skew \in Skews /\ wait \in Nat /\ wait <= RetryCap
           /\ calm.reminders \in Nat /\ calm.calendars \in Nat
           /\ cache.lastSentAt \in Int /\ cache.sync \in Nat /\ cache.calendarSync \in Nat
           /\ OldestStamp \in Int /\ OldestStamp < skew
           /\ MaxTransit \in Nat /\ MaxAhead \in Nat /\ RetryCap \in Nat
           /\ Interval \in Nat /\ Interval > 0 /\ Interval <= RetryCap
           /\ \A r \in requests :
                 /\ r \in Request /\ r.sentAt \in Int /\ r.age \in Nat /\ r.age <= MaxTransit
                 /\ r.calendars \in {Omitted, Calendar}
<1>1. skew \in Skews /\ skew \in Int
    BY SkewsAssumption DEF IInv, RequestsType
<1>2. OldestStamp \in Int /\ OldestStamp < skew
    BY <1>1, EarliestType, TimesAssumption
<1>3. wait \in Nat /\ wait <= RetryCap /\ calm.reminders \in Nat /\ calm.calendars \in Nat
    BY TimesAssumption DEF RestType
<1>4. cache.lastSentAt \in Int /\ cache.sync \in Nat /\ cache.calendarSync \in Nat
    BY TimesAssumption DEF IInv, CacheType
<1>5. \A r \in requests :
          /\ r \in Request /\ r.sentAt \in Int /\ r.age \in Nat /\ r.age <= MaxTransit
          /\ r.calendars \in {Omitted, Calendar}
    BY DEF IInv, RequestsType, StampInv, WholeInv, Request
<1> QED BY <1>1, <1>2, <1>3, <1>4, <1>5, TimesAssumption

\* The system starts disturbed.
LEMMA RecoveryInit == Init => RecoveryInv
<1> SUFFICES ASSUME Init PROVE RecoveryInv
    OBVIOUS
<1>1. calm.reminders = 0 /\ calm.calendars = 0 /\ cache.lastSentAt = OldestStamp
    BY DEF Init
<1> QED BY <1>1, EarliestType
        DEF Init, RecoveryInv, BridgeInv, CalmInv, LastInv, RoundsInv

\* A disturbance is the end of the calm, and leaves what holds without one.
LEMMA RecoveryDisturbed ==
    ASSUME IInv, RestType, RecoveryInv, Disturbed, BridgeInv',
           UNCHANGED cache \/ (\E r \in requests : ~ TooFarAhead(r) /\ cache'.lastSentAt = r.sentAt),
           \A t \in requests' : t.age \in Nat
    PROVE  RecoveryInv'
<1>1. calm'.reminders = 0 /\ calm'.calendars = 0
    BY DEF Disturbed
<1>2. LastInv'
    <2>1. cache'.lastSentAt <= MaxAhead \/ cache'.lastSentAt <= OldestStamp
        BY CalmTypes DEF RecoveryInv, LastInv, TooFarAhead
    <2> QED BY <1>1, <2>1 DEF LastInv
<1>3. CalmInv' /\ RoundsInv'
    BY <1>1 DEF CalmInv, RoundsInv
<1> QED BY <1>2, <1>3 DEF RecoveryInv

\* The answer to a snapshot ends the round that waits for it.
LEMMA BridgeTakes ==
    ASSUME BridgeInv, NEW r \in requests, Take(r),
           UNCHANGED bridge \/ \E success : Answered(r, success)
    PROVE  BridgeInv'
<1>1. requests' = requests \ {r}
    BY DEF Take
<1>2. CASE UNCHANGED bridge
    BY <1>1, <1>2 DEF BridgeInv, bridge
<1>3. ASSUME NEW success, Answered(r, success), ~ UNCHANGED bridge PROVE BridgeInv'
    <2>1. r.awaited /\ pc' = "timer"
        BY <1>3 DEF Answered, RoundSucceeds, RoundFails, EndRound
    <2> QED BY <1>1, <2>1 DEF BridgeInv
<1> QED BY <1>2, <1>3

\* What is marked, or gets older, is awaited as before.
LEMMA BridgeMarks ==
    ASSUME BridgeInv, NEW f, \A r \in requests : f[r].awaited = r.awaited,
           requests' = {f[r] : r \in requests}, UNCHANGED pc, pc = "posted" => wait' = 0
    PROVE  BridgeInv'
BY DEF BridgeInv

\* Every step keeps to one awaited snapshot.
LEMMA BridgeStep == IInv /\ BridgeInv /\ [Next]_vars => BridgeInv'
<1> SUFFICES ASSUME IInv, BridgeInv, [Next]_vars PROVE BridgeInv'
    OBVIOUS
<1> USE DEF bridge, vars
<1>1. \A r \in requests : r \in Request
    BY DEF IInv, RequestsType
<1>2. CASE ReadFails
    BY <1>2 DEF ReadFails, RoundFails, EndRound, BridgeInv
<1>3. CASE StartRound
    <2>1. PICK calendars : requests' = requests \cup
              {[calendars |-> calendars, sentAt |-> skew, age |-> 0,
                awaited |-> TRUE, stepped |-> FALSE]}
        BY <1>3 DEF StartRound, PostSnapshot
    <2>2. \A r \in requests : ~ r.awaited
        BY <1>3 DEF StartRound, BridgeInv
    <2>3. pc' = "posted" /\ wait' = 0
        BY <1>3 DEF StartRound, PostSnapshot
    <2> QED BY <2>1, <2>2, <2>3 DEF BridgeInv
<1>4. CASE Timeout \/ Restart
    <2>1. pc' = "timer" /\ requests' = {[r EXCEPT !.awaited = FALSE] : r \in requests}
        BY <1>4 DEF Timeout, Restart, GiveUp, RoundFails, EndRound
    <2>2. \A r \in requests : ~ [r EXCEPT !.awaited = FALSE].awaited
        BY <1>1 DEF Request
    <2> QED BY <2>1, <2>2 DEF BridgeInv
<1>5. ASSUME NEW s \in Skews, SetClock(s) PROVE BridgeInv'
    <2> DEFINE f == [r \in requests |-> [r EXCEPT !.stepped = @ \/ s < skew]]
    <2>1. requests' = {f[r] : r \in requests} /\ UNCHANGED <<pc, wait>>
        BY <1>5 DEF SetClock
    <2>2. \A r \in requests : f[r].awaited = r.awaited
        BY <1>1 DEF Request
    <2> HIDE DEF f
    <2> QED BY <2>1, <2>2, BridgeMarks DEF BridgeInv
<1>6. ASSUME NEW r \in requests,
             AcceptAndAnswer(r) \/ AcceptInSilence(r) \/ Refuse(r) \/ SaveFails(r) \/ Lose(r)
      PROVE  BridgeInv'
    <2>1. Take(r) /\ (UNCHANGED bridge \/ \E success : Answered(r, success))
        BY <1>6 DEF AcceptAndAnswer, AcceptInSilence, Accept, Refuse, SaveFails, Lose
    <2> QED BY <2>1, BridgeTakes
<1>7. CASE (\E calendars \in SUBSET Calendar : Reconfigure(calendars)) \/ Unload \/ Load
           \/ UNCHANGED vars
    BY <1>7 DEF Reconfigure, Unload, Load, BridgeInv
<1>8. CASE Tick
    <2> DEFINE f == [r \in requests |-> [r EXCEPT !.sentAt = @ - 1, !.age = @ + 1]]
    <2>1. requests' = {f[r] : r \in requests} /\ UNCHANGED pc /\ pc = "timer"
        BY <1>8 DEF Tick, Idle
    <2>2. \A r \in requests : f[r].awaited = r.awaited
        BY <1>1 DEF Request
    <2> HIDE DEF f
    <2> QED BY <2>1, <2>2, BridgeMarks
<1> QED BY <1>2, <1>3, <1>4, <1>5, <1>6, <1>7, <1>8 DEF Next

\* A round starts: its snapshot has the Mac's clock, and all calendars unless one of
\* them could not be read.
LEMMA RecoveryStart == ASSUME IInv, RestType, RecoveryInv, StartRound PROVE CalmInv' /\ LastInv' /\ RoundsInv'
<1>1. PICK readable : /\ PostSnapshot(readable)
                      /\ calm' = [calm EXCEPT !.calendars = IF readable = Calendar THEN @ ELSE 0]
    BY DEF StartRound
<1>2. /\ pc = "timer" /\ pc' = "posted" /\ wait = 0 /\ wait' = 0
      /\ UNCHANGED <<skew, allowed, up, cache>>
    BY <1>1 DEF StartRound, PostSnapshot, ha
<1>3. /\ calm'.reminders = calm.reminders
      /\ calm'.calendars = IF readable = Calendar THEN calm.calendars ELSE 0
    BY <1>1 DEF RestType
<1> DEFINE new == [calendars |-> Published(readable), sentAt |-> skew, age |-> 0,
                   awaited |-> TRUE, stepped |-> FALSE]
<1>4. requests' = requests \cup {new}
    BY <1>1 DEF PostSnapshot
<1>5. new.awaited /\ new.sentAt = skew /\ new.calendars = Published(readable)
    OBVIOUS
<1> HIDE DEF new
<1>6. CalmInv'
    <2>1. calm'.calendars <= calm'.reminders
        BY <1>3, CalmTypes DEF RecoveryInv, CalmInv
    <2>2. calm'.reminders > 0 => Agreeing'
        BY <1>2, <1>3 DEF RecoveryInv, CalmInv, Agreeing, Allowed
    <2>3. ASSUME NEW r \in requests
          PROVE  IF r.awaited
                 THEN calm'.reminders > 0 =>
                         r.sentAt = skew' /\ (calm'.calendars > 0 => r.calendars = Published(Calendar))
                 ELSE calm'.reminders <= r.age
        BY <1>2, <1>3, CalmTypes DEF RecoveryInv, CalmInv
    <2>4. calm'.calendars > 0 => readable = Calendar
        BY <1>3
    <2>5. new.sentAt = skew' /\ (calm'.calendars > 0 => new.calendars = Published(Calendar))
        BY <1>2, <1>5, <2>4
    <2> QED BY <1>4, <1>5, <2>1, <2>2, <2>3, <2>5 DEF CalmInv
<1>7. LastInv'
    BY <1>2, <1>3 DEF RecoveryInv, LastInv
<1>8. RoundsInv'
    BY <1>2, <1>3 DEF RecoveryInv, RoundsInv, Delay
<1> QED BY <1>6, <1>7, <1>8

\* A snapshot leaves the network; the calm goes on.
LEMMA CalmTakes ==
    ASSUME CalmInv, NEW r \in requests, Take(r), UNCHANGED <<skew, allowed, up, calm>>
    PROVE  CalmInv'
BY DEF CalmInv, Take, Agreeing, Allowed

\* In a calm, the snapshot the bridge waits for finds everything in agreement but, perhaps,
\* the last stamp.
LEMMA CalmAccepts ==
    ASSUME IInv, RestType, CalmInv, calm.reminders > 0, NEW r \in requests, r.awaited
    PROVE  /\ up /\ InScope(r) /\ ~ TooFarAhead(r) /\ Supported
           /\ r.sentAt = skew /\ skew <= MaxAhead
<1>1. up /\ skew <= MaxAhead /\ Calendar \subseteq Allowed /\ r.sentAt = skew
    BY DEF CalmInv, Agreeing
<1>2. Supported
    BY <1>1 DEF Supported, Allowed
<1> QED BY <1>1, <1>2, CalmTypes DEF InScope, TooFarAhead

\* One that nobody waits for is older than the calm.
LEMMA CalmLate ==
    ASSUME IInv, RestType, CalmInv, NEW r \in requests, ~ r.awaited
    PROVE  calm.reminders <= MaxTransit /\ calm.calendars <= MaxTransit
BY CalmTypes DEF CalmInv

\* A snapshot is accepted, and the bridge learns of it if it waits.
LEMMA RecoveryAccept ==
    ASSUME IInv, RestType, RecoveryInv, NEW r \in requests, AcceptAndAnswer(r)
    PROVE  CalmInv' /\ LastInv' /\ RoundsInv'
<1> USE DEF bridge
<1>1. /\ Accept(r) /\ Answered(r, Supported) /\ UNCHANGED calm
      /\ Take(r) /\ cache' = Stored(r) /\ ~ TooFarAhead(r)
      /\ UNCHANGED <<skew, allowed, up>>
    BY DEF AcceptAndAnswer, Accept
<1>2. BridgeInv /\ CalmInv /\ LastInv /\ RoundsInv
    BY DEF RecoveryInv
<1>3. CalmInv'
    BY <1>1, <1>2, CalmTakes
<1>4. /\ cache'.lastSentAt = r.sentAt /\ cache'.sync = 0 /\ r.sentAt <= MaxAhead
      /\ IF r.calendars = Omitted
         THEN cache'.calendars = cache.calendars /\ cache'.calendarSync = cache.calendarSync
         ELSE cache'.calendars = r.calendars /\ cache'.calendarSync = 0
    BY <1>1, CalmTypes DEF Stored, TooFarAhead, IInv, CacheType
<1>5. CASE calm.reminders = 0
    BY <1>1, <1>2, <1>3, <1>4, <1>5, CalmTypes DEF CalmInv, LastInv, RoundsInv
<1>6. CASE calm.reminders > 0 /\ r.awaited
    <2>1. Supported /\ r.sentAt = skew /\ pc = "posted"
        BY <1>2, <1>6, CalmAccepts DEF BridgeInv
    <2>2. pc' = "timer" /\ wait' = Interval
        BY <1>1, <1>6, <2>1 DEF Answered, RoundSucceeds, EndRound, RetryDelays
    <2>3. LastInv'
        BY <1>1, <1>4, <2>1, <2>2, CalmTypes DEF LastInv
    <2>4. calm.calendars > 0 /\ Calendar # {} => r.calendars = Calendar /\ r.calendars # Omitted
        BY <1>2, <1>6, OmittedAssumption DEF CalmInv, Published
    <2>5. RoundsInv'
        BY <1>1, <1>4, <2>2, <2>4, CalmTypes DEF RoundsInv
    <2> QED BY <1>3, <2>3, <2>5
<1>7. CASE calm.reminders > 0 /\ ~ r.awaited
    <2>1. calm.reminders <= MaxTransit /\ calm.calendars <= MaxTransit /\ skew <= MaxAhead
        BY <1>2, <1>7, CalmLate DEF CalmInv, Agreeing
    <2>2. UNCHANGED <<pc, wait>>
        BY <1>1, <1>7 DEF Answered
    <2>3. LastInv'
        BY <1>1, <1>4, <2>1, CalmTypes DEF LastInv
    <2>4. RoundsInv'
        BY <1>1, <2>1, <2>2, CalmTypes DEF RoundsInv, Delay
    <2> QED BY <1>3, <2>3, <2>4
<1> QED BY <1>5, <1>6, <1>7, CalmTypes

\* A snapshot is refused; in a calm, the one the bridge waits for only because the last
\* stamp is still ahead.
LEMMA RecoveryRefuse ==
    ASSUME IInv, RestType, RecoveryInv, NEW r \in requests, Refuse(r)
    PROVE  CalmInv' /\ LastInv' /\ RoundsInv'
<1> USE DEF bridge, ha
<1>1. /\ Answered(r, FALSE) /\ Take(r) /\ UNCHANGED <<skew, allowed, up, cache, calm>>
      /\ ~ up \/ ~ InScope(r) \/ TooFarAhead(r) \/ MaybeStale(r)
    BY DEF Refuse
<1>2. BridgeInv /\ CalmInv /\ LastInv /\ RoundsInv
    BY DEF RecoveryInv
<1>3. CalmInv'
    BY <1>1, <1>2, CalmTakes
<1>4. CASE UNCHANGED bridge
    BY <1>1, <1>2, <1>3, <1>4 DEF LastInv, RoundsInv, Delay
<1>5. CASE ~ UNCHANGED bridge
    <2>1. r.awaited /\ pc = "posted" /\ RoundFails
        BY <1>1, <1>5 DEF Answered
    <2>2. wait' \in Nat /\ wait' <= RetryCap
        BY <2>1, EndRoundType, TimesAssumption
    <2>3. CASE calm.reminders = 0
        BY <1>1, <1>2, <1>3, <2>3, CalmTypes DEF CalmInv, LastInv, RoundsInv
    <2>4. CASE calm.reminders > 0
        <3>1. skew <= cache.lastSentAt
            BY <1>1, <1>2, <2>1, <2>4, CalmAccepts DEF MaybeStale
        <3>2. calm.reminders + cache.lastSentAt <= MaxTransit + MaxAhead
            BY <1>2, <2>1, <2>4, <3>1, CalmTypes DEF LastInv
        <3>3. calm.reminders <= MaxTransit + (MaxAhead - skew) /\ calm.calendars <= calm.reminders
            BY <1>2, <3>1, <3>2, CalmTypes DEF CalmInv
        <3>4. LastInv'
            BY <1>1, <1>2, <3>2 DEF LastInv
        <3>5. calm.reminders + wait' <= Delay /\ calm.calendars + wait' <= Delay
            BY <2>2, <3>3, CalmTypes DEF Delay
        <3>6. RoundsInv'
            BY <1>1, <3>5 DEF RoundsInv, Delay
        <3> QED BY <1>3, <3>4, <3>6
    <2> QED BY <2>3, <2>4, CalmTypes
<1> QED BY <1>4, <1>5

\* A tick of a calm brings the last stamp, the end of the wait and the end of the calm
\* closer by one.
LEMMA RecoveryTick ==
    ASSUME IInv, RestType, RecoveryInv, Tick PROVE CalmInv' /\ LastInv' /\ RoundsInv'
<1>1. /\ UNCHANGED <<skew, allowed, up, pc>> /\ wait' = wait - 1 /\ wait > 0 /\ pc = "timer"
      /\ requests' = {[r EXCEPT !.sentAt = @ - 1, !.age = @ + 1] : r \in requests}
    BY DEF Tick, Idle
<1>2. BridgeInv /\ CalmInv /\ LastInv /\ RoundsInv
    BY DEF RecoveryInv
<1>3. /\ cache'.calendars = cache.calendars
      /\ cache'.calendarSync = AtMost(cache.calendarSync + 1, StaleAfter + 1)
      /\ cache'.sync = AtMost(cache.sync + 1, StaleAfter + 1)
      /\ cache'.lastSentAt = IF cache.lastSentAt > OldestStamp
                             THEN cache.lastSentAt - 1 ELSE cache.lastSentAt
    BY DEF Tick, IInv, CacheType
<1>4. /\ cache'.calendarSync <= cache.calendarSync + 1 /\ cache'.calendarSync \in Nat
      /\ cache'.sync <= cache.sync + 1 /\ cache'.sync \in Nat
    BY <1>3, CalmTypes, TimesAssumption DEF AtMost
<1>5. /\ calm'.reminders = Longer(calm.reminders) /\ calm'.calendars = Longer(calm.calendars)
    BY DEF Tick
<1>6. /\ calm'.reminders \in Nat /\ calm'.calendars \in Nat
      /\ calm'.reminders <= calm.reminders + 1 /\ calm'.calendars <= calm.calendars + 1
      /\ calm'.calendars <= calm'.reminders
      /\ calm'.reminders > 0 => Agreeing
    <2>1. calm.calendars <= calm.reminders
        BY <1>2 DEF CalmInv
    <2> QED BY <1>5, <2>1, CalmTypes, TimesAssumption DEF Longer, AtMost
<1>7. CalmInv'
    <2>1. calm'.reminders > 0 => Agreeing'
        BY <1>1, <1>6 DEF Agreeing, Allowed
    <2>2. ASSUME NEW t \in requests' PROVE ~ t.awaited /\ calm'.reminders <= t.age
        <3>1. PICK r \in requests : t = [r EXCEPT !.sentAt = @ - 1, !.age = @ + 1]
            BY <1>1
        <3>2. ~ r.awaited /\ calm.reminders <= r.age
            BY <1>1, <1>2 DEF BridgeInv, CalmInv
        <3>3. t.awaited = r.awaited /\ t.age = r.age + 1
            BY <3>1, CalmTypes DEF Request
        <3> QED BY <1>6, <3>2, <3>3, CalmTypes
    <2> QED BY <1>6, <2>1, <2>2 DEF CalmInv
<1>8. LastInv'
    <2>1. cache'.lastSentAt <= MaxAhead \/ cache'.lastSentAt <= OldestStamp
        BY <1>2, <1>3, CalmTypes DEF LastInv
    <2>2. ASSUME calm'.reminders > 0
          PROVE  \/ cache'.lastSentAt < skew
                 \/ calm'.reminders + cache'.lastSentAt <= MaxTransit + MaxAhead
        <3>1. CASE cache.lastSentAt <= OldestStamp
            BY <1>3, <3>1, CalmTypes
        <3>2. CASE cache.lastSentAt > OldestStamp
            <4>1. cache'.lastSentAt = cache.lastSentAt - 1
                BY <1>3, <3>2
            <4>2. CASE calm.reminders = 0
                BY <1>2, <1>6, <2>2, <3>2, <4>1, <4>2, CalmTypes DEF LastInv
            <4>3. CASE calm.reminders > 0
                BY <1>2, <1>6, <4>1, <4>3, CalmTypes DEF LastInv
            <4> QED BY <4>2, <4>3, CalmTypes
        <3> QED BY <3>1, <3>2, CalmTypes
    <2> QED BY <1>1, <2>1, <2>2 DEF LastInv
<1>9. RoundsInv'
    <2>1. /\ wait' \in Nat /\ wait' = wait - 1 /\ wait' < RetryCap /\ wait \in Nat
          /\ Delay \in Int /\ Delay' = Delay
          /\ calm'.reminders > 0 => RetryCap <= Delay
        <3>1. wait' = wait - 1 /\ wait > 0 /\ skew' = skew
            BY <1>1
        <3>2. calm'.reminders > 0 => skew <= MaxAhead
            BY <1>6 DEF Agreeing
        <3>3. /\ skew \in Int /\ wait \in Nat /\ wait <= RetryCap
              /\ MaxTransit \in Nat /\ MaxAhead \in Nat /\ RetryCap \in Nat
            BY CalmTypes
        <3>4. Delay \in Int /\ Delay' = Delay /\ (skew <= MaxAhead => RetryCap <= Delay)
            BY <3>1, <3>3 DEF Delay
        <3> QED BY <3>1, <3>2, <3>3, <3>4
    <2>2. /\ calm.reminders \in Nat /\ calm.calendars \in Nat /\ RetryCap \in Nat
          /\ cache.sync \in Nat /\ cache.calendarSync \in Nat /\ Interval \in Nat
        BY CalmTypes
    <2>3. ASSUME calm'.reminders > 0
          PROVE  cache'.sync + wait' <= Interval \/ calm'.reminders + wait' <= Delay
        <3>1. CASE calm.reminders = 0
            BY <1>6, <2>1, <2>2, <2>3, <3>1
        <3>2. CASE calm.reminders > 0
            <4>1. cache.sync + wait <= Interval \/ calm.reminders + wait <= Delay
                BY <1>2, <3>2 DEF RoundsInv
            <4> QED BY <1>4, <1>6, <2>1, <2>2, <4>1
        <3> QED BY <2>2, <3>1, <3>2
    <2>4. ASSUME calm'.calendars > 0, Calendar # {}
          PROVE  \/ cache'.calendars = Calendar /\ cache'.calendarSync + wait' <= Interval
                 \/ calm'.calendars + wait' <= Delay
        <3>1. CASE calm.calendars = 0
            BY <1>6, <2>1, <2>2, <2>4, <3>1
        <3>2. CASE calm.calendars > 0
            <4>1. \/ cache.calendars = Calendar /\ cache.calendarSync + wait <= Interval
                  \/ calm.calendars + wait <= Delay
                BY <1>2, <2>4, <3>2 DEF RoundsInv
            <4>2. cache'.calendars = cache.calendars
                BY <1>3
            <4> QED BY <1>4, <1>6, <2>1, <2>2, <4>1, <4>2
        <3> QED BY <2>2, <3>1, <3>2
    <2> QED BY <2>1, <2>3, <2>4 DEF RoundsInv
<1> QED BY <1>7, <1>8, <1>9

\* Every step keeps what leads to the recovery.
LEMMA RecoveryNext ==
    IInv /\ IInv' /\ RestType /\ RecoveryInv /\ [Next]_vars => RecoveryInv'
<1> SUFFICES ASSUME IInv, IInv', RestType, RecoveryInv, [Next]_vars PROVE RecoveryInv'
    OBVIOUS
<1> USE DEF bridge, ha, vars
<1>1. BridgeInv' /\ \A t \in requests' : t.age \in Nat
    BY BridgeStep DEF RecoveryInv, IInv, RequestsType, Request
<1>2. CASE \/ ReadFails \/ Timeout \/ Restart \/ Unload
           \/ \E s \in Skews : SetClock(s)
           \/ \E r \in requests : SaveFails(r) \/ Lose(r)
           \/ \E calendars \in SUBSET Calendar : Reconfigure(calendars)
    <2>1. Disturbed /\ UNCHANGED cache
        BY <1>2 DEF ReadFails, Timeout, Restart, Unload, SetClock, SaveFails, Lose, Reconfigure
    <2> QED BY <1>1, <2>1, RecoveryDisturbed
<1>3. ASSUME NEW r \in requests, AcceptInSilence(r) PROVE RecoveryInv'
    <2>1. Disturbed /\ ~ TooFarAhead(r) /\ cache' = Stored(r)
        BY <1>3 DEF AcceptInSilence, Accept
    <2>2. cache'.lastSentAt = r.sentAt
        BY <2>1 DEF Stored, IInv, CacheType
    <2> QED BY <1>1, <2>1, <2>2, RecoveryDisturbed
<1>4. CASE StartRound \/ Tick
    BY <1>1, <1>4, RecoveryStart, RecoveryTick DEF RecoveryInv
<1>5. ASSUME NEW r \in requests, AcceptAndAnswer(r) \/ Refuse(r) PROVE RecoveryInv'
    BY <1>1, <1>5, RecoveryAccept, RecoveryRefuse DEF RecoveryInv
<1>6. CASE Load
    <2>1. /\ ~ up /\ UNCHANGED <<skew, allowed, pc, wait, requests, calm>>
          /\ cache'.lastSentAt = cache.lastSentAt
        BY <1>6 DEF Load, IInv, CacheType
    <2>2. calm.reminders = 0 /\ calm.calendars = 0
        BY <2>1, CalmTypes DEF RecoveryInv, CalmInv, Agreeing
    <2> QED BY <1>1, <2>1, <2>2 DEF RecoveryInv, CalmInv, LastInv, RoundsInv
<1>7. CASE UNCHANGED vars
    BY <1>7 DEF RecoveryInv, BridgeInv, CalmInv, LastInv, RoundsInv, Agreeing, Allowed, Delay
<1> QED BY <1>2, <1>3, <1>4, <1>5, <1>6, <1>7 DEF Next

\* In a calm every round brings the system closer to showing everything again
\* (client.go:72-121, runtime.py:184-195).
THEOREM RecoveryInvariant == Spec => []RecoveryInv
BY RecoveryInit, RecoveryNext, Invariance, RestInvariance, PTL DEF Spec

\* After a disturbance the reminders are shown again within the time of a late snapshot,
\* a clock that was ahead and one wait, and stay so (client.go:72-121, runtime.py:184-195,
\* todo.py:92).
THEOREM RemindersDoRecover == Spec => []RemindersRecover
<1>1. IInv /\ RestType /\ RecoveryInv => RemindersRecover
    <2> SUFFICES ASSUME IInv, RestType, RecoveryInv, calm.reminders = Recovery PROVE TodoShown
        BY DEF RemindersRecover
    <2>1. up /\ skew <= MaxAhead
        BY RecoveryAssumption DEF RecoveryInv, CalmInv, Agreeing
    <2>2. Recovery > Delay
        BY <2>1, CalmTypes, RecoveryAssumption DEF Delay
    <2>3. cache.sync + wait <= Interval
        BY <2>2, CalmTypes, RecoveryAssumption DEF RecoveryInv, RoundsInv, Delay
    <2> QED BY <2>1, <2>3, CalmTypes, TimesAssumption, IntervalAssumption DEF TodoShown
<1> QED BY <1>1, Invariance, RestInvariance, RecoveryInvariant, PTL

\* And all calendars, once every one of them can be read (client.go:189, calendar.py:49).
THEOREM CalendarsDoRecover == Spec => []CalendarsRecover
<1>1. IInv /\ RestType /\ RecoveryInv => CalendarsRecover
    <2> SUFFICES ASSUME IInv, RestType, RecoveryInv, calm.calendars = Recovery
                 PROVE  CalendarsShown = Calendar
        BY DEF CalendarsRecover
    <2>1. cache.calendars \subseteq Calendar
        BY DEF IInv, CacheType
    <2>2. CASE Calendar = {}
        BY <2>1, <2>2 DEF CalendarsShown
    <2>3. CASE Calendar # {}
        <3>1. up /\ skew <= MaxAhead
            BY CalmTypes, RecoveryAssumption DEF RecoveryInv, CalmInv, Agreeing
        <3>2. Recovery > Delay
            BY <3>1, CalmTypes, RecoveryAssumption DEF Delay
        <3>3. cache.calendars = Calendar /\ cache.calendarSync + wait <= Interval
            BY <2>3, <3>2, CalmTypes, RecoveryAssumption DEF RecoveryInv, RoundsInv, Delay
        <3> QED BY <3>1, <3>3, CalmTypes, TimesAssumption, IntervalAssumption
                DEF CalendarsShown
    <2> QED BY <2>2, <2>3
<1> QED BY <1>1, Invariance, RestInvariance, RecoveryInvariant, PTL
================================================================================
