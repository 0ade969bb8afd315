-------------------------- MODULE TransactionRollup --------------------------
(***************************************************************************)
(* The hourly rollup of the transactions table over time: the scheduler of *)
(* each replica of app-auditor rebuilds the trailing window on a timer,    *)
(* backfills the retention period once at its start, and the dashboard     *)
(* reads whole hours from the rollup and the rest of its range from the    *)
(* transactions.                                                           *)
(*                                                                         *)
(* A rebuild aggregates on the read replica of the database, which lags,   *)
(* and afterwards replaces the buckets on the primary. Rebuilds overlap    *)
(* when the lock expires under one of them, and a slow one may put an      *)
(* older aggregate over a newer.                                           *)
(*                                                                         *)
(* A row is the start of its transaction and what is known of it, so that  *)
(* a bucket is the set of rows it was aggregated from; the sums over it    *)
(* are in LiveStats.                                                       *)
(***************************************************************************)
EXTENDS Integers, FiniteSets

CONSTANTS
    Hour,          \* MS_PER_HOUR, in units of the clock
    Day,           \* MS_PER_DAY
    BackfillDays,  \* BACKFILL_DAYS
    MaxDelay,      \* how late an audit message is merged after the transaction started
    MaxLag,        \* how far the read replica falls behind
    MaxRebuild,    \* how long a rebuild takes, from its query to its commit
    MaxGap,        \* longest time between two ticks that rebuild the window
    Replica,       \* replicas of app-auditor
    Start,         \* when the migration runs
    Started,       \* when transactions may start
    MaxTime,       \* bound: the clock
    MaxRows,       \* bound: rows
    MaxFailures,     \* bound: failed ticks and backfills, stops and early expiries together
    NoReplica      \* no one

Window == 3 * Hour    \* WINDOW_MS

(* What the window must cover. The constructor of the scheduler refuses an *)
(* interval longer than the window less an hour; it does not know of the   *)
(* ticks that are missed, of late messages, of the lag and of slow ticks.  *)
ASSUME RollupAssumption ==
    /\ Hour \in Nat \ {0} /\ Day \in Nat \ {0} /\ Day % Hour = 0
    /\ BackfillDays \in Nat \ {0}
    /\ MaxDelay \in Nat /\ MaxLag \in Nat /\ MaxRebuild \in Nat /\ MaxGap \in Nat
    /\ MaxGap + MaxDelay + MaxRebuild + 2 * MaxLag <= Window - Hour
    /\ Started \subseteq 0 .. MaxTime
    /\ Start \in Nat /\ MaxTime \in Nat /\ Start <= MaxTime /\ MaxRows \in Nat /\ MaxFailures \in Nat
    /\ NoReplica \notin Replica

Instant == 0 .. MaxTime
StoredRow == Instant \X {"open", "settled"}

VARIABLES
    now,           \* the clock
    rows,          \* the transactions table
    rollup,        \* the rows each bucket of the rollup was built from, by its hour
    required,      \* backfill_required: a migration has cleared the rollup
    synced,        \* the time up to which the read replica has the primary's changes
    readRows,      \* the three as the read replica has them
    readRollup,
    readRequired,
    refreshed,     \* when a tick last replaced the window
    stage,         \* what each replica does
    query,         \* the statement of reaggregateWindow it is at
    began,         \* when that rebuild computed its window
    windowStart,   \* the window
    windowEnd,
    aggregate,     \* the rows it has read
    today,         \* the day on which its backfill started
    day,           \* the days its backfill has left
    lock,          \* the holder of the lock, or NoReplica
    failures         \* number of failures so far

primary == <<rows, rollup, required>>
replica == <<synced, readRows, readRollup, readRequired>>
rebuild == <<query, began, windowStart, windowEnd, aggregate>>
backfill == <<today, day>>
rollupVars == <<now, primary, replica, refreshed, stage, rebuild, backfill, lock, failures>>

HourOf(t) == (t \div Hour) * Hour
DayOf(t) == (t \div Day) * Day

BucketHour == {HourOf(t) : t \in Instant}

RollupTypeOK ==
    /\ now \in Instant /\ synced \in Instant /\ refreshed \in Instant
    /\ rows \subseteq StoredRow /\ readRows \subseteq StoredRow
    /\ rollup \in [BucketHour -> SUBSET StoredRow] /\ readRollup \in [BucketHour -> SUBSET StoredRow]
    /\ required \in BOOLEAN /\ readRequired \in BOOLEAN
    /\ stage \in [Replica -> {"down", "marker", "populated", "backfill", "ticking", "rolling", "closing"}]
    /\ query \in [Replica -> {"none", "aggregate", "replace"}]
    /\ began \in [Replica -> Instant]
    /\ windowStart \in [Replica -> Int] /\ windowEnd \in [Replica -> Int]
    /\ aggregate \in [Replica -> SUBSET StoredRow]
    /\ today \in [Replica -> Instant] /\ day \in [Replica -> 0 .. BackfillDays]
    /\ lock \in Replica \cup {NoReplica}
    /\ failures \in 0 .. MaxFailures

(* The migration marks the rollup it clears. There are transactions        *)
(* already, and replicas of the release before it may still run.           *)
RollupInit ==
    /\ now = Start /\ required = TRUE
    /\ rows \in {{}} \cup {{<<t, "settled">>} : t \in {t \in Started : t <= Start}}
    /\ rollup = [b \in BucketHour |-> {}]
    /\ synced = Start /\ readRows = rows /\ readRollup = rollup /\ readRequired = required
    /\ refreshed = Start
    /\ stage \in [Replica -> {"down", "ticking"}]
    /\ query = [r \in Replica |-> "none"]
    /\ began = [r \in Replica |-> 0]
    /\ windowStart = [r \in Replica |-> 0] /\ windowEnd = [r \in Replica |-> 0]
    /\ aggregate = [r \in Replica |-> {}]
    /\ today = [r \in Replica |-> 0] /\ day = [r \in Replica |-> 0]
    /\ lock = NoReplica /\ failures = 0

Failure == failures < MaxFailures /\ failures' = failures + 1

(* What is assumed of the time things take: the replica's lag, a rebuild   *)
(* and the gap between two ticks that get through are bounded.             *)
TimePasses ==
    /\ now < MaxTime
    /\ now < synced + MaxLag
    /\ now < refreshed + MaxGap
    /\ \A r \in Replica : query[r] # "none" => now < began[r] + MaxRebuild
    /\ now' = now + 1
    /\ UNCHANGED <<primary, replica, refreshed, stage, rebuild, backfill, lock, failures>>

(* The consumer merges a message about a transaction that started at t; if *)
(* messages came in another order its row had a later start, u.            *)
MergeRow(t) ==
    /\ t <= now /\ now - t <= MaxDelay
    /\ \E u \in Started, s \in {"open", "settled"} :
        LET row == {x \in rows : x[1] \in {t, u}} IN
        /\ t <= u /\ (u = t \/ \A x \in rows : x[1] # t)
        /\ rows' = (rows \ row) \cup {<<t, IF \E x \in row : x[2] = "settled" THEN "settled" ELSE s>>}
    /\ rows' # rows /\ Cardinality(rows') <= MaxRows
    /\ UNCHANGED <<now, rollup, required, replica, refreshed, stage, rebuild, backfill, lock, failures>>

(* The read replica applies what the primary has committed, in its order.  *)
Replicate ==
    /\ synced' = now
    /\ readRows' = rows /\ readRollup' = rollup /\ readRequired' = required
    /\ UNCHANGED <<now, primary, refreshed, stage, rebuild, backfill, lock, failures>>

-----------------------------------------------------------------------------
(* One rebuild. *)

(* The current hour and those before it. *)
computeWindow == [start |-> HourOf(now) + Hour - Window, end |-> HourOf(now) + Hour]

(* reaggregateWindow: the query is sent with the window of the moment;     *)
reaggregateWindow(r, start, end) ==
    /\ query' = [query EXCEPT ![r] = "aggregate"]
    /\ began' = [began EXCEPT ![r] = now]
    /\ windowStart' = [windowStart EXCEPT ![r] = start]
    /\ windowEnd' = [windowEnd EXCEPT ![r] = end]
    /\ UNCHANGED aggregate

(* the read replica answers it;                                            *)
aggregateWindow(r) ==
    /\ query[r] = "aggregate"
    /\ query' = [query EXCEPT ![r] = "replace"]
    /\ aggregate' = [aggregate EXCEPT ![r] =
                        {x \in readRows : windowStart[r] <= x[1] /\ x[1] < windowEnd[r]}]
    /\ UNCHANGED <<now, primary, replica, refreshed, stage, began, windowStart, windowEnd,
                   backfill, lock, failures>>

InBucket(R, b) == {x \in R : HourOf(x[1]) = b}

(* and one transaction on the primary replaces the buckets.                *)
replaceWindow(r) ==
    rollup' = [b \in BucketHour |->
        IF windowStart[r] <= b /\ b < windowEnd[r] THEN InBucket(aggregate[r], b) ELSE rollup[b]]

EndRebuild(r) ==
    /\ query' = [query EXCEPT ![r] = "none"]
    /\ began' = [began EXCEPT ![r] = 0]
    /\ windowStart' = [windowStart EXCEPT ![r] = 0]
    /\ windowEnd' = [windowEnd EXCEPT ![r] = 0]
    /\ aggregate' = [aggregate EXCEPT ![r] = {}]

-----------------------------------------------------------------------------
(* A tick: it takes the lock, rebuilds the window, reseeds the live        *)
(* counters and releases the lock. A tick that does not get the lock does  *)
(* nothing, and nor does one that finds the one before it running.         *)

acquire(r) == lock = NoReplica /\ lock' = r

MoveTo(r, s) == stage' = [stage EXCEPT ![r] = s]

Tick(r) ==
    /\ stage[r] = "ticking"
    /\ acquire(r)
    /\ MoveTo(r, "rolling")
    /\ UNCHANGED <<now, primary, replica, refreshed, rebuild, backfill, failures>>

Roll(r) ==
    /\ stage[r] = "rolling" /\ query[r] = "none"
    /\ reaggregateWindow(r, computeWindow.start, computeWindow.end)
    /\ UNCHANGED <<now, primary, replica, refreshed, stage, backfill, lock, failures>>

Rolled(r) ==
    /\ stage[r] = "rolling" /\ query[r] = "replace"
    /\ replaceWindow(r)
    /\ EndRebuild(r)
    /\ refreshed' = now
    /\ MoveTo(r, "closing")
    /\ UNCHANGED <<now, rows, required, replica, backfill, lock, failures>>

(* A statement fails. *)
TickFails(r) ==
    /\ stage[r] = "rolling"
    /\ Failure
    /\ EndRebuild(r)
    /\ MoveTo(r, "closing")
    /\ UNCHANGED <<now, primary, replica, refreshed, backfill, lock>>

(* The lock is released in the end, if it is still held.                   *)
release(r) ==
    /\ stage[r] = "closing"
    /\ lock' = IF lock = r THEN NoReplica ELSE lock
    /\ MoveTo(r, "ticking")
    /\ UNCHANGED <<now, primary, replica, refreshed, rebuild, backfill, failures>>

-----------------------------------------------------------------------------
(* The start of a replica. *)

(* bootstrap: without the lock the timer starts at once.                   *)
Bootstrap(r) ==
    /\ stage[r] = "down"
    /\ \/ acquire(r) /\ MoveTo(r, "marker")
       \/ MoveTo(r, "ticking") /\ UNCHANGED lock
    /\ UNCHANGED <<now, primary, replica, refreshed, rebuild, backfill, failures>>

StartBackfill(r) ==
    /\ MoveTo(r, "backfill")
    /\ day' = [day EXCEPT ![r] = BackfillDays]
    /\ today' = [today EXCEPT ![r] = DayOf(now)]

(* The marker is read on the primary;                                      *)
isBackfillRequired(r) ==
    /\ stage[r] = "marker"
    /\ IF required THEN StartBackfill(r) ELSE MoveTo(r, "populated") /\ UNCHANGED backfill
    /\ UNCHANGED <<now, primary, replica, refreshed, rebuild, lock, failures>>

(* whether there is anything in the rollup, on the read replica.           *)
getLastUpdatedAt(r) ==
    /\ stage[r] = "populated"
    /\ IF \A b \in BucketHour : readRollup[b] = {}
       THEN StartBackfill(r)
       ELSE MoveTo(r, "closing") /\ UNCHANGED backfill
    /\ UNCHANGED <<now, primary, replica, refreshed, rebuild, lock, failures>>

(* The days are rebuilt one by one, the oldest first. *)
BackfillDay(r) ==
    LET start == today[r] - (day[r] - 1) * Day IN
    /\ stage[r] = "backfill" /\ day[r] > 0 /\ query[r] = "none"
    /\ reaggregateWindow(r, start, start + Day)
    /\ UNCHANGED <<now, primary, replica, refreshed, stage, backfill, lock, failures>>

BackfilledDay(r) ==
    /\ stage[r] = "backfill" /\ day[r] > 0 /\ query[r] = "replace"
    /\ replaceWindow(r)
    /\ EndRebuild(r)
    /\ day' = [day EXCEPT ![r] = day[r] - 1]
    /\ UNCHANGED <<now, rows, required, replica, refreshed, stage, today, lock, failures>>

EndBackfill(r) == day' = [day EXCEPT ![r] = 0] /\ today' = [today EXCEPT ![r] = 0]

(* Mutant: the marker is cleared before the days are rebuilt. *)
BackfillCompleteEarly(r) ==
    /\ stage[r] = "backfill" /\ query[r] = "none"
    /\ required' = FALSE
    /\ EndBackfill(r)
    /\ MoveTo(r, "closing")
    /\ UNCHANGED <<now, rows, rollup, replica, refreshed, rebuild, lock, failures>>

markBackfillComplete(r) ==
    /\ stage[r] = "backfill" /\ day[r] = 0 /\ query[r] = "none"
    /\ required' = FALSE
    /\ EndBackfill(r)
    /\ MoveTo(r, "closing")
    /\ UNCHANGED <<now, rows, rollup, replica, refreshed, rebuild, lock, failures>>

(* A statement of the backfill fails: it is given up and the timer starts. *)
BackfillFails(r) ==
    /\ stage[r] \in {"marker", "populated", "backfill"}
    /\ Failure
    /\ EndRebuild(r)
    /\ EndBackfill(r)
    /\ MoveTo(r, "closing")
    /\ UNCHANGED <<now, primary, replica, refreshed, lock>>

(* A replica is stopped. A lock it held stays.                             *)
Stop(r) ==
    /\ stage[r] # "down"
    /\ Failure
    /\ EndRebuild(r)
    /\ EndBackfill(r)
    /\ MoveTo(r, "down")
    /\ UNCHANGED <<now, primary, replica, refreshed, lock>>

LockExpires ==
    /\ lock # NoReplica /\ lock' = NoReplica
    /\ IF stage[lock] \in {"down", "ticking"} THEN UNCHANGED failures ELSE Failure
    /\ UNCHANGED <<now, primary, replica, refreshed, stage, rebuild, backfill>>

Run(r) ==
    \/ Tick(r) \/ Roll(r) \/ aggregateWindow(r) \/ Rolled(r) \/ TickFails(r) \/ release(r)
    \/ Bootstrap(r) \/ isBackfillRequired(r) \/ getLastUpdatedAt(r)
    \/ BackfillDay(r) \/ BackfilledDay(r) \/ markBackfillComplete(r) \/ BackfillFails(r)

RollupNext ==
    \/ TimePasses \/ Replicate \/ LockExpires
    \/ \E t \in Started : MergeRow(t)
    \/ \E r \in Replica : Run(r) \/ Stop(r)

RollupSpec == RollupInit /\ [][RollupNext]_rollupVars

-----------------------------------------------------------------------------
(* The dashboard, which reads the read replica in one statement. *)

Between(start, end) == {x \in readRows : start <= x[1] /\ x[1] < end}

(* The whole hours of [from, to). *)
FullStart(from) == HourOf(from + Hour - 1)
FullEnd(to) == HourOf(to)

(* rangeSource: the buckets of the whole hours and the rows of the rest.   *)
rangeSource(from, to) ==
    IF FullStart(from) < FullEnd(to)
    THEN {readRollup[b] : b \in {b \in BucketHour : FullStart(from) <= b /\ b < FullEnd(to)}}
         \cup {Between(from, FullStart(from)), Between(FullEnd(to), to)}
    ELSE {Between(from, to)}

(* How far back the rollup can be trusted: to the migration, and once the  *)
(* backfill is done to the retention period.                               *)
Horizon == IF readRequired THEN HourOf(Start) ELSE DayOf(now) - (BackfillDays - 1) * Day

(* A dashboard range that ends before the window shows every transaction   *)
(* of the range, in its last state, and counts it once: each bucket was    *)
(* last rebuilt from what is in the table for good, although rebuilds read *)
(* a replica that lags, overlap, and put older aggregates over newer, and  *)
(* the parts of the range that come from the rollup and from the table are *)
(* disjoint.                                                               *)
HistoryExact ==
    \A from, to \in Instant :
        from < to /\ Horizon <= from /\ to <= computeWindow.start
        => /\ UNION rangeSource(from, to) = {x \in rows : from <= x[1] /\ x[1] < to}
           /\ \A p, q \in rangeSource(from, to) : p # q => p \cap q = {}

-----------------------------------------------------------------------------
(* Why the history is exact. *)

Final(b, t) == b + Hour + MaxDelay <= t

(* The replica lags by at most MaxLag, and what no message could change    *)
(* any more when it was last synced it has for good.                       *)
ReplicaInv ==
    /\ synced <= now /\ now <= synced + MaxLag
    /\ \A b \in BucketHour : Final(b, synced) => InBucket(readRows, b) = InBucket(rows, b)

(* A rebuild that has read its window has the buckets that were final      *)
(* MaxLag before it began.                                                 *)
RebuildInv ==
    \A r \in Replica : query[r] # "none" =>
        /\ began[r] <= now /\ now <= began[r] + MaxRebuild
        /\ stage[r] = "rolling" => /\ windowStart[r] = HourOf(began[r]) + Hour - Window
                                   /\ windowEnd[r] = HourOf(began[r]) + Hour
        /\ stage[r] = "backfill" => /\ day[r] > 0
                                    /\ windowStart[r] = today[r] - (day[r] - 1) * Day
                                    /\ windowEnd[r] = windowStart[r] + Day
        /\ stage[r] \in {"rolling", "backfill"}
        /\ query[r] = "replace" =>
            \A b \in BucketHour :
                windowStart[r] <= b /\ b < windowEnd[r] /\ Final(b, began[r] - MaxLag)
                => InBucket(aggregate[r], b) = InBucket(rows, b)

(* A bucket that is final that long before a rebuild began, however slow   *)
(* it was, at time t.                                                      *)
Settled(b, t) == Final(b, t - MaxLag - MaxRebuild)

Current(b) == rollup[b] = InBucket(rows, b)
CurrentSince(start) == \A b \in BucketHour : start <= b /\ Settled(b, refreshed) => Current(b)

(* A backfill has rebuilt the days before the one it is at, and the day it *)
(* started on is not before the migration.                                 *)
BackfillUnderWay(r) ==
    /\ DayOf(today[r]) = today[r] /\ today[r] <= DayOf(now) /\ Start < today[r] + Day
    /\ \A b \in BucketHour :
        /\ today[r] - (BackfillDays - 1) * Day <= b /\ b < today[r] - (day[r] - 1) * Day
        /\ Settled(b, refreshed)
        => Current(b)

PrimaryInv ==
    /\ Start <= refreshed /\ refreshed <= now /\ now <= refreshed + MaxGap
    /\ CurrentSince(HourOf(Start))
    /\ ~required => CurrentSince(DayOf(now) - (BackfillDays - 1) * Day)
    /\ \A r \in Replica : stage[r] = "backfill" => BackfillUnderWay(r)

(* The replica's copy of a bucket is current once the last tick before it  *)
(* was synced must have rebuilt it.                                        *)
ReadCurrentSince(start) ==
    \A b \in BucketHour :
        start <= b /\ Settled(b, synced - MaxGap) => readRollup[b] = InBucket(rows, b)

ReadInv ==
    /\ ReadCurrentSince(HourOf(Start))
    /\ ~readRequired => ReadCurrentSince(DayOf(synced) - (BackfillDays - 1) * Day)

HistoryInv == RollupTypeOK /\ ReplicaInv /\ RebuildInv /\ PrimaryInv /\ ReadInv
=============================================================================
