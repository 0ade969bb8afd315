------------------------------ MODULE LiveStats ------------------------------
(***************************************************************************)
(* The dashboard's two tiers of statistics in app-auditor: the live        *)
(* counters in Redis, to which the consumer of every replica applies each  *)
(* audit message, and the hourly rollup, which one replica at a time       *)
(* re-aggregates from the transactions table and from which it then        *)
(* overwrites the live counters.                                           *)
(*                                                                         *)
(* All transactions started today and inside the rollup's window: the      *)
(* window itself is the subject of TransactionRollup. A bucket is reduced  *)
(* to the pair of FSPs it is kept for, a row to its payee and its flags.   *)
(***************************************************************************)
EXTENDS Integers, FiniteSets, FiniteSetsExt

CONSTANTS
    Event,       \* audit messages
    Txn,         \* transactions (correlation ids)
    txn,         \* the transaction each message is about
    payer,       \* the payer FSP of each transaction
    payee,       \* the payee FSP named in each message; Unresolved if none is
    identified,  \* whether the message carries the payee's id
    sets,        \* the flags each message sets in the row
    Resolved,    \* messages that resolve a dispute
    FSP,
    Unresolved,  \* the empty payee FSP of a request by party id only
    Flag,        \* flags and error columns of a row that are counted
    Worker,      \* consumers of the audit stream, one in each replica of app-auditor
    Replica,     \* schedulers of the rollup, one in each replica
    Second,      \* clock readings to a second
    MaxClock,    \* bound: the clock
    MaxFaults,   \* bound: failures, expiries and deaths together
    None         \* NULL, or no one

Payee == FSP \cup {Unresolved}
Hub == "hub"
Scope == Payee \cup {Hub}

ASSUME ConstantsAssumption ==
    /\ txn \in [Event -> Txn]
    /\ payer \in [Txn -> FSP]
    /\ payee \in [Event -> Payee]
    /\ identified \in [Event -> BOOLEAN]
    /\ sets \in [Event -> SUBSET Flag]
    /\ Resolved \subseteq Event
    /\ {"err", "disp"} \subseteq Flag /\ {"txn", "ok"} \cap Flag = {}
    /\ IsFiniteSet(Txn) /\ IsFiniteSet(FSP)
    /\ Second \in Nat \ {0} /\ MaxClock \in Nat /\ MaxFaults \in Nat
    /\ None \notin Replica \cup Event

(* A LiveVector. The sum of latencies is left out: it is added and taken   *)
(* away like the counts.                                                   *)
Field == {"txn", "ok"} \cup Flag
Vector == [Field -> Int]
Zero == [f \in Field |-> 0]

Add(v, w) == [f \in Field |-> v[f] + w[f]]
diff(previous, next) == [f \in Field |-> next[f] - previous[f]]

-----------------------------------------------------------------------------
VARIABLES
    clock,       \* the clock of all replicas
    queued,      \* messages in the audit stream
    row,         \* the transactions table; flags is None where there is no row
    rollup,      \* the transaction_hourly_rollup table, by pair of FSPs
    readRow,     \* both tables as the read replica has them
    readRollup,
    counter,     \* the counter hash of each scope
    marker,      \* the marker of each transaction; rank is None if it has none
    at,          \* the message each consumer holds, or None
    pc,          \* where the consumer is in it
    stamp,       \* the time its upsert puts in updated_at
    seen,        \* the record its writer has read
    spc,         \* where the scheduler is in its tick
    aggregate,   \* what it has aggregated
    scope,       \* the scope it is reconciling
    totals,      \* the totals read for that scope
    todo,        \* the FSPs it has yet to reconcile
    lock,        \* the replica whose token is in the lock, or None
    faults       \* number of failures so far

db == <<row, rollup>>
standby == <<readRow, readRollup>>
redis == <<counter, marker>>
consumer == <<queued, at, pc, stamp, seen>>
scheduler == <<spc, aggregate, scope, totals, todo, lock>>
vars == <<clock, db, standby, redis, consumer, scheduler, faults>>

NoRow == [payee |-> Unresolved, identified |-> FALSE, flags |-> None, updatedAt |-> 0]
Exists(r) == r.flags # None

Legs(t, r) == {payer[t], r.payee}
InScope(t, r, s) == s = Hub \/ s \in Legs(t, r)

Bucket == FSP \X Payee
NoRollup == [b \in Bucket |-> Zero]
NoMarker == [vector |-> Zero, rank |-> None]

Init ==
    /\ clock = 0
    /\ queued = Event
    /\ row = [t \in Txn |-> NoRow] /\ readRow = row
    /\ rollup = NoRollup /\ readRollup = rollup
    /\ counter = [s \in Scope |-> Zero]
    /\ marker = [t \in Txn |-> NoMarker]
    /\ at = [w \in Worker |-> None]
    /\ pc = [w \in Worker |-> "idle"]
    /\ stamp = [w \in Worker |-> 0]
    /\ seen = [w \in Worker |-> NoRow]
    /\ spc = [r \in Replica |-> "idle"]
    /\ aggregate = [r \in Replica |-> NoRollup]
    /\ scope = [r \in Replica |-> Hub]
    /\ totals = [r \in Replica |-> Zero]
    /\ todo = [r \in Replica |-> {}]
    /\ lock = None
    /\ faults = 0

Fault == faults < MaxFaults /\ faults' = faults + 1

(* The clock is read at a time not before the last reading. *)
Reading == clock .. MaxClock

(* The read replica catches up with the primary. *)
Replicate ==
    /\ standby # db
    /\ readRow' = row /\ readRollup' = rollup
    /\ UNCHANGED <<clock, db, redis, consumer, scheduler, faults>>

-----------------------------------------------------------------------------
(* The live writer. *)

(* What a row contributes to the counters. *)
classify(r) ==
    [f \in Field |-> CASE f = "txn" -> 1
                       [] f = "ok" -> IF "err" \in r.flags THEN 0 ELSE 1
                       [] OTHER -> IF f \in r.flags THEN 1 ELSE 0]

(* What the upsert of message e at time now makes of a row. *)
upsert(r, e, now) ==
    [payee |-> IF r.identified /\ ~identified[e] THEN r.payee ELSE payee[e],
     identified |-> r.identified \/ identified[e],
     flags |-> sets[e] \cup (IF Exists(r) THEN r.flags ELSE {}),
     updatedAt |-> now]

(* MySQL's NOW() has no fraction of a second. *)
Now(time) == (time \div Second) * Second

(* The resolution of a dispute changes no row if there is none. *)
resolveDispute(r, now) ==
    IF Exists(r) THEN [r EXCEPT !.flags = @ \ {"disp"}, !.updatedAt = now] ELSE r

(* A consumer takes a message; its upsert reads the clock first. *)
Consume(w) ==
    /\ pc[w] = "idle"
    /\ \E e \in queued, now \in Reading :
        /\ queued' = queued \ {e}
        /\ at' = [at EXCEPT ![w] = e]
        /\ stamp' = [stamp EXCEPT ![w] = now]
        /\ clock' = now
    /\ pc' = [pc EXCEPT ![w] = "store"]
    /\ UNCHANGED <<db, standby, redis, seen, scheduler, faults>>

(* The statement is executed. *)
Store(w) ==
    /\ pc[w] = "store"
    /\ \/ /\ at[w] \in Resolved
          /\ \E time \in Reading :
                /\ row' = [row EXCEPT ![txn[at[w]]] = resolveDispute(@, Now(time))]
                /\ clock' = time
       \/ /\ at[w] \notin Resolved
          /\ row' = [row EXCEPT ![txn[at[w]]] = upsert(@, at[w], stamp[w])]
          /\ UNCHANGED clock
    /\ pc' = [pc EXCEPT ![w] = "stored"]
    /\ UNCHANGED <<rollup, standby, redis, queued, at, stamp, seen, scheduler, faults>>

Settle(w) ==
    /\ pc' = [pc EXCEPT ![w] = "idle"]
    /\ at' = [at EXCEPT ![w] = None]
    /\ stamp' = [stamp EXCEPT ![w] = 0]
    /\ seen' = [seen EXCEPT ![w] = NoRow]
    /\ UNCHANGED queued

(* onTransactionEvent reads the merged row from the read replica, and      *)
(* gives up if it is not there.                                            *)
FindLiveClassification(w) ==
    LET r == readRow[txn[at[w]]] IN
    /\ pc[w] = "stored"
    /\ \/ /\ Exists(r)
          /\ seen' = [seen EXCEPT ![w] = r]
          /\ pc' = [pc EXCEPT ![w] = "apply"]
          /\ UNCHANGED <<queued, at, stamp>>
       \/ ~Exists(r) /\ Settle(w)
    /\ UNCHANGED <<clock, db, standby, redis, scheduler, faults>>

(* APPLY_EVENT_LUA: one atomic step of Redis. *)
ApplyEvent(t, r) ==
    IF marker[t].rank # None /\ r.updatedAt < marker[t].rank THEN UNCHANGED redis
    ELSE /\ counter' = [s \in Scope |->
                IF InScope(t, r, s)
                THEN Add(counter[s], diff(marker[t].vector, classify(r)))
                ELSE counter[s]]
         /\ marker' = [marker EXCEPT ![t] = [vector |-> classify(r), rank |-> r.updatedAt]]

(* The event is applied, or Redis is down and it is not; in both cases the *)
(* message is acknowledged.                                                *)
Apply(w) ==
    /\ pc[w] = "apply"
    /\ \/ ApplyEvent(txn[at[w]], seen[w]) /\ UNCHANGED faults
       \/ Fault /\ UNCHANGED redis
    /\ Settle(w)
    /\ UNCHANGED <<clock, db, standby, scheduler>>

(* A marker outlives its TTL, and a later message of the transaction is    *)
(* counted as its first.                                                   *)
MarkerExpires(t) ==
    /\ marker[t].rank # None
    /\ Fault
    /\ marker' = [marker EXCEPT ![t] = NoMarker]
    /\ UNCHANGED <<clock, db, standby, counter, consumer, scheduler>>

-----------------------------------------------------------------------------
(* The scheduler. *)

(* Mutant: release() deletes the lock whoever holds it. *)
releaseAny(r) == lock' = None

(* RELEASE_SCRIPT: only the own token is deleted. *)
release(r) == lock' = IF lock = r THEN None ELSE lock

SumOver(S, vector(_)) ==
    MapThenFoldSet(Add, Zero, vector, LAMBDA T : CHOOSE x \in T : TRUE, S)

SumRows(rows, ts) == SumOver(ts, LAMBDA t : classify(rows[t]))

(* GROUP BY of the rows the read replica has. *)
AggregateOf(rows) ==
    [b \in Bucket |->
        SumRows(rows, {t \in Txn : Exists(rows[t]) /\ payer[t] = b[1] /\ rows[t].payee = b[2]})]

BucketsOf(s) == {b \in Bucket : s = Hub \/ s \in {b[1], b[2]}}

SumBuckets(table, bs) == SumOver(bs, LAMBDA b : table[b])

(* (payer OR payee): a bucket of transfers within one FSP is summed once.  *)
getLiveTotals(s) == SumBuckets(readRollup, BucketsOf(s))

(* Mutant: only FSPs that pay somebody else are active. *)
ActivePayers == {p \in Payee : \E b \in Bucket : b[1] = p /\ b[2] # p /\ readRollup[b].txn > 0}

getActiveFsps == {p \in Payee : \E b \in BucketsOf(p) : readRollup[b].txn > 0}

(* A tick starts with the lock; if another replica holds it, it ends.      *)
Tick(r) ==
    /\ spc[r] = "idle" /\ lock = None
    /\ lock' = r
    /\ spc' = [spc EXCEPT ![r] = "aggregate"]
    /\ UNCHANGED <<clock, db, standby, redis, consumer, aggregate, scope, totals, todo, faults>>

AggregateWindow(r) ==
    /\ spc[r] = "aggregate"
    /\ aggregate' = [aggregate EXCEPT ![r] = AggregateOf(readRow)]
    /\ spc' = [spc EXCEPT ![r] = "replace"]
    /\ UNCHANGED <<clock, db, standby, redis, consumer, scope, totals, todo, lock, faults>>

(* The window is deleted and inserted in one transaction of the primary.   *)
ReplaceWindow(r) ==
    /\ spc[r] = "replace"
    /\ rollup' = aggregate[r]
    /\ aggregate' = [aggregate EXCEPT ![r] = NoRollup]
    /\ spc' = [spc EXCEPT ![r] = "hub"]
    /\ UNCHANGED <<clock, row, standby, redis, consumer, scope, totals, todo, lock, faults>>

(* reconcileLive, one scope at a time, the hub first and then the FSPs of  *)
(* the rollup: the totals of the scope are read, and its counters are then *)
(* overwritten with them unless Redis is down.                             *)
ReadTotals(r) ==
    /\ \/ spc[r] = "hub" /\ scope' = [scope EXCEPT ![r] = Hub] /\ UNCHANGED todo
       \/ /\ spc[r] = "fsps"
          /\ \E p \in todo[r] :
                /\ scope' = [scope EXCEPT ![r] = p]
                /\ todo' = [todo EXCEPT ![r] = @ \ {p}]
    /\ totals' = [totals EXCEPT ![r] = getLiveTotals(scope'[r])]
    /\ spc' = [spc EXCEPT ![r] = "reseed"]
    /\ UNCHANGED <<clock, db, standby, redis, consumer, aggregate, lock, faults>>

ReseedScope(r) ==
    /\ spc[r] = "reseed"
    /\ \/ counter' = [counter EXCEPT ![scope[r]] = totals[r]] /\ UNCHANGED faults
       \/ Fault /\ UNCHANGED counter
    /\ totals' = [totals EXCEPT ![r] = Zero]
    /\ spc' = [spc EXCEPT ![r] = IF scope[r] = Hub THEN "active" ELSE "fsps"]
    /\ UNCHANGED <<clock, db, standby, marker, consumer, aggregate, scope, todo, lock>>

GetActiveFsps(r) ==
    /\ spc[r] = "active"
    /\ todo' = [todo EXCEPT ![r] = getActiveFsps]
    /\ spc' = [spc EXCEPT ![r] = "fsps"]
    /\ UNCHANGED <<clock, db, standby, redis, consumer, aggregate, scope, totals, lock, faults>>

Idle(r) ==
    /\ spc' = [spc EXCEPT ![r] = "idle"]
    /\ aggregate' = [aggregate EXCEPT ![r] = NoRollup]
    /\ scope' = [scope EXCEPT ![r] = Hub]
    /\ totals' = [totals EXCEPT ![r] = Zero]
    /\ todo' = [todo EXCEPT ![r] = {}]
    /\ UNCHANGED <<clock, db, standby, redis, consumer>>

TickDone(r) == spc[r] = "fsps" /\ todo[r] = {} /\ Idle(r) /\ release(r) /\ UNCHANGED faults

(* A query fails: the rest of the tick, or of the reconciliation, is given *)
(* up and the lock released.                                               *)
TickFails(r) == spc[r] # "idle" /\ Fault /\ Idle(r) /\ release(r)

(* The TTL runs out: always once the holder is gone, and on a slow holder. *)
LockExpires ==
    /\ lock # None
    /\ \/ spc[lock] = "idle" /\ UNCHANGED faults
       \/ spc[lock] # "idle" /\ Fault
    /\ lock' = None
    /\ UNCHANGED <<clock, db, standby, redis, consumer, spc, aggregate, scope, totals, todo>>

(* A replica dies and restarts. Its message is delivered again; its lock   *)
(* stays until the TTL runs out.                                           *)
CrashConsumer(w) ==
    /\ at[w] # None
    /\ Fault
    /\ queued' = queued \cup {at[w]}
    /\ at' = [at EXCEPT ![w] = None]
    /\ pc' = [pc EXCEPT ![w] = "idle"]
    /\ stamp' = [stamp EXCEPT ![w] = 0]
    /\ seen' = [seen EXCEPT ![w] = NoRow]
    /\ UNCHANGED <<clock, db, standby, redis, scheduler>>

CrashScheduler(r) == spc[r] # "idle" /\ Fault /\ Idle(r) /\ UNCHANGED lock

-----------------------------------------------------------------------------
OnMessage(w) == Consume(w) \/ Store(w) \/ FindLiveClassification(w) \/ Apply(w)

RunTick(r) ==
    \/ Tick(r) \/ AggregateWindow(r) \/ ReplaceWindow(r)
    \/ ReadTotals(r) \/ ReseedScope(r) \/ GetActiveFsps(r) \/ TickDone(r)

Next ==
    \/ Replicate \/ LockExpires
    \/ \E t \in Txn : MarkerExpires(t)
    \/ \E w \in Worker : OnMessage(w) \/ CrashConsumer(w)
    \/ \E r \in Replica : RunTick(r) \/ TickFails(r) \/ CrashScheduler(r)

Spec == Init /\ [][Next]_vars

(* The read replica keeps up, a TTL runs out, consumers go on, and the     *)
(* timer of some replica keeps ticking.                                    *)
Fairness ==
    /\ WF_vars(Replicate) /\ WF_vars(LockExpires)
    /\ \A w \in Worker : WF_vars(OnMessage(w))
    /\ WF_vars(\E r \in Replica : RunTick(r))

FairSpec == Spec /\ Fairness

-----------------------------------------------------------------------------
Truth(s) == SumRows(row, {t \in Txn : Exists(row[t]) /\ InScope(t, row[t], s)})

(* Whatever is lost, applied twice, applied out of order, reseeded from    *)
(* old totals or aggregated by two replicas at once, the counters of the   *)
(* hub and of every FSP with a transaction come to agree with the          *)
(* transactions and stay so once the messages stop ("Any miscount is       *)
(* healed by the 5-minute reconciliation", LiveStatsWriter).               *)
HealedEventually ==
    <>[](\A s \in Scope :
            (s = Hub \/ \E t \in Txn : Exists(row[t]) /\ s \in Legs(t, row[t]))
            => counter[s] = Truth(s))

(* A replica in the middle of its tick loses the lock only to the TTL:     *)
(* a tick that outlived its own lock does not release that of the next.    *)
LockKept ==
    [][\A r \in Replica :
        lock = r /\ spc[r] # "idle" /\ lock' # r => lock' = None /\ (spc'[r] = "idle" \/ spc' = spc)]_vars
=============================================================================
