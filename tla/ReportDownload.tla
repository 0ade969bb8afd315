---------------------------- MODULE ReportDownload ----------------------------
(***************************************************************************)
(* Report downloads: the portal inserts a PENDING row, and the workers of  *)
(* the report-worker replicas claim it, generate the file, upload it to S3 *)
(* and mark the row READY or FAILED. A heartbeat keeps a RUNNING row       *)
(* fresh; every dispatch fails the rows that are stale, whose worker is    *)
(* taken for dead.                                                         *)
(*                                                                         *)
(* A worker is one call of processNext(). Time is counted in ticks.        *)
(***************************************************************************)
EXTENDS Integers, Sequences, FiniteSets

CONSTANTS
    Request,            \* report requests
    Replica,            \* instances of the report worker
    Slot,               \* calls of processNext() of a replica
    Poll,               \* calls of dispatch() of a replica, which may overlap
    MaxConcurrent,      \* settings.maxConcurrent
    StaleTtl,           \* settings.staleRunningTtlMs, in ticks
    HeartbeatInterval,  \* interval of the heartbeat, in ticks
    None,               \* no request
    MaxFaults           \* bound: failing calls, deaths and stops together

ASSUME ConstantsAssumption ==
    /\ None \notin Request
    /\ IsFiniteSet(Request) /\ IsFiniteSet(Slot)
    /\ MaxConcurrent \in Nat /\ StaleTtl \in Nat /\ HeartbeatInterval \in Nat
    /\ MaxFaults \in Nat

(* The heartbeat is the smaller of a minute and a third of the TTL, but at *)
(* least a second.                                                         *)
ASSUME HeartbeatAssumption == HeartbeatInterval <= StaleTtl

Worker == Replica \X Slot
Dispatch == Replica \X Poll

VARIABLES
    status,   \* status of each row; NONE before it is inserted
    created,  \* the requests in the order of createdAt
    age,      \* ticks since updatedAt of a RUNNING row
    files,    \* requests whose report is in the bucket
    at,       \* where each dispatch is
    running,  \* runningCount, as each dispatch has read it
    pc,       \* where each worker is
    job,      \* the request each worker has found or claimed, or None
    beat,     \* ticks since each worker's heartbeat
    stopped,  \* replicas that are shutting down
    late,     \* requests of which a heartbeat has failed
    faults    \* number of failures so far

vars == <<status, created, age, files, at, running, pc, job, beat, stopped, late, faults>>

rows == <<status, created, age>>
workers == <<pc, job, beat>>
dispatches == <<at, running>>

(* The steps of processRequest(), during which the heartbeat runs. *)
Processing == {"generate", "upload", "markReady", "markFailed"}

(* The type of the state. *)
TypeOK ==
    /\ status \in [Request -> {"NONE", "PENDING", "RUNNING", "READY", "FAILED"}]
    /\ created \in Seq(Request)
    /\ age \in [Request -> 0 .. StaleTtl + 1]
    /\ files \subseteq Request
    /\ at \in [Dispatch -> {"idle", "recover", "count", "start"}]
    /\ running \in [Dispatch -> Nat]
    /\ pc \in [Worker -> {"free", "find", "claim"} \cup Processing]
    /\ job \in [Worker -> Request \cup {None}]
    /\ beat \in [Worker -> 0 .. HeartbeatInterval]
    /\ stopped \subseteq Replica
    /\ late \subseteq Request
    /\ faults \in Nat

Init ==
    /\ status = [r \in Request |-> "NONE"]
    /\ created = <<>>
    /\ age = [r \in Request |-> 0]
    /\ files = {}
    /\ at = [d \in Dispatch |-> "idle"]
    /\ running = [d \in Dispatch |-> 0]
    /\ pc = [w \in Worker |-> "free"]
    /\ job = [w \in Worker |-> None]
    /\ beat = [w \in Worker |-> 0]
    /\ stopped = {}
    /\ late = {}
    /\ faults = 0

Fault == faults < MaxFaults /\ faults' = faults + 1
NoFault == UNCHANGED faults

-----------------------------------------------------------------------------
(* The portal inserts the request with its parameters in one transaction. *)
createPending(r) ==
    /\ status[r] = "NONE"
    /\ status' = [status EXCEPT ![r] = "PENDING"]
    /\ created' = Append(created, r)
    /\ UNCHANGED <<age, files, dispatches, workers, stopped, late>>
    /\ NoFault

-----------------------------------------------------------------------------
(* dispatch(), on the poll timer, whether or not the last one has ended. *)
dispatch(d) ==
    /\ at[d] = "idle"
    /\ d[1] \notin stopped
    /\ at' = [at EXCEPT ![d] = "recover"]
    /\ UNCHANGED <<rows, files, running, workers, stopped, late>>
    /\ NoFault

Stale(r) == status[r] = "RUNNING" /\ age[r] > StaleTtl

failStaleRunning ==
    status' = [r \in Request |-> IF Stale(r) THEN "FAILED" ELSE status[r]]

(* Mutant: nothing is recovered. *)
recoverNothing(d) ==
    /\ at[d] = "recover"
    /\ at' = [at EXCEPT ![d] = "count"]
    /\ UNCHANGED <<rows, files, running, workers, stopped, late>>
    /\ NoFault

recoverStaleRunning(d) ==
    /\ at[d] = "recover"
    /\ failStaleRunning
    /\ at' = [at EXCEPT ![d] = "count"]
    /\ UNCHANGED <<created, age, files, running, workers, stopped, late>>
    /\ NoFault

FreshRunning == {r \in Request : status[r] = "RUNNING" /\ ~Stale(r)}

(* The count comes from the read connection, which may lag. *)
countFreshRunning(d) ==
    /\ at[d] = "count"
    /\ \/ /\ running' = [running EXCEPT ![d] = Cardinality(FreshRunning)]
          /\ NoFault
       \/ /\ \E n \in 0 .. Len(created) : running' = [running EXCEPT ![d] = n]
          /\ Fault
    /\ at' = [at EXCEPT ![d] = "start"]
    /\ UNCHANGED <<rows, files, workers, stopped, late>>

(* safeDispatch() ends a dispatch that fails. *)
DispatchFails(d) ==
    /\ at[d] \in {"recover", "count"}
    /\ at' = [at EXCEPT ![d] = "idle"]
    /\ \/ at[d] = "recover" /\ failStaleRunning
       \/ UNCHANGED status
    /\ UNCHANGED <<created, age, files, running, workers, stopped, late>>
    /\ Fault

Active(p) == {s \in Slot : pc[<<p, s>>] # "free"}

(* availableSlots: the replica's own workers are counted after the await. *)
Available(d) == MaxConcurrent - running[d] - Cardinality(Active(d[1]))

StartWorkers(d) ==
    /\ at[d] = "start"
    /\ \E S \in SUBSET (Slot \ Active(d[1])) :
          /\ Cardinality(S) = IF Available(d) > 0 THEN Available(d) ELSE 0
          /\ pc' = [w \in Worker |-> IF w[1] = d[1] /\ w[2] \in S THEN "find" ELSE pc[w]]
    /\ at' = [at EXCEPT ![d] = "idle"]
    /\ running' = [running EXCEPT ![d] = 0]
    /\ UNCHANGED <<rows, files, job, beat, stopped, late>>
    /\ NoFault

-----------------------------------------------------------------------------
(* processNext(). *)

Free(w) ==
    /\ pc' = [pc EXCEPT ![w] = "free"]
    /\ job' = [job EXCEPT ![w] = None]
    /\ beat' = [beat EXCEPT ![w] = 0]

Goto(w, l) == pc' = [pc EXCEPT ![w] = l] /\ UNCHANGED job

Pending == {i \in 1 .. Len(created) : status[created[i]] = "PENDING"}

(* claimNextPending() reads the oldest PENDING row, ... *)
FindPending(w) ==
    /\ pc[w] = "find"
    /\ \/ /\ Pending = {}
          /\ Free(w)
       \/ \E i \in Pending :
             /\ \A j \in Pending : i <= j
             /\ job' = [job EXCEPT ![w] = created[i]]
             /\ pc' = [pc EXCEPT ![w] = "claim"]
             /\ UNCHANGED beat
    /\ UNCHANGED <<rows, files, dispatches, stopped, late>>
    /\ NoFault

(* Mutant: the update does not look at the status. *)
ClaimBlindly(w) ==
    /\ pc[w] = "claim"
    /\ status' = [status EXCEPT ![job[w]] = "RUNNING"]
    /\ age' = [age EXCEPT ![job[w]] = 0]
    /\ Goto(w, "generate")
    /\ UNCHANGED <<created, files, beat, dispatches, stopped, late>>
    /\ NoFault

Again(w) ==
    /\ pc' = [pc EXCEPT ![w] = "find"]
    /\ job' = [job EXCEPT ![w] = None]
    /\ UNCHANGED beat

(* ... and updates it if it is PENDING still. A worker that has lost the   *)
(* race tries again, and gives up after MAX_CLAIM_ATTEMPTS (here: after    *)
(* any number).                                                            *)
Claim(w) ==
    /\ pc[w] = "claim"
    /\ IF status[job[w]] = "PENDING"
       THEN /\ status' = [status EXCEPT ![job[w]] = "RUNNING"]
            /\ age' = [age EXCEPT ![job[w]] = 0]
            /\ Goto(w, "generate")
            /\ UNCHANGED beat
       ELSE /\ Free(w) \/ Again(w)
            /\ UNCHANGED <<status, age>>
    /\ UNCHANGED <<created, files, dispatches, stopped, late>>
    /\ NoFault

(* A query that fails ends the worker; a failed update may have been done. *)
ClaimFails(w) ==
    /\ pc[w] \in {"find", "claim"}
    /\ \/ UNCHANGED <<status, age>>
       \/ /\ pc[w] = "claim" /\ status[job[w]] = "PENDING"
          /\ status' = [status EXCEPT ![job[w]] = "RUNNING"]
          /\ age' = [age EXCEPT ![job[w]] = 0]
    /\ Free(w)
    /\ UNCHANGED <<created, files, dispatches, stopped, late>>
    /\ Fault

(* The parameters are read and the file is generated, or cannot be. *)
Generate(w) ==
    /\ pc[w] = "generate"
    /\ Goto(w, "upload") \/ Goto(w, "markFailed")
    /\ UNCHANGED <<rows, files, dispatches, beat, stopped, late>>
    /\ NoFault

(* Mutant: a failed upload does not end the work. *)
UploadOrNot(w) ==
    /\ pc[w] = "upload"
    /\ files' \in {files, files \cup {job[w]}}
    /\ Goto(w, "markReady")
    /\ UNCHANGED <<rows, dispatches, beat, stopped, late>>
    /\ NoFault

(* An upload that fails may have been done. *)
Upload(w) ==
    /\ pc[w] = "upload"
    /\ \/ files' = files \cup {job[w]} /\ Goto(w, "markReady") /\ NoFault
       \/ files' \in {files, files \cup {job[w]}} /\ Goto(w, "markFailed") /\ Fault
    /\ UNCHANGED <<rows, dispatches, beat, stopped, late>>

(* The update of markReady() and markFailed(): only a RUNNING row. *)
Mark(r, s) ==
    status' = IF status[r] = "RUNNING" THEN [status EXCEPT ![r] = s] ELSE status

(* A failed markReady() may have been done, and leads to markFailed(). *)
markReady(w) ==
    /\ pc[w] = "markReady"
    /\ \/ Mark(job[w], "READY") /\ Free(w) /\ NoFault
       \/ /\ Mark(job[w], "READY") \/ UNCHANGED status
          /\ Goto(w, "markFailed")
          /\ UNCHANGED beat
          /\ Fault
    /\ UNCHANGED <<created, age, files, dispatches, stopped, late>>

markFailed(w) ==
    /\ pc[w] = "markFailed"
    /\ \/ Mark(job[w], "FAILED") /\ NoFault
       \/ (Mark(job[w], "FAILED") \/ UNCHANGED status) /\ Fault
    /\ Free(w)
    /\ UNCHANGED <<created, age, files, dispatches, stopped, late>>

(* Mutant: the heartbeat does nothing. *)
touchNothing(r) == UNCHANGED age

touchRunning(r) ==
    age' = IF status[r] = "RUNNING" THEN [age EXCEPT ![r] = 0] ELSE age

(* The heartbeat; one that fails, or is late, is logged. *)
Heartbeat(w) ==
    /\ pc[w] \in Processing
    /\ beat[w] = HeartbeatInterval
    /\ beat' = [beat EXCEPT ![w] = 0]
    /\ \/ touchRunning(job[w]) /\ UNCHANGED late /\ NoFault
       \/ late' = late \cup {job[w]} /\ UNCHANGED age /\ Fault
    /\ UNCHANGED <<status, created, files, dispatches, pc, job, stopped>>

(* Time passes, but no heartbeat is passed over. *)
Tick ==
    /\ \A w \in Worker : pc[w] \in Processing => beat[w] < HeartbeatInterval
    /\ \E r \in Request : status[r] = "RUNNING" /\ age[r] <= StaleTtl
    /\ age' = [r \in Request |-> IF status[r] = "RUNNING" /\ age[r] <= StaleTtl
                                 THEN age[r] + 1 ELSE age[r]]
    /\ beat' = [w \in Worker |-> IF pc[w] \in Processing THEN beat[w] + 1 ELSE beat[w]]
    /\ UNCHANGED <<status, created, files, dispatches, pc, job, stopped, late>>
    /\ NoFault

-----------------------------------------------------------------------------
(* onModuleDestroy(): what is running goes on until the process exits. *)
onModuleDestroy(p) ==
    /\ p \notin stopped
    /\ stopped' = stopped \cup {p}
    /\ UNCHANGED <<rows, files, dispatches, workers, late>>
    /\ Fault

(* The process ends and is started anew. *)
Restart(p) ==
    /\ stopped' = stopped \ {p}
    /\ at' = [d \in Dispatch |-> IF d[1] = p THEN "idle" ELSE at[d]]
    /\ pc' = [w \in Worker |-> IF w[1] = p THEN "free" ELSE pc[w]]
    /\ running' = [d \in Dispatch |-> IF d[1] = p THEN 0 ELSE running[d]]
    /\ job' = [w \in Worker |-> IF w[1] = p THEN None ELSE job[w]]
    /\ beat' = [w \in Worker |-> IF w[1] = p THEN 0 ELSE beat[w]]
    /\ UNCHANGED <<rows, files, late>>

Exit(p) == p \in stopped /\ Restart(p) /\ NoFault
Crash(p) == Restart(p) /\ Fault

Polling(d) ==
    \/ dispatch(d) \/ recoverStaleRunning(d) \/ countFreshRunning(d) \/ StartWorkers(d)

Work(w) ==
    \/ FindPending(w) \/ Claim(w) \/ Generate(w) \/ Upload(w) \/ markReady(w) \/ markFailed(w)

Next ==
    \/ \E r \in Request : createPending(r)
    \/ \E d \in Dispatch : Polling(d) \/ DispatchFails(d)
    \/ \E w \in Worker : Work(w) \/ ClaimFails(w) \/ Heartbeat(w)
    \/ \E p \in Replica : onModuleDestroy(p) \/ Exit(p) \/ Crash(p)
    \/ Tick

Spec == Init /\ [][Next]_vars

(* The poll timer fires again and again, the steps of a worker end, a      *)
(* process that is told to stop exits, and time passes. A request need     *)
(* not be made.                                                            *)
Fairness ==
    /\ \A d \in Dispatch : WF_vars(Polling(d))
    /\ \A w \in Worker : WF_vars(Work(w)) /\ WF_vars(Heartbeat(w))
    /\ \A p \in Replica : WF_vars(Exit(p))
    /\ WF_vars(Tick)

FairSpec == Spec /\ Fairness
-----------------------------------------------------------------------------
(* Properties. *)

(* A request is processed by one worker at most, also across replicas, and *)
(* none is processed that is still there to be claimed.                    *)
OneWorker ==
    /\ \A v, w \in Worker :
          pc[v] \in Processing /\ pc[w] \in Processing /\ job[v] = job[w] => v = w
    /\ \A w \in Worker :
          pc[w] \in Processing => status[job[w]] \notin {"NONE", "PENDING"}

(* A download that is offered exists: the file of a READY request is in    *)
(* the bucket.                                                             *)
ReadyHasFile == \A r \in Request : status[r] = "READY" => r \in files

(* A request goes from PENDING to RUNNING to READY or FAILED, once: no     *)
(* late worker or recovery takes back what the user has seen.              *)
Forward(s, t) ==
    \/ s = t
    \/ <<s, t>> \in {<<"NONE", "PENDING">>, <<"PENDING", "RUNNING">>,
                     <<"RUNNING", "READY">>, <<"RUNNING", "FAILED">>}

StatusForward == [][\A r \in Request : Forward(status[r], status'[r])]_status

(* A replica never runs more than maxConcurrent workers, although          *)
(* dispatches overlap and the count of RUNNING rows is not to be relied on.*)
WorkersBounded == \A p \in Replica : Cardinality(Active(p)) <= MaxConcurrent

(* A worker that is alive and whose heartbeats arrive keeps its row: it is *)
(* never taken for dead. After a markReady() whose answer was lost the row *)
(* is READY.                                                               *)
HeartbeatKeepsRow ==
    \A w \in Worker :
        pc[w] \in Processing /\ job[w] \notin late =>
            \/ status[job[w]] = "RUNNING"
            \/ status[job[w]] = "READY" /\ pc[w] = "markFailed"

(* The invariant that is inductive. What a worker has when it gets to a    *)
(* step, and how old the row of a worker with good heartbeats is.          *)
WorkerHas ==
    \A w \in Worker :
        /\ pc[w] \notin {"free", "find"} => job[w] \in Request /\ status[job[w]] # "NONE"
        /\ pc[w] = "markReady" => job[w] \in files
        /\ pc[w] \in Processing /\ job[w] \notin late /\ status[job[w]] = "RUNNING" =>
              age[job[w]] <= beat[w]

Inv ==
    /\ TypeOK /\ WorkerHas /\ OneWorker /\ ReadyHasFile /\ HeartbeatKeepsRow

(* Every request is READY or FAILED in the end, also when the worker that  *)
(* claimed it has died or its updates have failed.                         *)
EveryRequestEnds ==
    \A r \in Request : status[r] = "PENDING" ~> status[r] \in {"READY", "FAILED"}
=============================================================================
