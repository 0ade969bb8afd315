------------------------- MODULE ReportDownloadProofs -------------------------
(***************************************************************************)
(* Proofs about ReportDownload for every number of requests, replicas,     *)
(* workers and overlapping dispatches, and every number of failures; and,  *)
(* at the end, about TransactionSearch, whose report is what one request   *)
(* of ReportDownload generates, for any rows, page sizes and changes.      *)
(***************************************************************************)
EXTENDS ReportDownload, TransactionSearch, FiniteSetTheorems, TLAPS

USE DEF Processing

(* The type invariant in three parts. *)
RowsOK ==
    /\ status \in [Request -> {"NONE", "PENDING", "RUNNING", "READY", "FAILED"}]
    /\ created \in Seq(Request)
    /\ age \in [Request -> 0 .. StaleTtl + 1]
    /\ files \subseteq Request
    /\ late \subseteq Request

DispatchesOK ==
    /\ at \in [Dispatch -> {"idle", "recover", "count", "start"}]
    /\ running \in [Dispatch -> Nat]
    /\ stopped \subseteq Replica
    /\ faults \in Nat

WorkersOK ==
    /\ pc \in [Worker -> {"free", "find", "claim"} \cup Processing]
    /\ job \in [Worker -> Request \cup {None}]
    /\ beat \in [Worker -> 0 .. HeartbeatInterval]

(* They are all of it. *)
LEMMA TypeParts == TypeOK <=> RowsOK /\ DispatchesOK /\ WorkersOK
  BY DEF TypeOK, RowsOK, DispatchesOK, WorkersOK

(* The type invariant holds initially. *)
LEMMA TypeInit == Init => TypeOK
  BY ConstantsAssumption DEF Init, TypeOK

(* How many rows are RUNNING and fresh is a number. *)
LEMMA FreshCount == Cardinality(FreshRunning) \in Nat
  <1>1. FreshRunning \subseteq Request
    BY DEF FreshRunning
  <1> QED
    BY <1>1, ConstantsAssumption, FS_Subset, FS_CardinalityType

(* A worker that returns, starts over or goes on keeps the workers' types. *)
LEMMA FreeType ==
    ASSUME WorkersOK, NEW w \in Worker, Free(w)
    PROVE  WorkersOK'
  BY ConstantsAssumption DEF WorkersOK, Free

LEMMA AgainType ==
    ASSUME WorkersOK, NEW w \in Worker, Again(w)
    PROVE  WorkersOK'
  BY DEF WorkersOK, Again

LEMMA GotoType ==
    ASSUME WorkersOK, NEW w \in Worker, NEW l \in Processing, Goto(w, l), UNCHANGED beat
    PROVE  WorkersOK'
  BY DEF WorkersOK, Goto

(* createPending keeps the types. *)
LEMMA TypeCreatePending ==
    ASSUME TypeOK, NEW r \in Request, createPending(r)
    PROVE  TypeOK'
  <1>1. RowsOK /\ DispatchesOK /\ WorkersOK
    BY TypeParts
  <1>2. RowsOK'
    BY <1>1, ConstantsAssumption DEF RowsOK, WorkersOK, createPending, rows
  <1>3. DispatchesOK'
    BY <1>1, ConstantsAssumption DEF RowsOK, DispatchesOK, createPending, dispatches, Fault, NoFault
  <1>4. WorkersOK'
    BY <1>1, ConstantsAssumption DEF RowsOK, WorkersOK, createPending, workers
  <1> QED
    BY <1>2, <1>3, <1>4 DEF TypeOK, RowsOK, DispatchesOK, WorkersOK

(* dispatch keeps the types. *)
LEMMA TypeDispatch ==
    ASSUME TypeOK, NEW d \in Dispatch, dispatch(d)
    PROVE  TypeOK'
  <1>1. RowsOK /\ DispatchesOK /\ WorkersOK
    BY TypeParts
  <1>2. RowsOK'
    BY <1>1, ConstantsAssumption DEF RowsOK, WorkersOK, dispatch, rows
  <1>3. DispatchesOK'
    BY <1>1, ConstantsAssumption DEF RowsOK, DispatchesOK, dispatch, dispatches, Fault, NoFault
  <1>4. WorkersOK'
    BY <1>1, ConstantsAssumption DEF RowsOK, WorkersOK, dispatch, workers
  <1> QED
    BY <1>2, <1>3, <1>4 DEF TypeOK, RowsOK, DispatchesOK, WorkersOK

(* recoverStaleRunning keeps the types. *)
LEMMA TypeRecoverStaleRunning ==
    ASSUME TypeOK, NEW d \in Dispatch, recoverStaleRunning(d)
    PROVE  TypeOK'
  <1>1. RowsOK /\ DispatchesOK /\ WorkersOK
    BY TypeParts
  <1>2. RowsOK'
    BY <1>1, ConstantsAssumption DEF RowsOK, WorkersOK, recoverStaleRunning, rows, failStaleRunning
  <1>3. DispatchesOK'
    BY <1>1, ConstantsAssumption DEF RowsOK, DispatchesOK, recoverStaleRunning, dispatches, Fault, NoFault
  <1>4. WorkersOK'
    BY <1>1, ConstantsAssumption DEF RowsOK, WorkersOK, recoverStaleRunning, workers
  <1> QED
    BY <1>2, <1>3, <1>4 DEF TypeOK, RowsOK, DispatchesOK, WorkersOK

(* countFreshRunning keeps the types. *)
LEMMA TypeCountFreshRunning ==
    ASSUME TypeOK, NEW d \in Dispatch, countFreshRunning(d)
    PROVE  TypeOK'
  <1>1. RowsOK /\ DispatchesOK /\ WorkersOK
    BY TypeParts
  <1>2. RowsOK'
    BY <1>1, ConstantsAssumption DEF RowsOK, WorkersOK, countFreshRunning, rows
  <1>3. DispatchesOK'
    <2>1. Len(created) \in Nat /\ \A n \in 0 .. Len(created) : n \in Nat
      BY <1>1 DEF RowsOK
    <2>2. \E n \in Nat : running' = [running EXCEPT ![d] = n]
      BY <2>1, FreshCount DEF countFreshRunning
    <2>3. running' \in [Dispatch -> Nat]
      BY <1>1, <2>2 DEF DispatchesOK
    <2>4. at' \in [Dispatch -> {"idle", "recover", "count", "start"}]
      BY <1>1 DEF DispatchesOK, countFreshRunning
    <2>5. faults' \in Nat /\ stopped' \subseteq Replica
      BY <1>1 DEF DispatchesOK, countFreshRunning, Fault, NoFault
    <2> QED
      BY <2>3, <2>4, <2>5 DEF DispatchesOK
  <1>4. WorkersOK'
    BY <1>1, ConstantsAssumption DEF RowsOK, WorkersOK, countFreshRunning, workers
  <1> QED
    BY <1>2, <1>3, <1>4 DEF TypeOK, RowsOK, DispatchesOK, WorkersOK

(* StartWorkers keeps the types. *)
LEMMA TypeStartWorkers ==
    ASSUME TypeOK, NEW d \in Dispatch, StartWorkers(d)
    PROVE  TypeOK'
  <1>1. RowsOK /\ DispatchesOK /\ WorkersOK
    BY TypeParts
  <1>2. RowsOK'
    BY <1>1, ConstantsAssumption DEF RowsOK, WorkersOK, StartWorkers, rows
  <1>3. DispatchesOK'
    BY <1>1, ConstantsAssumption DEF RowsOK, DispatchesOK, StartWorkers, dispatches, Fault, NoFault
  <1>4. WorkersOK'
    BY <1>1, ConstantsAssumption DEF RowsOK, WorkersOK, StartWorkers, workers
  <1> QED
    BY <1>2, <1>3, <1>4 DEF TypeOK, RowsOK, DispatchesOK, WorkersOK

(* DispatchFails keeps the types. *)
LEMMA TypeDispatchFails ==
    ASSUME TypeOK, NEW d \in Dispatch, DispatchFails(d)
    PROVE  TypeOK'
  <1>1. RowsOK /\ DispatchesOK /\ WorkersOK
    BY TypeParts
  <1>2. RowsOK'
    BY <1>1, ConstantsAssumption DEF RowsOK, WorkersOK, DispatchFails, rows, failStaleRunning
  <1>3. DispatchesOK'
    BY <1>1, ConstantsAssumption DEF RowsOK, DispatchesOK, DispatchFails, dispatches, Fault, NoFault
  <1>4. WorkersOK'
    BY <1>1, ConstantsAssumption DEF RowsOK, WorkersOK, DispatchFails, workers
  <1> QED
    BY <1>2, <1>3, <1>4 DEF TypeOK, RowsOK, DispatchesOK, WorkersOK

(* FindPending keeps the types. *)
LEMMA TypeFindPending ==
    ASSUME TypeOK, WorkerHas, NEW w \in Worker, FindPending(w)
    PROVE  TypeOK'
  <1>1. RowsOK /\ DispatchesOK /\ WorkersOK
    BY TypeParts
  <1>2. RowsOK'
    BY <1>1, ConstantsAssumption DEF RowsOK, WorkersOK, FindPending, rows
  <1>3. DispatchesOK'
    BY <1>1, ConstantsAssumption DEF RowsOK, DispatchesOK, FindPending, dispatches, Fault, NoFault
  <1>4. WorkersOK'
    <2>1. CASE Free(w)
      BY <1>1, <2>1, FreeType
    <2>2. CASE \E i \in Pending : /\ job' = [job EXCEPT ![w] = created[i]]
                                  /\ pc' = [pc EXCEPT ![w] = "claim"]
                                  /\ UNCHANGED beat
      <3>1. PICK i \in 1 .. Len(created) : /\ job' = [job EXCEPT ![w] = created[i]]
                                          /\ pc' = [pc EXCEPT ![w] = "claim"]
                                          /\ UNCHANGED beat
        BY <2>2 DEF Pending
      <3>2. created[i] \in Request
        BY <1>1, <3>1 DEF RowsOK
      <3> QED
        BY <1>1, <3>1, <3>2 DEF WorkersOK
    <2> QED
      BY <2>1, <2>2 DEF FindPending
  <1> QED
    BY <1>2, <1>3, <1>4 DEF TypeOK, RowsOK, DispatchesOK, WorkersOK

(* Claim keeps the types. *)
LEMMA TypeClaim ==
    ASSUME TypeOK, WorkerHas, NEW w \in Worker, Claim(w)
    PROVE  TypeOK'
  <1>1. RowsOK /\ DispatchesOK /\ WorkersOK
    BY TypeParts
  <1>5. job[w] \in Request
    BY DEF WorkerHas, Claim
  <1>2. RowsOK'
    <2>1. CASE status[job[w]] = "PENDING"
      <3>1. /\ status' = [status EXCEPT ![job[w]] = "RUNNING"]
            /\ age' = [age EXCEPT ![job[w]] = 0]
            /\ UNCHANGED <<created, files, late>>
        BY <2>1 DEF Claim
      <3> QED
        BY <1>1, <1>5, <3>1, ConstantsAssumption DEF RowsOK
    <2>2. CASE status[job[w]] # "PENDING"
      BY <1>1, <2>2 DEF RowsOK, Claim
    <2> QED
      BY <2>1, <2>2
  <1>3. DispatchesOK'
    BY <1>1, ConstantsAssumption DEF RowsOK, DispatchesOK, Claim, dispatches, Fault, NoFault
  <1>4. WorkersOK'
    BY <1>1, ConstantsAssumption, FreeType, AgainType, GotoType DEF RowsOK, WorkersOK, Claim, workers
  <1> QED
    BY <1>2, <1>3, <1>4 DEF TypeOK, RowsOK, DispatchesOK, WorkersOK

(* ClaimFails keeps the types. *)
LEMMA TypeClaimFails ==
    ASSUME TypeOK, WorkerHas, NEW w \in Worker, ClaimFails(w)
    PROVE  TypeOK'
  <1>1. RowsOK /\ DispatchesOK /\ WorkersOK
    BY TypeParts
  <1>2. RowsOK'
    <2>1. CASE UNCHANGED <<status, age>>
      BY <1>1, <2>1 DEF RowsOK, ClaimFails
    <2>2. CASE /\ job[w] \in Request
               /\ status' = [status EXCEPT ![job[w]] = "RUNNING"]
               /\ age' = [age EXCEPT ![job[w]] = 0]
      BY <1>1, <2>2, ConstantsAssumption DEF RowsOK, ClaimFails
    <2> QED
      BY <2>1, <2>2 DEF ClaimFails, WorkerHas
  <1>3. DispatchesOK'
    BY <1>1, ConstantsAssumption DEF RowsOK, DispatchesOK, ClaimFails, dispatches, Fault, NoFault
  <1>4. WorkersOK'
    BY <1>1, ConstantsAssumption, FreeType DEF RowsOK, WorkersOK, ClaimFails, workers
  <1> QED
    BY <1>2, <1>3, <1>4 DEF TypeOK, RowsOK, DispatchesOK, WorkersOK

(* Generate keeps the types. *)
LEMMA TypeGenerate ==
    ASSUME TypeOK, NEW w \in Worker, Generate(w)
    PROVE  TypeOK'
  <1>1. RowsOK /\ DispatchesOK /\ WorkersOK
    BY TypeParts
  <1>2. RowsOK'
    BY <1>1, ConstantsAssumption DEF RowsOK, WorkersOK, Generate, rows
  <1>3. DispatchesOK'
    BY <1>1, ConstantsAssumption DEF RowsOK, DispatchesOK, Generate, dispatches, Fault, NoFault
  <1>4. WorkersOK'
    BY <1>1, ConstantsAssumption, GotoType DEF RowsOK, WorkersOK, Generate, workers
  <1> QED
    BY <1>2, <1>3, <1>4 DEF TypeOK, RowsOK, DispatchesOK, WorkersOK

(* Upload keeps the types. *)
LEMMA TypeUpload ==
    ASSUME TypeOK, WorkerHas, NEW w \in Worker, Upload(w)
    PROVE  TypeOK'
  <1>1. RowsOK /\ DispatchesOK /\ WorkersOK
    BY TypeParts
  <1>5. job[w] \in Request
    BY DEF WorkerHas, Upload
  <1>2. RowsOK'
    BY <1>1, <1>5, ConstantsAssumption DEF RowsOK, WorkersOK, Upload, rows
  <1>3. DispatchesOK'
    BY <1>1, ConstantsAssumption DEF RowsOK, DispatchesOK, Upload, dispatches, Fault, NoFault
  <1>4. WorkersOK'
    BY <1>1, ConstantsAssumption, GotoType DEF RowsOK, WorkersOK, Upload, workers
  <1> QED
    BY <1>2, <1>3, <1>4 DEF TypeOK, RowsOK, DispatchesOK, WorkersOK

(* markReady keeps the types. *)
LEMMA TypeMarkReady ==
    ASSUME TypeOK, NEW w \in Worker, markReady(w)
    PROVE  TypeOK'
  <1>1. RowsOK /\ DispatchesOK /\ WorkersOK
    BY TypeParts
  <1>2. RowsOK'
    BY <1>1, ConstantsAssumption DEF RowsOK, WorkersOK, markReady, rows, Mark
  <1>3. DispatchesOK'
    BY <1>1, ConstantsAssumption DEF RowsOK, DispatchesOK, markReady, dispatches, Fault, NoFault
  <1>4. WorkersOK'
    BY <1>1, ConstantsAssumption, FreeType, GotoType DEF RowsOK, WorkersOK, markReady, workers
  <1> QED
    BY <1>2, <1>3, <1>4 DEF TypeOK, RowsOK, DispatchesOK, WorkersOK

(* markFailed keeps the types. *)
LEMMA TypeMarkFailed ==
    ASSUME TypeOK, NEW w \in Worker, markFailed(w)
    PROVE  TypeOK'
  <1>1. RowsOK /\ DispatchesOK /\ WorkersOK
    BY TypeParts
  <1>2. RowsOK'
    BY <1>1, ConstantsAssumption DEF RowsOK, WorkersOK, markFailed, rows, Mark
  <1>3. DispatchesOK'
    BY <1>1, ConstantsAssumption DEF RowsOK, DispatchesOK, markFailed, dispatches, Fault, NoFault
  <1>4. WorkersOK'
    BY <1>1, ConstantsAssumption, FreeType DEF RowsOK, WorkersOK, markFailed, workers
  <1> QED
    BY <1>2, <1>3, <1>4 DEF TypeOK, RowsOK, DispatchesOK, WorkersOK

(* Heartbeat keeps the types. *)
LEMMA TypeHeartbeat ==
    ASSUME TypeOK, WorkerHas, NEW w \in Worker, Heartbeat(w)
    PROVE  TypeOK'
  <1>1. RowsOK /\ DispatchesOK /\ WorkersOK
    BY TypeParts
  <1>5. job[w] \in Request
    BY DEF WorkerHas, Heartbeat
  <1>2. RowsOK'
    <2>1. age' \in [Request -> 0 .. StaleTtl + 1]
      BY <1>1, <1>5, ConstantsAssumption DEF RowsOK, Heartbeat, touchRunning
    <2> QED
      BY <1>1, <1>5, <2>1 DEF RowsOK, Heartbeat
  <1>3. DispatchesOK'
    BY <1>1, ConstantsAssumption DEF RowsOK, DispatchesOK, Heartbeat, dispatches, Fault, NoFault
  <1>4. WorkersOK'
    BY <1>1, ConstantsAssumption DEF RowsOK, WorkersOK, Heartbeat, workers
  <1> QED
    BY <1>2, <1>3, <1>4 DEF TypeOK, RowsOK, DispatchesOK, WorkersOK

(* onModuleDestroy keeps the types. *)
LEMMA TypeOnModuleDestroy ==
    ASSUME TypeOK, NEW p \in Replica, onModuleDestroy(p)
    PROVE  TypeOK'
  <1>1. RowsOK /\ DispatchesOK /\ WorkersOK
    BY TypeParts
  <1>2. RowsOK'
    BY <1>1, ConstantsAssumption DEF RowsOK, WorkersOK, onModuleDestroy, rows
  <1>3. DispatchesOK'
    BY <1>1, ConstantsAssumption DEF RowsOK, DispatchesOK, onModuleDestroy, dispatches, Fault, NoFault
  <1>4. WorkersOK'
    BY <1>1, ConstantsAssumption DEF RowsOK, WorkersOK, onModuleDestroy, workers
  <1> QED
    BY <1>2, <1>3, <1>4 DEF TypeOK, RowsOK, DispatchesOK, WorkersOK

(* Exit keeps the types. *)
LEMMA TypeExit ==
    ASSUME TypeOK, NEW p \in Replica, Exit(p)
    PROVE  TypeOK'
  <1>1. RowsOK /\ DispatchesOK /\ WorkersOK
    BY TypeParts
  <1>2. RowsOK'
    BY <1>1, ConstantsAssumption DEF RowsOK, WorkersOK, Exit, rows, Restart
  <1>3. DispatchesOK'
    BY <1>1, ConstantsAssumption DEF RowsOK, DispatchesOK, Exit, dispatches, Fault, NoFault, Restart
  <1>4. WorkersOK'
    BY <1>1, ConstantsAssumption DEF RowsOK, WorkersOK, Exit, workers, Restart
  <1> QED
    BY <1>2, <1>3, <1>4 DEF TypeOK, RowsOK, DispatchesOK, WorkersOK

(* Crash keeps the types. *)
LEMMA TypeCrash ==
    ASSUME TypeOK, NEW p \in Replica, Crash(p)
    PROVE  TypeOK'
  <1>1. RowsOK /\ DispatchesOK /\ WorkersOK
    BY TypeParts
  <1>2. RowsOK'
    BY <1>1, ConstantsAssumption DEF RowsOK, WorkersOK, Crash, rows, Restart
  <1>3. DispatchesOK'
    BY <1>1, ConstantsAssumption DEF RowsOK, DispatchesOK, Crash, dispatches, Fault, NoFault, Restart
  <1>4. WorkersOK'
    BY <1>1, ConstantsAssumption DEF RowsOK, WorkersOK, Crash, workers, Restart
  <1> QED
    BY <1>2, <1>3, <1>4 DEF TypeOK, RowsOK, DispatchesOK, WorkersOK

(* Tick keeps the types. *)
LEMMA TypeTick ==
    ASSUME TypeOK, Tick
    PROVE  TypeOK'
  <1>1. RowsOK /\ DispatchesOK /\ WorkersOK
    BY TypeParts
  <1>2. RowsOK'
    BY <1>1, ConstantsAssumption DEF RowsOK, WorkersOK, Tick, rows
  <1>3. DispatchesOK'
    BY <1>1, ConstantsAssumption DEF RowsOK, DispatchesOK, Tick, dispatches, Fault, NoFault
  <1>4. WorkersOK'
    BY <1>1, ConstantsAssumption DEF RowsOK, WorkersOK, Tick, workers
  <1> QED
    BY <1>2, <1>3, <1>4 DEF TypeOK, RowsOK, DispatchesOK, WorkersOK

(* createPending keeps the rest of the invariant. *)
LEMMA InvCreatePending ==
    ASSUME Inv, NEW r \in Request, createPending(r)
    PROVE  WorkerHas' /\ OneWorker' /\ ReadyHasFile' /\ HeartbeatKeepsRow'
  <1> USE DEF createPending, rows, workers, dispatches
  <1>0. /\ RowsOK /\ WorkersOK
        /\ WorkerHas /\ OneWorker /\ ReadyHasFile /\ HeartbeatKeepsRow
    BY TypeParts DEF Inv
  <1>1. WorkerHas'
    BY <1>0, ConstantsAssumption, HeartbeatAssumption DEF WorkerHas, RowsOK, WorkersOK
  <1>2. OneWorker'
    BY <1>0, ConstantsAssumption, HeartbeatAssumption DEF OneWorker, WorkerHas, RowsOK, WorkersOK
  <1>3. ReadyHasFile'
    BY <1>0, ConstantsAssumption, HeartbeatAssumption DEF ReadyHasFile, WorkerHas, RowsOK, WorkersOK
  <1>4. HeartbeatKeepsRow'
    BY <1>0, ConstantsAssumption, HeartbeatAssumption DEF HeartbeatKeepsRow, OneWorker, WorkerHas, RowsOK, WorkersOK
  <1> QED
    BY <1>1, <1>2, <1>3, <1>4

(* dispatch keeps the rest of the invariant. *)
LEMMA InvDispatch ==
    ASSUME Inv, NEW d \in Dispatch, dispatch(d)
    PROVE  WorkerHas' /\ OneWorker' /\ ReadyHasFile' /\ HeartbeatKeepsRow'
  <1> USE DEF dispatch, rows, workers, dispatches
  <1>0. /\ RowsOK /\ WorkersOK
        /\ WorkerHas /\ OneWorker /\ ReadyHasFile /\ HeartbeatKeepsRow
    BY TypeParts DEF Inv
  <1>1. WorkerHas'
    BY <1>0, ConstantsAssumption, HeartbeatAssumption DEF WorkerHas, RowsOK, WorkersOK
  <1>2. OneWorker'
    BY <1>0, ConstantsAssumption, HeartbeatAssumption DEF OneWorker, WorkerHas, RowsOK, WorkersOK
  <1>3. ReadyHasFile'
    BY <1>0, ConstantsAssumption, HeartbeatAssumption DEF ReadyHasFile, WorkerHas, RowsOK, WorkersOK
  <1>4. HeartbeatKeepsRow'
    BY <1>0, ConstantsAssumption, HeartbeatAssumption DEF HeartbeatKeepsRow, OneWorker, WorkerHas, RowsOK, WorkersOK
  <1> QED
    BY <1>1, <1>2, <1>3, <1>4

(* recoverStaleRunning keeps the rest of the invariant. *)
LEMMA InvRecoverStaleRunning ==
    ASSUME Inv, NEW d \in Dispatch, recoverStaleRunning(d)
    PROVE  WorkerHas' /\ OneWorker' /\ ReadyHasFile' /\ HeartbeatKeepsRow'
  <1> USE DEF recoverStaleRunning, rows, workers, dispatches, failStaleRunning, Stale
  <1>0. /\ RowsOK /\ WorkersOK
        /\ WorkerHas /\ OneWorker /\ ReadyHasFile /\ HeartbeatKeepsRow
    BY TypeParts DEF Inv
  <1>1. WorkerHas'
    BY <1>0, ConstantsAssumption, HeartbeatAssumption DEF WorkerHas, RowsOK, WorkersOK
  <1>2. OneWorker'
    BY <1>0, ConstantsAssumption, HeartbeatAssumption DEF OneWorker, WorkerHas, RowsOK, WorkersOK
  <1>3. ReadyHasFile'
    BY <1>0, ConstantsAssumption, HeartbeatAssumption DEF ReadyHasFile, WorkerHas, RowsOK, WorkersOK
  <1>4. HeartbeatKeepsRow'
    <2>1. ASSUME NEW v \in Worker, pc[v] \in Processing, job[v] \notin late
          PROVE  ~Stale(job[v])
      <3>1. /\ job[v] \in Request
            /\ status[job[v]] = "RUNNING" => age[job[v]] <= beat[v]
        BY <1>0, <2>1 DEF WorkerHas
      <3>2. age[job[v]] \in Int /\ beat[v] \in Int /\ beat[v] <= HeartbeatInterval
        BY <1>0, <3>1, ConstantsAssumption DEF RowsOK, WorkersOK
      <3> HIDE DEF recoverStaleRunning
      <3> QED
        BY <3>1, <3>2, ConstantsAssumption, HeartbeatAssumption DEF Stale
    <2>2. ASSUME NEW v \in Worker, pc[v] \in Processing
          PROVE  job[v] \in Request
      BY <1>0, <2>2 DEF WorkerHas
    <2>3. UNCHANGED <<pc, job, late>>
      OBVIOUS
    <2> QED
      BY <1>0, <2>1, <2>2, <2>3 DEF HeartbeatKeepsRow
  <1> QED
    BY <1>1, <1>2, <1>3, <1>4

(* countFreshRunning keeps the rest of the invariant. *)
LEMMA InvCountFreshRunning ==
    ASSUME Inv, NEW d \in Dispatch, countFreshRunning(d)
    PROVE  WorkerHas' /\ OneWorker' /\ ReadyHasFile' /\ HeartbeatKeepsRow'
  <1> USE DEF countFreshRunning, rows, workers, dispatches
  <1>0. /\ RowsOK /\ WorkersOK
        /\ WorkerHas /\ OneWorker /\ ReadyHasFile /\ HeartbeatKeepsRow
    BY TypeParts DEF Inv
  <1>1. WorkerHas'
    BY <1>0, ConstantsAssumption, HeartbeatAssumption DEF WorkerHas, RowsOK, WorkersOK
  <1>2. OneWorker'
    BY <1>0, ConstantsAssumption, HeartbeatAssumption DEF OneWorker, WorkerHas, RowsOK, WorkersOK
  <1>3. ReadyHasFile'
    BY <1>0, ConstantsAssumption, HeartbeatAssumption DEF ReadyHasFile, WorkerHas, RowsOK, WorkersOK
  <1>4. HeartbeatKeepsRow'
    BY <1>0, ConstantsAssumption, HeartbeatAssumption DEF HeartbeatKeepsRow, OneWorker, WorkerHas, RowsOK, WorkersOK
  <1> QED
    BY <1>1, <1>2, <1>3, <1>4

(* StartWorkers keeps the rest of the invariant. *)
LEMMA InvStartWorkers ==
    ASSUME Inv, NEW d \in Dispatch, StartWorkers(d)
    PROVE  WorkerHas' /\ OneWorker' /\ ReadyHasFile' /\ HeartbeatKeepsRow'
  <1> USE DEF StartWorkers, rows, workers, dispatches, Active
  <1>0. /\ RowsOK /\ WorkersOK
        /\ WorkerHas /\ OneWorker /\ ReadyHasFile /\ HeartbeatKeepsRow
    BY TypeParts DEF Inv
  <1>1. WorkerHas'
    BY <1>0, ConstantsAssumption, HeartbeatAssumption DEF WorkerHas, RowsOK, WorkersOK
  <1>2. OneWorker'
    BY <1>0, ConstantsAssumption, HeartbeatAssumption DEF OneWorker, WorkerHas, RowsOK, WorkersOK
  <1>3. ReadyHasFile'
    BY <1>0, ConstantsAssumption, HeartbeatAssumption DEF ReadyHasFile, WorkerHas, RowsOK, WorkersOK
  <1>4. HeartbeatKeepsRow'
    BY <1>0, ConstantsAssumption, HeartbeatAssumption DEF HeartbeatKeepsRow, OneWorker, WorkerHas, RowsOK, WorkersOK
  <1> QED
    BY <1>1, <1>2, <1>3, <1>4

(* DispatchFails keeps the rest of the invariant. *)
LEMMA InvDispatchFails ==
    ASSUME Inv, NEW d \in Dispatch, DispatchFails(d)
    PROVE  WorkerHas' /\ OneWorker' /\ ReadyHasFile' /\ HeartbeatKeepsRow'
  <1> USE DEF DispatchFails, rows, workers, dispatches, failStaleRunning, Stale
  <1>0. /\ RowsOK /\ WorkersOK
        /\ WorkerHas /\ OneWorker /\ ReadyHasFile /\ HeartbeatKeepsRow
    BY TypeParts DEF Inv
  <1>1. WorkerHas'
    BY <1>0, ConstantsAssumption, HeartbeatAssumption DEF WorkerHas, RowsOK, WorkersOK
  <1>2. OneWorker'
    BY <1>0, ConstantsAssumption, HeartbeatAssumption DEF OneWorker, WorkerHas, RowsOK, WorkersOK
  <1>3. ReadyHasFile'
    BY <1>0, ConstantsAssumption, HeartbeatAssumption DEF ReadyHasFile, WorkerHas, RowsOK, WorkersOK
  <1>4. HeartbeatKeepsRow'
    <2>1. ASSUME NEW v \in Worker, pc[v] \in Processing, job[v] \notin late
          PROVE  ~Stale(job[v])
      <3>1. /\ job[v] \in Request
            /\ status[job[v]] = "RUNNING" => age[job[v]] <= beat[v]
        BY <1>0, <2>1 DEF WorkerHas
      <3>2. age[job[v]] \in Int /\ beat[v] \in Int /\ beat[v] <= HeartbeatInterval
        BY <1>0, <3>1, ConstantsAssumption DEF RowsOK, WorkersOK
      <3> HIDE DEF DispatchFails
      <3> QED
        BY <3>1, <3>2, ConstantsAssumption, HeartbeatAssumption DEF Stale
    <2>2. ASSUME NEW v \in Worker, pc[v] \in Processing
          PROVE  job[v] \in Request
      BY <1>0, <2>2 DEF WorkerHas
    <2>3. UNCHANGED <<pc, job, late>>
      OBVIOUS
    <2> QED
      BY <1>0, <2>1, <2>2, <2>3 DEF HeartbeatKeepsRow
  <1> QED
    BY <1>1, <1>2, <1>3, <1>4

(* FindPending keeps the rest of the invariant. *)
LEMMA InvFindPending ==
    ASSUME Inv, NEW w \in Worker, FindPending(w)
    PROVE  WorkerHas' /\ OneWorker' /\ ReadyHasFile' /\ HeartbeatKeepsRow'
  <1> USE DEF FindPending, rows, workers, dispatches, Free, Pending
  <1>0. /\ RowsOK /\ WorkersOK
        /\ WorkerHas /\ OneWorker /\ ReadyHasFile /\ HeartbeatKeepsRow
    BY TypeParts DEF Inv
  <1>1. WorkerHas'
    BY <1>0, ConstantsAssumption, HeartbeatAssumption DEF WorkerHas, RowsOK, WorkersOK
  <1>2. OneWorker'
    <2>1. /\ pc'[w] \notin Processing
          /\ \A v \in Worker : v # w => pc'[v] = pc[v] /\ job'[v] = job[v]
      BY <1>0 DEF WorkersOK
    <2>2. UNCHANGED <<status, late>>
      OBVIOUS
    <2> HIDE DEF FindPending
    <2> QED
      BY <1>0, <2>1, <2>2 DEF OneWorker
  <1>3. ReadyHasFile'
    BY <1>0, ConstantsAssumption, HeartbeatAssumption DEF ReadyHasFile, WorkerHas, RowsOK, WorkersOK
  <1>4. HeartbeatKeepsRow'
    <2>1. /\ pc'[w] \notin Processing
          /\ \A v \in Worker : v # w => pc'[v] = pc[v] /\ job'[v] = job[v]
      BY <1>0 DEF WorkersOK
    <2>2. UNCHANGED <<status, late>>
      OBVIOUS
    <2> HIDE DEF FindPending
    <2> QED
      BY <1>0, <2>1, <2>2 DEF HeartbeatKeepsRow
  <1> QED
    BY <1>1, <1>2, <1>3, <1>4

(* Claim keeps the rest of the invariant. *)
LEMMA InvClaim ==
    ASSUME Inv, NEW w \in Worker, Claim(w)
    PROVE  WorkerHas' /\ OneWorker' /\ ReadyHasFile' /\ HeartbeatKeepsRow'
  <1> USE DEF Claim, rows, workers, dispatches, Free, Again, Goto
  <1>0. /\ RowsOK /\ WorkersOK
        /\ WorkerHas /\ OneWorker /\ ReadyHasFile /\ HeartbeatKeepsRow
    BY TypeParts DEF Inv
  <1>1. WorkerHas'
    <2>1. job[w] \in Request
      BY <1>0 DEF WorkerHas
    <2>2. CASE status[job[w]] = "PENDING"
      <3>1. /\ status' = [status EXCEPT ![job[w]] = "RUNNING"]
            /\ age' = [age EXCEPT ![job[w]] = 0]
            /\ pc' = [pc EXCEPT ![w] = "generate"]
            /\ UNCHANGED <<job, beat, files, late>>
        BY <2>2
      <3>2. \A v \in Worker : v # w /\ pc[v] \in Processing => job[v] # job[w]
        BY <1>0, <2>2 DEF OneWorker
      <3> HIDE DEF Claim
      <3> QED
        BY <1>0, <2>1, <3>1, <3>2, ConstantsAssumption DEF WorkerHas, RowsOK, WorkersOK
    <2>3. CASE status[job[w]] # "PENDING"
      <3>1. /\ pc'[w] \in {"free", "find"}
            /\ \A v \in Worker : v # w => pc'[v] = pc[v] /\ job'[v] = job[v] /\ beat'[v] = beat[v]
            /\ UNCHANGED <<status, age, files, late>>
        BY <1>0, <2>3 DEF WorkersOK
      <3> HIDE DEF Claim
      <3> QED
        BY <1>0, <3>1 DEF WorkerHas
    <2> QED
      BY <2>2, <2>3
  <1>2. OneWorker'
    <2>1. job[w] \in Request
      BY <1>0 DEF WorkerHas
    <2>2. CASE status[job[w]] = "PENDING"
      <3>1. /\ status' = [status EXCEPT ![job[w]] = "RUNNING"]
            /\ age' = [age EXCEPT ![job[w]] = 0]
            /\ pc' = [pc EXCEPT ![w] = "generate"]
            /\ UNCHANGED <<job, beat, files, late>>
        BY <2>2
      <3>2. \A v \in Worker : v # w /\ pc[v] \in Processing => job[v] # job[w]
        BY <1>0, <2>2 DEF OneWorker
      <3> HIDE DEF Claim
      <3> QED
        BY <1>0, <2>1, <3>1, <3>2, ConstantsAssumption DEF OneWorker, RowsOK, WorkersOK
    <2>3. CASE status[job[w]] # "PENDING"
      <3>1. /\ pc'[w] \in {"free", "find"}
            /\ \A v \in Worker : v # w => pc'[v] = pc[v] /\ job'[v] = job[v] /\ beat'[v] = beat[v]
            /\ UNCHANGED <<status, age, files, late>>
        BY <1>0, <2>3 DEF WorkersOK
      <3> HIDE DEF Claim
      <3> QED
        BY <1>0, <3>1 DEF OneWorker
    <2> QED
      BY <2>2, <2>3
  <1>3. ReadyHasFile'
    BY <1>0, ConstantsAssumption, HeartbeatAssumption DEF ReadyHasFile, WorkerHas, RowsOK, WorkersOK
  <1>4. HeartbeatKeepsRow'
    BY <1>0, ConstantsAssumption, HeartbeatAssumption DEF HeartbeatKeepsRow, OneWorker, WorkerHas, RowsOK, WorkersOK
  <1> QED
    BY <1>1, <1>2, <1>3, <1>4

(* ClaimFails keeps the rest of the invariant. *)
LEMMA InvClaimFails ==
    ASSUME Inv, NEW w \in Worker, ClaimFails(w)
    PROVE  WorkerHas' /\ OneWorker' /\ ReadyHasFile' /\ HeartbeatKeepsRow'
  <1> USE DEF ClaimFails, rows, workers, dispatches, Free
  <1>0. /\ RowsOK /\ WorkersOK
        /\ WorkerHas /\ OneWorker /\ ReadyHasFile /\ HeartbeatKeepsRow
    BY TypeParts DEF Inv
  <1>1. WorkerHas'
    BY <1>0, ConstantsAssumption, HeartbeatAssumption DEF WorkerHas, RowsOK, WorkersOK
  <1>2. OneWorker'
    BY <1>0, ConstantsAssumption, HeartbeatAssumption DEF OneWorker, WorkerHas, RowsOK, WorkersOK
  <1>3. ReadyHasFile'
    BY <1>0, ConstantsAssumption, HeartbeatAssumption DEF ReadyHasFile, WorkerHas, RowsOK, WorkersOK
  <1>4. HeartbeatKeepsRow'
    BY <1>0, ConstantsAssumption, HeartbeatAssumption DEF HeartbeatKeepsRow, OneWorker, WorkerHas, RowsOK, WorkersOK
  <1> QED
    BY <1>1, <1>2, <1>3, <1>4

(* Generate keeps the rest of the invariant. *)
LEMMA InvGenerate ==
    ASSUME Inv, NEW w \in Worker, Generate(w)
    PROVE  WorkerHas' /\ OneWorker' /\ ReadyHasFile' /\ HeartbeatKeepsRow'
  <1> USE DEF Generate, rows, workers, dispatches, Goto
  <1>0. /\ RowsOK /\ WorkersOK
        /\ WorkerHas /\ OneWorker /\ ReadyHasFile /\ HeartbeatKeepsRow
    BY TypeParts DEF Inv
  <1>1. WorkerHas'
    BY <1>0, ConstantsAssumption, HeartbeatAssumption DEF WorkerHas, RowsOK, WorkersOK
  <1>2. OneWorker'
    BY <1>0, ConstantsAssumption, HeartbeatAssumption DEF OneWorker, WorkerHas, RowsOK, WorkersOK
  <1>3. ReadyHasFile'
    BY <1>0, ConstantsAssumption, HeartbeatAssumption DEF ReadyHasFile, WorkerHas, RowsOK, WorkersOK
  <1>4. HeartbeatKeepsRow'
    BY <1>0, ConstantsAssumption, HeartbeatAssumption DEF HeartbeatKeepsRow, OneWorker, WorkerHas, RowsOK, WorkersOK
  <1> QED
    BY <1>1, <1>2, <1>3, <1>4

(* Upload keeps the rest of the invariant. *)
LEMMA InvUpload ==
    ASSUME Inv, NEW w \in Worker, Upload(w)
    PROVE  WorkerHas' /\ OneWorker' /\ ReadyHasFile' /\ HeartbeatKeepsRow'
  <1> USE DEF Upload, rows, workers, dispatches, Goto
  <1>0. /\ RowsOK /\ WorkersOK
        /\ WorkerHas /\ OneWorker /\ ReadyHasFile /\ HeartbeatKeepsRow
    BY TypeParts DEF Inv
  <1>1. WorkerHas'
    BY <1>0, ConstantsAssumption, HeartbeatAssumption DEF WorkerHas, RowsOK, WorkersOK
  <1>2. OneWorker'
    BY <1>0, ConstantsAssumption, HeartbeatAssumption DEF OneWorker, WorkerHas, RowsOK, WorkersOK
  <1>3. ReadyHasFile'
    BY <1>0, ConstantsAssumption, HeartbeatAssumption DEF ReadyHasFile, WorkerHas, RowsOK, WorkersOK
  <1>4. HeartbeatKeepsRow'
    BY <1>0, ConstantsAssumption, HeartbeatAssumption DEF HeartbeatKeepsRow, OneWorker, WorkerHas, RowsOK, WorkersOK
  <1> QED
    BY <1>1, <1>2, <1>3, <1>4

(* markReady keeps the rest of the invariant. *)
LEMMA InvMarkReady ==
    ASSUME Inv, NEW w \in Worker, markReady(w)
    PROVE  WorkerHas' /\ OneWorker' /\ ReadyHasFile' /\ HeartbeatKeepsRow'
  <1> USE DEF markReady, rows, workers, dispatches, Mark, Free, Goto
  <1>0. /\ RowsOK /\ WorkersOK
        /\ WorkerHas /\ OneWorker /\ ReadyHasFile /\ HeartbeatKeepsRow
    BY TypeParts DEF Inv
  <1>1. WorkerHas'
    BY <1>0, ConstantsAssumption, HeartbeatAssumption DEF WorkerHas, RowsOK, WorkersOK
  <1>2. OneWorker'
    <2>1. job[w] \in Request /\ status[job[w]] \notin {"NONE", "PENDING"}
      BY <1>0 DEF WorkerHas, OneWorker
    <2>2. \A v \in Worker : v # w => pc'[v] = pc[v] /\ job'[v] = job[v]
      BY <1>0 DEF WorkersOK
    <2>3. \/ pc'[w] = "free"
          \/ pc'[w] = "markFailed" /\ job'[w] = job[w]
      BY <1>0 DEF WorkersOK
    <2>4. /\ UNCHANGED late
          /\ \/ UNCHANGED status
             \/ status' = [status EXCEPT ![job[w]] = "READY"]
      OBVIOUS
    <2>5. \A v \in Worker : v # w /\ pc[v] \in Processing => job[v] # job[w]
      BY <1>0 DEF OneWorker
    <2> HIDE DEF markReady
    <2>6. ASSUME NEW v \in Worker, v # w, pc'[v] \in Processing
          PROVE  job'[v] = job[v] /\ pc[v] \in Processing /\ status'[job[v]] = status[job[v]]
      BY <1>0, <2>1, <2>2, <2>4, <2>5, <2>6 DEF RowsOK, WorkerHas
    <2>7. pc'[w] \in Processing => pc'[w] = "markFailed" /\ job'[w] = job[w]
            /\ status'[job[w]] \in {status[job[w]], "READY"}
      BY <1>0, <2>1, <2>3, <2>4 DEF RowsOK
    <2> QED
      BY <1>0, <2>1, <2>4, <2>5, <2>6, <2>7 DEF OneWorker
  <1>3. ReadyHasFile'
    BY <1>0, ConstantsAssumption, HeartbeatAssumption DEF ReadyHasFile, WorkerHas, RowsOK, WorkersOK
  <1>4. HeartbeatKeepsRow'
    <2>1. job[w] \in Request /\ status[job[w]] \notin {"NONE", "PENDING"}
      BY <1>0 DEF WorkerHas, OneWorker
    <2>2. \A v \in Worker : v # w => pc'[v] = pc[v] /\ job'[v] = job[v]
      BY <1>0 DEF WorkersOK
    <2>3. \/ pc'[w] = "free"
          \/ pc'[w] = "markFailed" /\ job'[w] = job[w]
      BY <1>0 DEF WorkersOK
    <2>4. /\ UNCHANGED late
          /\ \/ UNCHANGED status
             \/ status' = [status EXCEPT ![job[w]] = "READY"]
      OBVIOUS
    <2>5. \A v \in Worker : v # w /\ pc[v] \in Processing => job[v] # job[w]
      BY <1>0 DEF OneWorker
    <2>6. pc[w] = "markReady"
      OBVIOUS
    <2> HIDE DEF markReady
    <2>7. ASSUME NEW v \in Worker, v # w, pc'[v] \in Processing
          PROVE  job'[v] = job[v] /\ pc[v] \in Processing /\ status'[job[v]] = status[job[v]]
      BY <1>0, <2>1, <2>2, <2>4, <2>5, <2>7 DEF RowsOK, WorkerHas
    <2>8. pc'[w] \in Processing => pc'[w] = "markFailed" /\ job'[w] = job[w]
            /\ status'[job[w]] \in {status[job[w]], "READY"}
      BY <1>0, <2>1, <2>3, <2>4 DEF RowsOK
    <2>9. ASSUME NEW v \in Worker, v # w, pc'[v] \in Processing, job'[v] \notin late'
          PROVE  \/ status'[job'[v]] = "RUNNING"
                 \/ status'[job'[v]] = "READY" /\ pc'[v] = "markFailed"
      BY <1>0, <2>2, <2>4, <2>7, <2>9 DEF HeartbeatKeepsRow
    <2>10. pc'[w] \in Processing /\ job'[w] \notin late' =>
              \/ status'[job'[w]] = "RUNNING"
              \/ status'[job'[w]] = "READY" /\ pc'[w] = "markFailed"
      BY <1>0, <2>4, <2>6, <2>8 DEF HeartbeatKeepsRow
    <2> QED
      BY <2>9, <2>10 DEF HeartbeatKeepsRow
  <1> QED
    BY <1>1, <1>2, <1>3, <1>4

(* markFailed keeps the rest of the invariant. *)
LEMMA InvMarkFailed ==
    ASSUME Inv, NEW w \in Worker, markFailed(w)
    PROVE  WorkerHas' /\ OneWorker' /\ ReadyHasFile' /\ HeartbeatKeepsRow'
  <1> USE DEF markFailed, rows, workers, dispatches, Mark, Free
  <1>0. /\ RowsOK /\ WorkersOK
        /\ WorkerHas /\ OneWorker /\ ReadyHasFile /\ HeartbeatKeepsRow
    BY TypeParts DEF Inv
  <1>1. WorkerHas'
    BY <1>0, ConstantsAssumption, HeartbeatAssumption DEF WorkerHas, RowsOK, WorkersOK
  <1>2. OneWorker'
    BY <1>0, ConstantsAssumption, HeartbeatAssumption DEF OneWorker, WorkerHas, RowsOK, WorkersOK
  <1>3. ReadyHasFile'
    BY <1>0, ConstantsAssumption, HeartbeatAssumption DEF ReadyHasFile, WorkerHas, RowsOK, WorkersOK
  <1>4. HeartbeatKeepsRow'
    BY <1>0, ConstantsAssumption, HeartbeatAssumption DEF HeartbeatKeepsRow, OneWorker, WorkerHas, RowsOK, WorkersOK
  <1> QED
    BY <1>1, <1>2, <1>3, <1>4

(* Heartbeat keeps the rest of the invariant. *)
LEMMA InvHeartbeat ==
    ASSUME Inv, NEW w \in Worker, Heartbeat(w)
    PROVE  WorkerHas' /\ OneWorker' /\ ReadyHasFile' /\ HeartbeatKeepsRow'
  <1> USE DEF Heartbeat, rows, workers, dispatches, touchRunning
  <1>0. /\ RowsOK /\ WorkersOK
        /\ WorkerHas /\ OneWorker /\ ReadyHasFile /\ HeartbeatKeepsRow
    BY TypeParts DEF Inv
  <1>1. WorkerHas'
    BY <1>0, ConstantsAssumption, HeartbeatAssumption DEF WorkerHas, RowsOK, WorkersOK
  <1>2. OneWorker'
    BY <1>0, ConstantsAssumption, HeartbeatAssumption DEF OneWorker, WorkerHas, RowsOK, WorkersOK
  <1>3. ReadyHasFile'
    BY <1>0, ConstantsAssumption, HeartbeatAssumption DEF ReadyHasFile, WorkerHas, RowsOK, WorkersOK
  <1>4. HeartbeatKeepsRow'
    BY <1>0, ConstantsAssumption, HeartbeatAssumption DEF HeartbeatKeepsRow, OneWorker, WorkerHas, RowsOK, WorkersOK
  <1> QED
    BY <1>1, <1>2, <1>3, <1>4

(* onModuleDestroy keeps the rest of the invariant. *)
LEMMA InvOnModuleDestroy ==
    ASSUME Inv, NEW p \in Replica, onModuleDestroy(p)
    PROVE  WorkerHas' /\ OneWorker' /\ ReadyHasFile' /\ HeartbeatKeepsRow'
  <1> USE DEF onModuleDestroy, rows, workers, dispatches
  <1>0. /\ RowsOK /\ WorkersOK
        /\ WorkerHas /\ OneWorker /\ ReadyHasFile /\ HeartbeatKeepsRow
    BY TypeParts DEF Inv
  <1>1. WorkerHas'
    BY <1>0, ConstantsAssumption, HeartbeatAssumption DEF WorkerHas, RowsOK, WorkersOK
  <1>2. OneWorker'
    BY <1>0, ConstantsAssumption, HeartbeatAssumption DEF OneWorker, WorkerHas, RowsOK, WorkersOK
  <1>3. ReadyHasFile'
    BY <1>0, ConstantsAssumption, HeartbeatAssumption DEF ReadyHasFile, WorkerHas, RowsOK, WorkersOK
  <1>4. HeartbeatKeepsRow'
    BY <1>0, ConstantsAssumption, HeartbeatAssumption DEF HeartbeatKeepsRow, OneWorker, WorkerHas, RowsOK, WorkersOK
  <1> QED
    BY <1>1, <1>2, <1>3, <1>4

(* Exit keeps the rest of the invariant. *)
LEMMA InvExit ==
    ASSUME Inv, NEW p \in Replica, Exit(p)
    PROVE  WorkerHas' /\ OneWorker' /\ ReadyHasFile' /\ HeartbeatKeepsRow'
  <1> USE DEF Exit, rows, workers, dispatches, Restart
  <1>0. /\ RowsOK /\ WorkersOK
        /\ WorkerHas /\ OneWorker /\ ReadyHasFile /\ HeartbeatKeepsRow
    BY TypeParts DEF Inv
  <1>1. WorkerHas'
    BY <1>0, ConstantsAssumption, HeartbeatAssumption DEF WorkerHas, RowsOK, WorkersOK
  <1>2. OneWorker'
    BY <1>0, ConstantsAssumption, HeartbeatAssumption DEF OneWorker, WorkerHas, RowsOK, WorkersOK
  <1>3. ReadyHasFile'
    BY <1>0, ConstantsAssumption, HeartbeatAssumption DEF ReadyHasFile, WorkerHas, RowsOK, WorkersOK
  <1>4. HeartbeatKeepsRow'
    BY <1>0, ConstantsAssumption, HeartbeatAssumption DEF HeartbeatKeepsRow, OneWorker, WorkerHas, RowsOK, WorkersOK
  <1> QED
    BY <1>1, <1>2, <1>3, <1>4

(* Crash keeps the rest of the invariant. *)
LEMMA InvCrash ==
    ASSUME Inv, NEW p \in Replica, Crash(p)
    PROVE  WorkerHas' /\ OneWorker' /\ ReadyHasFile' /\ HeartbeatKeepsRow'
  <1> USE DEF Crash, rows, workers, dispatches, Restart
  <1>0. /\ RowsOK /\ WorkersOK
        /\ WorkerHas /\ OneWorker /\ ReadyHasFile /\ HeartbeatKeepsRow
    BY TypeParts DEF Inv
  <1>1. WorkerHas'
    BY <1>0, ConstantsAssumption, HeartbeatAssumption DEF WorkerHas, RowsOK, WorkersOK
  <1>2. OneWorker'
    BY <1>0, ConstantsAssumption, HeartbeatAssumption DEF OneWorker, WorkerHas, RowsOK, WorkersOK
  <1>3. ReadyHasFile'
    BY <1>0, ConstantsAssumption, HeartbeatAssumption DEF ReadyHasFile, WorkerHas, RowsOK, WorkersOK
  <1>4. HeartbeatKeepsRow'
    BY <1>0, ConstantsAssumption, HeartbeatAssumption DEF HeartbeatKeepsRow, OneWorker, WorkerHas, RowsOK, WorkersOK
  <1> QED
    BY <1>1, <1>2, <1>3, <1>4

(* Tick keeps the rest of the invariant. *)
LEMMA InvTick ==
    ASSUME Inv, Tick
    PROVE  WorkerHas' /\ OneWorker' /\ ReadyHasFile' /\ HeartbeatKeepsRow'
  <1> USE DEF Tick, rows, workers, dispatches
  <1>0. /\ RowsOK /\ WorkersOK
        /\ WorkerHas /\ OneWorker /\ ReadyHasFile /\ HeartbeatKeepsRow
    BY TypeParts DEF Inv
  <1>1. WorkerHas'
    BY <1>0, ConstantsAssumption, HeartbeatAssumption DEF WorkerHas, RowsOK, WorkersOK
  <1>2. OneWorker'
    BY <1>0, ConstantsAssumption, HeartbeatAssumption DEF OneWorker, WorkerHas, RowsOK, WorkersOK
  <1>3. ReadyHasFile'
    BY <1>0, ConstantsAssumption, HeartbeatAssumption DEF ReadyHasFile, WorkerHas, RowsOK, WorkersOK
  <1>4. HeartbeatKeepsRow'
    BY <1>0, ConstantsAssumption, HeartbeatAssumption DEF HeartbeatKeepsRow, OneWorker, WorkerHas, RowsOK, WorkersOK
  <1> QED
    BY <1>1, <1>2, <1>3, <1>4

(* The inductive invariant holds initially. *)
LEMMA InvInit == Init => Inv
  <1> SUFFICES ASSUME Init
               PROVE  Inv
    OBVIOUS
  <1>1. TypeOK
    BY TypeInit
  <1>2. WorkerHas /\ OneWorker /\ ReadyHasFile /\ HeartbeatKeepsRow
    BY DEF Init, WorkerHas, OneWorker, ReadyHasFile, HeartbeatKeepsRow
  <1> QED
    BY <1>1, <1>2 DEF Inv

(* Every step keeps the inductive invariant. *)
LEMMA InvNext == Inv /\ [Next]_vars => Inv'
  <1> SUFFICES ASSUME Inv, [Next]_vars
               PROVE  Inv'
    OBVIOUS
  <1>0. TypeOK /\ WorkerHas
    BY DEF Inv
  <1>1. ASSUME NEW r \in Request, createPending(r)
        PROVE  Inv'
    BY <1>1, <1>0, TypeCreatePending, InvCreatePending DEF Inv
  <1>2. ASSUME NEW d \in Dispatch, dispatch(d)
        PROVE  Inv'
    BY <1>2, <1>0, TypeDispatch, InvDispatch DEF Inv
  <1>3. ASSUME NEW d \in Dispatch, recoverStaleRunning(d)
        PROVE  Inv'
    BY <1>3, <1>0, TypeRecoverStaleRunning, InvRecoverStaleRunning DEF Inv
  <1>4. ASSUME NEW d \in Dispatch, countFreshRunning(d)
        PROVE  Inv'
    BY <1>4, <1>0, TypeCountFreshRunning, InvCountFreshRunning DEF Inv
  <1>5. ASSUME NEW d \in Dispatch, StartWorkers(d)
        PROVE  Inv'
    BY <1>5, <1>0, TypeStartWorkers, InvStartWorkers DEF Inv
  <1>6. ASSUME NEW d \in Dispatch, DispatchFails(d)
        PROVE  Inv'
    BY <1>6, <1>0, TypeDispatchFails, InvDispatchFails DEF Inv
  <1>7. ASSUME NEW w \in Worker, FindPending(w)
        PROVE  Inv'
    BY <1>7, <1>0, TypeFindPending, InvFindPending DEF Inv
  <1>8. ASSUME NEW w \in Worker, Claim(w)
        PROVE  Inv'
    BY <1>8, <1>0, TypeClaim, InvClaim DEF Inv
  <1>9. ASSUME NEW w \in Worker, ClaimFails(w)
        PROVE  Inv'
    BY <1>9, <1>0, TypeClaimFails, InvClaimFails DEF Inv
  <1>10. ASSUME NEW w \in Worker, Generate(w)
        PROVE  Inv'
    BY <1>10, <1>0, TypeGenerate, InvGenerate DEF Inv
  <1>11. ASSUME NEW w \in Worker, Upload(w)
        PROVE  Inv'
    BY <1>11, <1>0, TypeUpload, InvUpload DEF Inv
  <1>12. ASSUME NEW w \in Worker, markReady(w)
        PROVE  Inv'
    BY <1>12, <1>0, TypeMarkReady, InvMarkReady DEF Inv
  <1>13. ASSUME NEW w \in Worker, markFailed(w)
        PROVE  Inv'
    BY <1>13, <1>0, TypeMarkFailed, InvMarkFailed DEF Inv
  <1>14. ASSUME NEW w \in Worker, Heartbeat(w)
        PROVE  Inv'
    BY <1>14, <1>0, TypeHeartbeat, InvHeartbeat DEF Inv
  <1>15. ASSUME NEW p \in Replica, onModuleDestroy(p)
        PROVE  Inv'
    BY <1>15, <1>0, TypeOnModuleDestroy, InvOnModuleDestroy DEF Inv
  <1>16. ASSUME NEW p \in Replica, Exit(p)
        PROVE  Inv'
    BY <1>16, <1>0, TypeExit, InvExit DEF Inv
  <1>17. ASSUME NEW p \in Replica, Crash(p)
        PROVE  Inv'
    BY <1>17, <1>0, TypeCrash, InvCrash DEF Inv
  <1>18. ASSUME Tick
        PROVE  Inv'
    BY <1>18, <1>0, TypeTick, InvTick DEF Inv
  <1>19. CASE UNCHANGED vars
    BY <1>19 DEF vars, Inv, TypeOK, WorkerHas, OneWorker, ReadyHasFile, HeartbeatKeepsRow
  <1> QED
    BY <1>1, <1>2, <1>3, <1>4, <1>5, <1>6, <1>7, <1>8, <1>9, <1>10, <1>11, <1>12, <1>13, <1>14, <1>15, <1>16, <1>17, <1>18, <1>19 DEF Next, Polling, Work

(* Inv is an invariant of the specification. *)
LEMMA Invariance == Spec => []Inv
  BY InvInit, InvNext, PTL DEF Spec

(* The rows, dispatches and workers of the report downloads keep their      *)
(* types (TypeOK).                                                         *)
THEOREM TypeCorrect == Spec => []TypeOK
  <1>1. Inv => TypeOK
    BY DEF Inv
  <1> QED
    BY <1>1, Invariance, PTL

(* No two workers ever process one request (OneWorker): the conditional    *)
(* update of claimNextPending() is enough, whatever fails.                 *)
THEOREM ClaimedOnce == Spec => []OneWorker
  <1>1. Inv => OneWorker
    BY DEF Inv
  <1> QED
    BY <1>1, Invariance, PTL

(* A READY request has its file (ReadyHasFile), also when markReady() or   *)
(* the upload fails halfway.                                               *)
THEOREM ReadyIsThere == Spec => []ReadyHasFile
  <1>1. Inv => ReadyHasFile
    BY DEF Inv
  <1> QED
    BY <1>1, Invariance, PTL

(* A worker whose heartbeats arrive is never recovered as stale            *)
(* (HeartbeatKeepsRow), for every TTL that is at least the interval.       *)
THEOREM AliveKeepsRow == Spec => []HeartbeatKeepsRow
  <1>1. Inv => HeartbeatKeepsRow
    BY DEF Inv
  <1> QED
    BY <1>1, Invariance, PTL

(* One step moves a status forward or leaves it. *)
LEMMA ForwardNext ==
    ASSUME Inv, [Next]_vars
    PROVE  [\A r \in Request : Forward(status[r], status'[r])]_status
  <1> USE DEF Forward, rows
  <1>0. RowsOK /\ WorkersOK /\ WorkerHas
    BY TypeParts DEF Inv
  <1>1. CASE UNCHANGED status
    BY <1>1
  <1>2. ASSUME NEW r \in Request, createPending(r)
        PROVE  \A x \in Request : Forward(status[x], status'[x])
    BY <1>0, <1>2 DEF RowsOK, WorkersOK, WorkerHas, createPending
  <1>3. ASSUME NEW d \in Dispatch, recoverStaleRunning(d)
        PROVE  \A x \in Request : Forward(status[x], status'[x])
    BY <1>0, <1>3 DEF RowsOK, WorkersOK, WorkerHas, recoverStaleRunning, failStaleRunning, Stale
  <1>4. ASSUME NEW d \in Dispatch, DispatchFails(d)
        PROVE  \A x \in Request : Forward(status[x], status'[x])
    BY <1>0, <1>4 DEF RowsOK, WorkersOK, WorkerHas, DispatchFails, failStaleRunning, Stale
  <1>5. ASSUME NEW w \in Worker, Claim(w)
        PROVE  \A x \in Request : Forward(status[x], status'[x])
    BY <1>0, <1>5 DEF RowsOK, WorkersOK, WorkerHas, Claim, Goto
  <1>6. ASSUME NEW w \in Worker, ClaimFails(w)
        PROVE  \A x \in Request : Forward(status[x], status'[x])
    BY <1>0, <1>6 DEF RowsOK, WorkersOK, WorkerHas, ClaimFails
  <1>7. ASSUME NEW w \in Worker, markReady(w)
        PROVE  \A x \in Request : Forward(status[x], status'[x])
    BY <1>0, <1>7 DEF RowsOK, WorkersOK, WorkerHas, markReady, Mark
  <1>8. ASSUME NEW w \in Worker, markFailed(w)
        PROVE  \A x \in Request : Forward(status[x], status'[x])
    BY <1>0, <1>8 DEF RowsOK, WorkersOK, WorkerHas, markFailed, Mark
  <1>9. ASSUME NEW d \in Dispatch, Polling(d)
        PROVE  UNCHANGED status \/ recoverStaleRunning(d)
    BY <1>9 DEF Polling, dispatch, countFreshRunning, StartWorkers
  <1>10. ASSUME NEW w \in Worker, Work(w)
         PROVE  UNCHANGED status \/ Claim(w) \/ markReady(w) \/ markFailed(w)
    BY <1>10 DEF Work, FindPending, Generate, Upload
  <1>11. ASSUME NEW w \in Worker, Heartbeat(w)
         PROVE  UNCHANGED status
    BY <1>11 DEF Heartbeat
  <1>12. ASSUME NEW p \in Replica, onModuleDestroy(p) \/ Exit(p) \/ Crash(p)
         PROVE  UNCHANGED status
    BY <1>12 DEF onModuleDestroy, Exit, Crash, Restart
  <1>13. CASE Tick
    BY <1>1, <1>13 DEF Tick
  <1>14. CASE UNCHANGED vars
    BY <1>1, <1>14 DEF vars
  <1> HIDE DEF Forward
  <1> QED
    BY <1>1, <1>2, <1>3, <1>4, <1>5, <1>6, <1>7, <1>8, <1>9, <1>10, <1>11, <1>12, <1>13, <1>14 DEF Next

(* A status only moves forward (StatusForward): READY and FAILED are       *)
(* final, and a request is claimed once.                                   *)
THEOREM OnlyForward == Spec => StatusForward
  BY Invariance, ForwardNext, PTL DEF Spec, StatusForward

(* A replica's workers are finitely many. *)
LEMMA ActiveFinite ==
    ASSUME NEW p \in Replica
    PROVE  IsFiniteSet(Active(p)) /\ Cardinality(Active(p)) \in Nat
  <1>1. Active(p) \subseteq Slot
    BY DEF Active
  <1> QED
    BY <1>1, ConstantsAssumption, FS_Subset, FS_CardinalityType

(* A dispatch starts no more workers than maxConcurrent allows, since it   *)
(* counts the replica's own when it starts them.                           *)
LEMMA BoundStart ==
    ASSUME TypeOK, WorkersBounded, NEW d \in Dispatch, StartWorkers(d), NEW p \in Replica
    PROVE  Cardinality(Active(p)') <= MaxConcurrent
  <1> DEFINE q == d[1]
  <1>1. q \in Replica /\ running[d] \in Nat
    BY DEF TypeOK, Dispatch
  <1>2. PICK S \in SUBSET (Slot \ Active(q)) :
          /\ Cardinality(S) = IF Available(d) > 0 THEN Available(d) ELSE 0
          /\ pc' = [w \in Worker |-> IF w[1] = q /\ w[2] \in S THEN "find" ELSE pc[w]]
    BY DEF StartWorkers
  <1>3. CASE p # q
    <2>1. Active(p)' = Active(p)
      BY <1>2, <1>3 DEF Active, Worker
    <2> QED
      BY <2>1 DEF WorkersBounded
  <1>4. CASE p = q
    <2>1. Active(p)' = Active(q) \cup S
      BY <1>2, <1>4 DEF Active, Worker
    <2>2. IsFiniteSet(S) /\ Cardinality(S) \in Nat
      BY <1>2, ConstantsAssumption, FS_Subset, FS_CardinalityType
    <2>3. /\ IsFiniteSet(Active(q) \cap S)
          /\ Cardinality(Active(q) \cap S) \in Nat
          /\ Cardinality(Active(q) \cup S)
                = Cardinality(Active(q)) + Cardinality(S) - Cardinality(Active(q) \cap S)
      BY <1>1, <2>2, ActiveFinite, FS_Union, FS_Intersection, FS_CardinalityType
    <2>4. Cardinality(Active(q)) <= MaxConcurrent
      BY <1>1 DEF WorkersBounded
    <2>5. Available(d) = MaxConcurrent - running[d] - Cardinality(Active(q))
      BY DEF Available
    <2>6. Cardinality(Active(q)) \in Nat
      BY <1>1, ActiveFinite
    <2> HIDE DEF q
    <2> QED
      BY <1>1, <1>2, <2>1, <2>2, <2>3, <2>4, <2>5, <2>6, ConstantsAssumption
  <1> QED
    BY <1>3, <1>4

(* No other step starts a worker. *)
LEMMA OthersStartNone ==
    ASSUME TypeOK, [Next]_vars, ~(\E d \in Dispatch : StartWorkers(d)),
           NEW w \in Worker, pc[w] = "free"
    PROVE  pc'[w] = "free"
  <1>0. WorkersOK
    BY TypeParts
  <1>1. CASE UNCHANGED pc
    BY <1>1
  <1>2. ASSUME NEW v \in Worker, Work(v) \/ ClaimFails(v)
        PROVE  pc'[w] = "free"
    <2>1. pc[v] # "free"
      BY <1>2 DEF Work, FindPending, Claim, ClaimFails, Generate, Upload, markReady, markFailed
    <2>2. \E l : pc' = [pc EXCEPT ![v] = l]
      BY <1>2 DEF Work, FindPending, Claim, ClaimFails, Generate, Upload, markReady, markFailed,
                  Free, Again, Goto
    <2> QED
      BY <1>0, <2>1, <2>2 DEF WorkersOK
  <1>3. ASSUME NEW p \in Replica, Restart(p)
        PROVE  pc'[w] = "free"
    BY <1>3 DEF Restart
  <1>4. \/ UNCHANGED pc
         \/ \E v \in Worker : Work(v) \/ ClaimFails(v)
         \/ \E p \in Replica : Restart(p)
    BY DEF Next, vars, Polling, createPending, dispatch, recoverStaleRunning, countFreshRunning,
           DispatchFails, Heartbeat, onModuleDestroy, Exit, Crash, Tick, workers
  <1> QED
    BY <1>1, <1>2, <1>3, <1>4

(* Every step keeps the bound. *)
LEMMA BoundNext == TypeOK /\ WorkersBounded /\ [Next]_vars => WorkersBounded'
  <1> SUFFICES ASSUME TypeOK, WorkersBounded, [Next]_vars, NEW p \in Replica
               PROVE  Cardinality(Active(p)') <= MaxConcurrent
    BY DEF WorkersBounded
  <1>1. CASE \E d \in Dispatch : StartWorkers(d)
    BY <1>1, BoundStart
  <1>2. CASE ~(\E d \in Dispatch : StartWorkers(d))
    <2>1. Active(p)' \subseteq Active(p)
      BY <1>2, OthersStartNone DEF Active, Worker
    <2>2. Cardinality(Active(p)') <= Cardinality(Active(p)) /\ Cardinality(Active(p)') \in Nat
      BY <2>1, ActiveFinite, FS_Subset, FS_CardinalityType
    <2> QED
      BY <2>2, ActiveFinite, ConstantsAssumption DEF WorkersBounded
  <1> QED
    BY <1>1, <1>2

(* A replica runs at most maxConcurrent workers (WorkersBounded), for any  *)
(* number of overlapping dispatches and any count read.                    *)
THEOREM BoundedWorkers == Spec => []WorkersBounded
  <1>1. Init => WorkersBounded
    <2> SUFFICES ASSUME Init, NEW p \in Replica
                 PROVE  Cardinality(Active(p)) <= MaxConcurrent
      BY DEF WorkersBounded
    <2>1. Active(p) = {}
      BY DEF Init, Active, Worker
    <2> QED
      BY <2>1, FS_EmptySet, ConstantsAssumption
  <1> QED
    BY <1>1, BoundNext, TypeCorrect, PTL DEF Spec

-----------------------------------------------------------------------------
(* TransactionSearch.                                                      *)
(* First, sequences that list a finite set in an order: what Sorted, Take  *)
(* and the merge of two legs return.                                       *)

(* R orders S strictly and totally. *)
Orders(R, S) ==
    /\ \A i \in S : <<i, i>> \notin R
    /\ \A i, j, k \in S : <<i, j>> \in R /\ <<j, k>> \in R => <<i, k>> \in R
    /\ \A i, j \in S : i # j => <<i, j>> \in R \/ <<j, i>> \in R

Below(i, S, R) == {j \in S : <<j, i>> \in R}

(* seq ascends in the order R. *)
Ascends(seq, R) == \A k, l \in DOMAIN seq : k < l => <<seq[k], seq[l]>> \in R

(* seq has the first n members of S, or all if there are fewer. *)
Firsts(seq, S, n, R) ==
    /\ seq \in Seq(S)
    /\ Ascends(seq, R)
    /\ \A i \in S, j \in Elements(seq) : <<i, j>> \in R => i \in Elements(seq)
    /\ Len(seq) <= n
    /\ Len(seq) < n => Elements(seq) = S

(* A part of an ordered set is ordered. *)
LEMMA PartOrdered ==
    ASSUME NEW S, NEW T, T \subseteq S, NEW R, Orders(R, S)
    PROVE  Orders(R, T)
BY DEF Orders

(* The rank of a member, the number of those below it, grows in the order. *)
LEMMA RankGrows ==
    ASSUME NEW S, IsFiniteSet(S), NEW R, Orders(R, S), NEW i \in S
    PROVE  /\ Cardinality(Below(i, S, R)) \in 0 .. Cardinality(S) - 1
           /\ \A j \in S : <<i, j>> \in R => Cardinality(Below(i, S, R)) < Cardinality(Below(j, S, R))
<1>1. \A j \in S : /\ IsFiniteSet(Below(j, S, R))
                   /\ Cardinality(Below(j, S, R)) \in Nat
                   /\ Cardinality(Below(j, S, R)) <= Cardinality(S)
  BY FS_Subset, FS_CardinalityType DEF Below
<1>2. Cardinality(S) \in Nat
  BY FS_CardinalityType
<1>3. i \notin Below(i, S, R)
  BY DEF Below, Orders
<1>4. Cardinality(Below(i, S, R)) # Cardinality(S)
  <2>1. Below(i, S, R) \in SUBSET S /\ Below(i, S, R) # S
    BY <1>3 DEF Below
  <2> QED
    BY <2>1, FS_Subset
<1>5. ASSUME NEW j \in S, <<i, j>> \in R
      PROVE  Cardinality(Below(i, S, R)) < Cardinality(Below(j, S, R))
  <2>1. Below(i, S, R) \cup {i} \subseteq Below(j, S, R)
    BY <1>5 DEF Below, Orders
  <2>2. Cardinality(Below(i, S, R) \cup {i}) = Cardinality(Below(i, S, R)) + 1
    BY <1>1, <1>3, FS_AddElement
  <2>3. Cardinality(Below(i, S, R) \cup {i}) <= Cardinality(Below(j, S, R))
    BY <1>1, <2>1, FS_Subset
  <2> QED
    BY <1>1, <2>2, <2>3
<1> QED
  BY <1>1, <1>2, <1>4, <1>5

(* Members of different ranks are ordered by them. *)
LEMMA RankTells ==
    ASSUME NEW S, IsFiniteSet(S), NEW R, Orders(R, S), NEW i \in S, NEW j \in S
    PROVE  /\ Cardinality(Below(i, S, R)) = Cardinality(Below(j, S, R)) => i = j
           /\ Cardinality(Below(i, S, R)) < Cardinality(Below(j, S, R)) => <<i, j>> \in R
<1>1. /\ Cardinality(Below(i, S, R)) \in Nat
      /\ <<i, j>> \in R => Cardinality(Below(i, S, R)) < Cardinality(Below(j, S, R))
  BY RankGrows
<1>2. /\ Cardinality(Below(j, S, R)) \in Nat
      /\ <<j, i>> \in R => Cardinality(Below(j, S, R)) < Cardinality(Below(i, S, R))
  BY RankGrows
<1>3. i # j => <<i, j>> \in R \/ <<j, i>> \in R
  BY DEF Orders
<1> QED
  BY <1>1, <1>2, <1>3

(* There is a member of every rank. *)
LEMMA RankOnto ==
    ASSUME NEW S, IsFiniteSet(S), NEW R, Orders(R, S)
    PROVE  \A k \in 1 .. Cardinality(S) : \E i \in S : Cardinality(Below(i, S, R)) = k - 1
<1> DEFINE n == Cardinality(S)
           T == 0 .. n - 1
           f == [i \in S |-> Cardinality(Below(i, S, R))]
<1>1. n \in Nat
  BY FS_CardinalityType
<1>2. IsFiniteSet(T) /\ Cardinality(T) = n
  BY <1>1, FS_Interval
<1>3. f \in Injection(S, T)
  <2>1. f \in [S -> T]
    BY RankGrows
  <2>2. \A i, j \in S : f[i] = f[j] => i = j
    BY RankTells
  <2> QED
    BY <2>1, <2>2 DEF Injection, IsInjective
<1>4. f \in Surjection(S, T)
  BY <1>2, <1>3, FS_Injection
<1>5. \A m \in T : \E i \in S : f[i] = m
  BY <1>4 DEF Surjection
<1>6. \A k \in 1 .. n : k - 1 \in T
  BY <1>1
<1> QED
  BY <1>5, <1>6

(* The sequence of the members by rank. *)
LEMMA ByRank ==
    ASSUME NEW S, IsFiniteSet(S), NEW R, Orders(R, S),
           NEW seq, seq \in [1 .. Cardinality(S) -> S],
           \A k \in 1 .. Cardinality(S) : Cardinality(Below(seq[k], S, R)) = k - 1
    PROVE  seq \in Seq(S) /\ Len(seq) = Cardinality(S) /\ Ascends(seq, R) /\ Elements(seq) = S
<1>1. Cardinality(S) \in Nat
  BY FS_CardinalityType
<1>2. seq \in Seq(S) /\ Len(seq) = Cardinality(S) /\ DOMAIN seq = 1 .. Cardinality(S)
  BY <1>1
<1>3. Ascends(seq, R)
  <2> SUFFICES ASSUME NEW k \in DOMAIN seq, NEW l \in DOMAIN seq, k < l PROVE <<seq[k], seq[l]>> \in R
    BY DEF Ascends
  <2>1. seq[k] \in S /\ seq[l] \in S /\ Cardinality(Below(seq[k], S, R)) = k - 1 /\ Cardinality(Below(seq[l], S, R)) = l - 1
    BY <1>2
  <2>2. k - 1 < l - 1
    BY <1>2
  <2> QED
    BY <2>1, <2>2, RankTells
<1>4. \A i \in S : \E k \in DOMAIN seq : seq[k] = i
  <2> SUFFICES ASSUME NEW i \in S PROVE \E k \in DOMAIN seq : seq[k] = i
    OBVIOUS
  <2>1. PICK k \in 1 .. Cardinality(S) : k = Cardinality(Below(i, S, R)) + 1
    BY <1>1, RankGrows
  <2>2. seq[k] \in S /\ Cardinality(Below(seq[k], S, R)) = Cardinality(Below(i, S, R))
    BY <2>1, RankGrows
  <2> QED
    BY <1>2, <2>2, RankTells
<1> QED
  BY <1>2, <1>3, <1>4 DEF Elements

(* An ascending sequence has as many members as its length. *)
LEMMA AscendingLength ==
    ASSUME NEW S, NEW R, Orders(R, S), NEW seq \in Seq(S), Ascends(seq, R)
    PROVE  IsFiniteSet(Elements(seq)) /\ Cardinality(Elements(seq)) = Len(seq)
<1>1. Len(seq) \in Nat /\ DOMAIN seq = 1 .. Len(seq) /\ \A k \in 1 .. Len(seq) : seq[k] \in S
  OBVIOUS
<1>2. seq \in [1 .. Len(seq) -> Elements(seq)]
  BY DEF Elements
<1>3. \A k, l \in 1 .. Len(seq) : seq[k] = seq[l] => k = l
  <2> SUFFICES ASSUME NEW k \in 1 .. Len(seq), NEW l \in 1 .. Len(seq), seq[k] = seq[l], k < l PROVE FALSE
    BY <1>1
  <2> QED
    BY <1>1 DEF Ascends, Orders
<1>4. seq \in Bijection(1 .. Len(seq), Elements(seq))
  BY <1>1, <1>2, <1>3 DEF Bijection, Injection, Surjection, IsInjective, Elements
<1>5. ExistsBijection(1 .. Len(seq), Elements(seq))
  BY <1>4 DEF ExistsBijection
<1>6. IsFiniteSet(1 .. Len(seq)) /\ Cardinality(1 .. Len(seq)) = Len(seq)
  <2>1. PICK n \in Nat : n = Len(seq)
    BY <1>1
  <2>2. 1 \in Int /\ n \in Int /\ (n - 1) + 1 = n /\ (1 > n => n = 0)
    OBVIOUS
  <2>3. IsFiniteSet(1 .. n) /\ Cardinality(1 .. n) = IF 1 > n THEN 0 ELSE n - 1 + 1
    BY <2>2, FS_Interval, Zenon
  <2> QED
    BY <2>1, <2>2, <2>3
<1> QED
  BY <1>5, <1>6, FS_Bijection

(* A sequence's members are its elements. *)
LEMMA ElementsOf ==
    ASSUME NEW S, NEW seq \in Seq(S)
    PROVE  /\ Len(seq) \in Nat /\ DOMAIN seq = 1 .. Len(seq)
           /\ Elements(seq) \subseteq S /\ seq \in Seq(Elements(seq))
           /\ \A k \in 1 .. Len(seq) : seq[k] \in Elements(seq)
           /\ \A i \in Elements(seq) : \E k \in 1 .. Len(seq) : seq[k] = i
           /\ Len(seq) = 0 <=> Elements(seq) = {}
<1>1. Len(seq) \in Nat /\ DOMAIN seq = 1 .. Len(seq) /\ \A k \in 1 .. Len(seq) : seq[k] \in S
  OBVIOUS
<1>2. /\ \A k \in 1 .. Len(seq) : seq[k] \in Elements(seq)
      /\ \A i \in Elements(seq) : \E k \in 1 .. Len(seq) : seq[k] = i
  BY <1>1 DEF Elements
<1>3. seq \in [1 .. Len(seq) -> Elements(seq)]
  <2>1. seq = [k \in 1 .. Len(seq) |-> seq[k]]
    OBVIOUS
  <2> QED
    BY <1>2, <2>1
<1>4. seq \in Seq(Elements(seq))
  BY <1>1, <1>3
<1>5. Len(seq) = 0 <=> 1 .. Len(seq) = {}
  BY <1>1
<1>6. 1 .. Len(seq) = {} <=> Elements(seq) = {}
  BY <1>2
<1>7. Elements(seq) \subseteq S
  BY <1>1, <1>2
<1> QED
  BY <1>1, <1>2, <1>4, <1>5, <1>6, <1>7, Zenon

(* Take cuts a sequence. *)
LEMMA Taken ==
    ASSUME NEW S, NEW seq \in Seq(S), NEW n \in Nat
    PROVE  /\ Take(seq, n) \in Seq(S)
           /\ Len(Take(seq, n)) = IF Len(seq) < n THEN Len(seq) ELSE n
           /\ \A k \in 1 .. Len(Take(seq, n)) : Take(seq, n)[k] = seq[k] /\ k \in 1 .. Len(seq)
           /\ Elements(Take(seq, n)) \subseteq Elements(seq)
<1> DEFINE m == IF Len(seq) < n THEN Len(seq) ELSE n
<1>1. Len(seq) \in Nat /\ m \in Nat /\ m <= Len(seq) /\ DOMAIN seq = 1 .. Len(seq)
  OBVIOUS
<1>2. Take(seq, n) = SubSeq(seq, 1, m)
  BY DEF Take
<1>3. /\ SubSeq(seq, 1, m) \in Seq(S) /\ Len(SubSeq(seq, 1, m)) = m
      /\ \A k \in 1 .. m : SubSeq(seq, 1, m)[k] = seq[k] /\ k \in 1 .. Len(seq)
  BY <1>1
<1>4. Elements(SubSeq(seq, 1, m)) \subseteq Elements(seq)
  BY <1>1, <1>3 DEF Elements
<1> QED
  BY <1>2, <1>3, <1>4

(* The head of an ascending sequence is the first of what it enumerates. *)
LEMMA TakeFirsts ==
    ASSUME NEW S, NEW R, Orders(R, S), NEW n \in Nat,
           NEW seq \in Seq(S), Ascends(seq, R), Elements(seq) = S
    PROVE  Firsts(Take(seq, n), S, n, R)
<1> DEFINE t == Take(seq, n)
<1>1. /\ t \in Seq(S)
      /\ Len(t) = IF Len(seq) < n THEN Len(seq) ELSE n
      /\ \A k \in 1 .. Len(t) : t[k] = seq[k] /\ k \in 1 .. Len(seq)
  BY Taken
<1>2. Len(seq) \in Nat /\ DOMAIN seq = 1 .. Len(seq) /\ Len(t) \in Nat /\ DOMAIN t = 1 .. Len(t)
  BY <1>1
<1> HIDE DEF t
<1>3. Ascends(t, R)
  BY <1>1, <1>2 DEF Ascends
<1>4. ASSUME NEW i \in S, NEW j \in Elements(t), <<i, j>> \in R PROVE i \in Elements(t)
  <2>1. PICK k \in 1 .. Len(t) : t[k] = j
    BY <1>1, ElementsOf
  <2>2. PICK l \in 1 .. Len(seq) : seq[l] = i
    BY ElementsOf
  <2>3. seq[k] = j /\ k \in 1 .. Len(seq)
    BY <1>1, <2>1
  <2>4. CASE l < k
    <3>1. l \in 1 .. Len(t)
      BY <1>2, <2>4
    <3> QED
      BY <1>1, <2>2, <3>1, ElementsOf
  <2>5. CASE l = k
    BY <1>4, <2>2, <2>3, <2>5 DEF Orders
  <2>6. CASE k < l
    <3>1. <<j, i>> \in R
      BY <1>2, <2>2, <2>3, <2>6 DEF Ascends
    <3>2. i \in S /\ j \in S
      BY <2>3, ElementsOf
    <3> QED
      BY <1>4, <3>1, <3>2 DEF Orders
  <2> QED
    BY <1>2, <2>4, <2>5, <2>6
<1>5. Len(t) < n => Elements(t) = S
  <2> HAVE Len(t) < n
  <2>1. Len(t) = IF Len(seq) < n THEN Len(seq) ELSE n
    BY <1>1
  <2>2. Len(t) = Len(seq)
    <3>1. CASE Len(seq) < n
      BY <2>1, <3>1, Zenon
    <3>2. CASE ~(Len(seq) < n)
      <4>1. Len(t) = n
        BY <2>1, <3>2, Zenon
      <4> QED
        BY <4>1
    <3> QED
      BY <3>1, <3>2
  <2>3. DOMAIN t = DOMAIN seq /\ \A k \in DOMAIN seq : t[k] = seq[k]
    BY <1>1, <1>2, <2>2
  <2> QED
    BY <2>3 DEF Elements
<1>6. Len(t) <= n
  <2>1. Len(t) = IF Len(seq) < n THEN Len(seq) ELSE n
    BY <1>1
  <2> QED
    BY <1>2, <2>1
<1> QED
  BY <1>1, <1>3, <1>4, <1>5, <1>6 DEF Firsts, t

(* Of the first n of two sets, the first n are those of their union. *)
LEMMA MergeHalf ==
    ASSUME NEW A, NEW B, NEW R, Orders(R, A \cup B), NEW n \in Nat, NEW a, NEW c,
           NEW U, Elements(a) \subseteq U, U \subseteq A \cup B,
           Firsts(a, A, n, R), Firsts(c, U, n, R)
    PROVE  /\ \A i \in A, j \in Elements(c) : <<i, j>> \in R => i \in Elements(c)
           /\ Len(c) < n => A \subseteq Elements(c)
<1>1. a \in Seq(A) /\ c \in Seq(U) /\ Ascends(a, R) /\ Ascends(c, R)
  BY DEF Firsts
<1>2. Orders(R, A) /\ Orders(R, U)
  BY PartOrdered
<1>3. IsFiniteSet(Elements(a)) /\ Cardinality(Elements(a)) = Len(a)
  BY <1>1, <1>2, AscendingLength
<1>4. IsFiniteSet(Elements(c)) /\ Cardinality(Elements(c)) = Len(c)
  BY <1>1, <1>2, AscendingLength
<1>5. Len(a) \in Nat /\ Len(c) \in Nat /\ Elements(a) \subseteq A /\ Elements(c) \subseteq U
  BY <1>1, ElementsOf
<1>6. ASSUME NEW i \in A, NEW j \in Elements(c), <<i, j>> \in R, i \notin Elements(c) PROVE FALSE
  <2>1. i \notin Elements(a)
    BY <1>6 DEF Firsts
  <2>2. Len(a) = n
    BY <1>5, <2>1 DEF Firsts
  <2>3. \A x \in Elements(a) : <<x, i>> \in R
    BY <1>2, <1>5, <2>1 DEF Firsts, Orders
  <2>4. \A x \in Elements(a) : <<x, j>> \in R
    BY <1>5, <1>6, <2>3 DEF Orders
  <2>5. Elements(a) \cup {j} \subseteq Elements(c)
    BY <2>4 DEF Firsts
  <2>6. j \notin Elements(a)
    BY <1>2, <1>5, <2>4 DEF Orders
  <2>7. Cardinality(Elements(a) \cup {j}) = n + 1
    BY <1>3, <2>2, <2>6, FS_AddElement
  <2>8. n + 1 <= Len(c)
    BY <1>4, <2>5, <2>7, FS_Subset
  <2> QED
    BY <1>5, <2>8 DEF Firsts
<1>7. ASSUME Len(c) < n PROVE A \subseteq Elements(c)
  <2>1. Elements(c) = U
    BY <1>7 DEF Firsts
  <2>2. Len(a) <= Len(c)
    BY <1>3, <1>4, <2>1, FS_Subset
  <2>3. Elements(a) = A
    BY <1>5, <1>7, <2>2 DEF Firsts
  <2> QED
    BY <2>1, <2>3
<1> QED
  BY <1>6, <1>7

(* The first n of the two legs, merged, are the first n of both together (mergeLegs). *)
LEMMA MergeFirsts ==
    ASSUME NEW A, NEW B, NEW R, Orders(R, A \cup B), NEW n \in Nat, NEW a, NEW b, NEW c,
           Firsts(a, A, n, R), Firsts(b, B, n, R),
           Firsts(c, Elements(a) \cup Elements(b), n, R)
    PROVE  Firsts(c, A \cup B, n, R)
<1>1. a \in Seq(A) /\ b \in Seq(B)
  BY DEF Firsts
<1>2. PICK U : U = Elements(a) \cup Elements(b)
  OBVIOUS
<1>3. U \subseteq A \cup B /\ Elements(a) \subseteq U /\ Elements(b) \subseteq U
  BY <1>1, <1>2, ElementsOf
<1>4. Firsts(c, U, n, R)
  BY <1>2
<1>5. /\ \A i \in A, j \in Elements(c) : <<i, j>> \in R => i \in Elements(c)
      /\ Len(c) < n => A \subseteq Elements(c)
  BY <1>3, <1>4, MergeHalf
<1>6. Orders(R, B \cup A) /\ U \subseteq B \cup A
  BY <1>3 DEF Orders
<1>7. /\ \A i \in B, j \in Elements(c) : <<i, j>> \in R => i \in Elements(c)
      /\ Len(c) < n => B \subseteq Elements(c)
  BY <1>3, <1>4, <1>6, MergeHalf
<1>8. c \in Seq(U) /\ Elements(c) \subseteq A \cup B
  BY <1>3, <1>4, ElementsOf DEF Firsts
<1>9. c \in Seq(A \cup B)
  BY <1>3, <1>8
<1>10. Ascends(c, R) /\ Len(c) <= n
  BY <1>4 DEF Firsts
<1> QED
  BY <1>5, <1>7, <1>8, <1>9, <1>10 DEF Firsts

-----------------------------------------------------------------------------
(* The order of the rows and the reads. *)

TableOK == table \in [Id -> Transaction \cup {NoRow}]

OrderOf(field, dir) == {p \in Id \X Id : Before(p[1], p[2], field, dir)}

(* A sort value is a time, or null. *)
LEMMA ValueIsNumber ==
    ASSUME TableOK, NEW i \in Id, NEW field \in Column
    PROVE  table[i][field] \in Nat
<1>1. table[i] \in Transaction \cup {NoRow}
  BY DEF TableOK
<1>2. table[i].started \in Nat /\ table[i].completed \in Nat /\ table[i].correlation \in Nat
  <2>1. CASE table[i] \in Transaction
    BY <2>1 DEF Transaction
  <2>2. CASE table[i] = NoRow
    BY <2>2 DEF NoRow, Null
  <2> QED
    BY <1>1, <2>1, <2>2
<1> QED
  BY <1>2 DEF Column

(* A row that is stored has a started_at and a correlation_id. *)
LEMMA StoredIsStarted ==
    ASSUME TableOK, NEW i \in Stored
    PROVE  /\ i \in Id /\ i \in Nat \ {0}
           /\ table[i].started # Null /\ table[i].correlation # Null
<1>1. i \in Id /\ table[i] \in Transaction
  BY DEF TableOK, Stored
<1>2. i \in Nat \ {0}
  BY <1>1, SearchAssumption DEF Id
<1> QED
  BY <1>1, <1>2 DEF Transaction

(* Ids are a finite set of positive numbers. *)
LEMMA IdsAreFinite == IsFiniteSet(Id) /\ \A i \in Id : i \in Nat /\ i > 0
<1>1. MaxId \in Nat /\ 1 \in Int
  BY SearchAssumption
<1>2. IsFiniteSet(1 .. MaxId)
  BY <1>1, FS_Interval
<1> QED
  BY <1>1, <1>2 DEF Id

(* ORDER BY column, id is a strict total order of the rows, nulls included. *)
LEMMA BeforeOrders ==
    ASSUME TableOK, NEW field \in Column, NEW dir \in Direction
    PROVE  Orders(OrderOf(field, dir), Id)
<1>1. \A i \in Id : table[i][field] \in Nat /\ i \in Nat
  BY ValueIsNumber, IdsAreFinite
<1>2. \A i, j \in Id : <<i, j>> \in OrderOf(field, dir) <=> Before(i, j, field, dir)
  BY DEF OrderOf
<1>3. \A i \in Id : ~Before(i, i, field, dir)
  BY <1>1 DEF Before
<1>4. \A i, j, k \in Id : Before(i, j, field, dir) /\ Before(j, k, field, dir) => Before(i, k, field, dir)
  BY <1>1 DEF Before
<1>5. \A i, j \in Id : i # j => Before(i, j, field, dir) \/ Before(j, i, field, dir)
  BY <1>1 DEF Before
<1> QED
  BY <1>2, <1>3, <1>4, <1>5 DEF Orders

(* The flipped direction is the reverse order. *)
LEMMA FlipFlips ==
    ASSUME NEW dir \in Direction
    PROVE  /\ Flip(dir) \in Direction /\ Flip(Flip(dir)) = dir
           /\ \A i, j, field : Before(i, j, field, Flip(dir)) <=> Before(j, i, field, dir)
BY DEF Flip, Direction, Before

(* What Sorted makes of a set, for the order of the database and for that *)
(* of the merge. *)
ByColumn(S, field, dir) ==
    [k \in 1..Cardinality(S) |->
        CHOOSE i \in S : Cardinality({j \in S : Before(j, i, field, dir)}) = k - 1]

ByMerge(S, meta, dir) ==
    [k \in 1..Cardinality(S) |->
        CHOOSE i \in S : Cardinality({j \in S : compareForMerge(j, i, meta, dir) < 0}) = k - 1]

(* ORDER BY. *)
LEMMA SortedBefore ==
    ASSUME TableOK, NEW field \in Column, NEW dir \in Direction, NEW S, S \subseteq Id,
           NEW seq, seq = ByColumn(S, field, dir)
    PROVE  seq \in Seq(S) /\ Ascends(seq, OrderOf(field, dir)) /\ Elements(seq) = S
<1>1. PICK R : R = OrderOf(field, dir)
  OBVIOUS
<1>2. IsFiniteSet(S) /\ Orders(R, S)
  BY <1>1, IdsAreFinite, FS_Subset, BeforeOrders, PartOrdered
<1>3. seq = [k \in 1..Cardinality(S) |->
               CHOOSE i \in S : Cardinality({j \in S : Before(j, i, field, dir)}) = k - 1]
  BY DEF ByColumn
<1>4. \A i \in S : {j \in S : Before(j, i, field, dir)} = Below(i, S, R)
  BY <1>1 DEF Below, OrderOf
<1>5. \A k \in 1 .. Cardinality(S) : \E i \in S : Cardinality({j \in S : Before(j, i, field, dir)}) = k - 1
  <2> SUFFICES ASSUME NEW k \in 1 .. Cardinality(S)
               PROVE  \E i \in S : Cardinality({j \in S : Before(j, i, field, dir)}) = k - 1
    OBVIOUS
  <2>1. PICK i \in S : Cardinality(Below(i, S, R)) = k - 1
    BY <1>2, RankOnto
  <2>2. {j \in S : Before(j, i, field, dir)} = Below(i, S, R)
    BY <1>4
  <2> QED
    BY <2>1, <2>2, Zenon
<1>6. \A k \in 1 .. Cardinality(S) :
        /\ seq[k] \in S
        /\ Cardinality({j \in S : Before(j, seq[k], field, dir)}) = k - 1
  BY <1>3, <1>5
<1>7. seq \in [1 .. Cardinality(S) -> S]
  BY <1>3, <1>6
<1>8. \A k \in 1 .. Cardinality(S) : Cardinality(Below(seq[k], S, R)) = k - 1
  BY <1>4, <1>6
<1> QED
  BY <1>1, <1>2, <1>7, <1>8, ByRank

(* What compareValues tells of two values. *)
LEMMA ValuesCompare ==
    ASSUME NEW x \in Nat, NEW y \in Nat
    PROVE  /\ compareValues(x, y, "ASC") = IF x = y THEN 0 ELSE IF x < y THEN -1 ELSE 1
           /\ compareValues(x, y, "DESC") = IF x = y THEN 0 ELSE IF y < x THEN -1 ELSE 1
<1>1. CASE x = y
  BY <1>1 DEF compareValues
<1>2. CASE x # y /\ x = 0
  BY <1>2 DEF compareValues, Null
<1>3. CASE x # y /\ y = 0
  BY <1>3 DEF compareValues, Null
<1>4. CASE x # y /\ x # 0 /\ y # 0
  <2>1. \A dir : compareValues(x, y, dir) = IF (x < y) = (dir = "ASC") THEN -1 ELSE 1
    BY <1>4, Zenon DEF compareValues, Null
  <2>2. compareValues(x, y, "ASC") = IF x < y THEN -1 ELSE 1
    <3>1. CASE x < y
      BY <2>1, <3>1
    <3>2. CASE ~(x < y)
      BY <2>1, <3>2
    <3> QED
      BY <3>1, <3>2
  <2>3. compareValues(x, y, "DESC") = IF x < y THEN 1 ELSE -1
    <3>1. CASE x < y
      BY <2>1, <3>1
    <3>2. CASE ~(x < y)
      BY <2>1, <3>2
    <3> QED
      BY <3>1, <3>2
  <2> QED
    BY <1>4, <2>2, <2>3
<1> QED
  BY <1>1, <1>2, <1>3, <1>4

(* The comparison of the merge is the order of the database. *)
LEMMA MergeCompares ==
    ASSUME TableOK, NEW field \in Column, NEW dir \in Direction, NEW meta, meta.field = field,
           NEW i \in Id, NEW j \in Id
    PROVE  compareForMerge(i, j, meta, dir) < 0 <=> Before(i, j, field, dir)
<1>1. PICK v, w : v = table[i][field] /\ w = table[j][field]
  OBVIOUS
<1>2. v \in Nat /\ w \in Nat /\ i \in Nat /\ j \in Nat /\ i > 0 /\ j > 0
  BY <1>1, ValueIsNumber, IdsAreFinite
<1>3. compareForMerge(i, j, meta, dir) =
        IF compareValues(v, w, dir) # 0 THEN compareValues(v, w, dir) ELSE compareValues(i, j, dir)
  BY <1>1 DEF compareForMerge
<1>4. CASE dir = "ASC"
  <2>1. \A x, y \in Nat : /\ compareValues(x, y, dir) \in {-1, 0, 1}
                          /\ compareValues(x, y, dir) = 0 <=> x = y
                          /\ compareValues(x, y, dir) = -1 <=> x < y
    BY <1>4, ValuesCompare
  <2>2. Before(i, j, field, dir) <=> v < w \/ (v = w /\ i < j)
    BY <1>1, <1>4 DEF Before
  <2> QED
    BY <1>2, <1>3, <2>1, <2>2
<1>5. CASE dir = "DESC"
  <2>1. \A x, y \in Nat : /\ compareValues(x, y, dir) \in {-1, 0, 1}
                          /\ compareValues(x, y, dir) = 0 <=> x = y
                          /\ compareValues(x, y, dir) = -1 <=> y < x
    BY <1>5, ValuesCompare
  <2>2. Before(i, j, field, dir) <=> w < v \/ (w = v /\ j < i)
    BY <1>1, <1>5 DEF Before
  <2> QED
    BY <1>2, <1>3, <2>1, <2>2
<1> QED
  BY <1>4, <1>5 DEF Direction

(* The sort of mergeLegs. *)
LEMMA SortedMerge ==
    ASSUME TableOK, NEW field \in Column, NEW dir \in Direction, NEW meta, meta.field = field,
           NEW S, S \subseteq Id,
           NEW seq, seq = ByMerge(S, meta, dir)
    PROVE  seq \in Seq(S) /\ Ascends(seq, OrderOf(field, dir)) /\ Elements(seq) = S
<1>1. PICK R : R = OrderOf(field, dir)
  OBVIOUS
<1>2. IsFiniteSet(S) /\ Orders(R, S)
  BY <1>1, IdsAreFinite, FS_Subset, BeforeOrders, PartOrdered
<1>3. seq = [k \in 1..Cardinality(S) |->
               CHOOSE i \in S : Cardinality({j \in S : compareForMerge(j, i, meta, dir) < 0}) = k - 1]
  BY DEF ByMerge
<1>4. \A i \in S : {j \in S : compareForMerge(j, i, meta, dir) < 0} = Below(i, S, R)
  BY <1>1, MergeCompares DEF Below, OrderOf
<1>5. \A k \in 1 .. Cardinality(S) :
        \E i \in S : Cardinality({j \in S : compareForMerge(j, i, meta, dir) < 0}) = k - 1
  <2> SUFFICES ASSUME NEW k \in 1 .. Cardinality(S)
               PROVE  \E i \in S : Cardinality({j \in S : compareForMerge(j, i, meta, dir) < 0}) = k - 1
    OBVIOUS
  <2>1. PICK i \in S : Cardinality(Below(i, S, R)) = k - 1
    BY <1>2, RankOnto
  <2>2. {j \in S : compareForMerge(j, i, meta, dir) < 0} = Below(i, S, R)
    BY <1>4
  <2> QED
    BY <2>1, <2>2, Zenon
<1>6. \A k \in 1 .. Cardinality(S) :
        /\ seq[k] \in S
        /\ Cardinality({j \in S : compareForMerge(j, seq[k], meta, dir) < 0}) = k - 1
  BY <1>3, <1>5
<1>7. seq \in [1 .. Cardinality(S) -> S]
  BY <1>3, <1>6
<1>8. \A k \in 1 .. Cardinality(S) : Cardinality(Below(seq[k], S, R)) = k - 1
  BY <1>4, <1>6
<1> QED
  BY <1>1, <1>2, <1>7, <1>8, ByRank

(* The rows a read is about, and those of one leg. *)
Found(q, dir, cursor) ==
    {i \in Visible(q.criteria) : cursor # NoCursor => keysetWhere(sortMeta(q.column), dir, cursor, i)}

FoundLeg(q, dir, cursor, leg) ==
    {i \in applyCriteria(q.criteria) :
        /\ leg # "none" => table[i][leg] = Caller
        /\ cursor # NoCursor => keysetWhere(sortMeta(q.column), dir, cursor, i)}

(* What is found are stored rows. *)
LEMMA RowsAreIds ==
    ASSUME NEW criteria
    PROVE  applyCriteria(criteria) \subseteq Stored /\ Visible(criteria) \subseteq Stored /\ Stored \subseteq Id
BY DEF applyCriteria, Visible, Stored

(* One leg of a read (fetchLeg): its first rows after the cursor. *)
LEMMA LegIsFirsts ==
    ASSUME TableOK, NEW q, q.column \in Column, NEW dir \in Direction, NEW cursor, NEW limit \in Nat, NEW leg
    PROVE  Firsts(fetchLeg(q.criteria, sortMeta(q.column), dir, cursor, limit, leg),
                  FoundLeg(q, dir, cursor, leg), limit, OrderOf(q.column, dir))
<1>1. PICK S : S = FoundLeg(q, dir, cursor, leg)
  OBVIOUS
<1>2. S \subseteq Id
  BY <1>1, RowsAreIds DEF FoundLeg
<1>3. PICK seq : seq = ByColumn(S, q.column, dir)
  OBVIOUS
<1>4. seq \in Seq(S) /\ Ascends(seq, OrderOf(q.column, dir)) /\ Elements(seq) = S
  BY <1>2, <1>3, SortedBefore
<1>5. fetchLeg(q.criteria, sortMeta(q.column), dir, cursor, limit, leg) = Take(seq, limit)
  BY <1>1, <1>3 DEF fetchLeg, FoundLeg, sortMeta, Sorted, ByColumn
<1>6. Orders(OrderOf(q.column, dir), S)
  BY <1>2, BeforeOrders, PartOrdered
<1> QED
  BY <1>1, <1>4, <1>5, <1>6, TakeFirsts

(* A read returns the first rows after its cursor, of both legs together. *)
LEMMA FetchIsFirsts ==
    ASSUME TableOK, NEW q, q.column \in Column, NEW dir \in Direction, NEW cursor, NEW limit \in Nat
    PROVE  Firsts(FetchRows(q, dir, cursor, limit), Found(q, dir, cursor), limit, OrderOf(q.column, dir))
<1>1. PICK R : R = OrderOf(q.column, dir)
  OBVIOUS
<1>2. CASE Caller = NoFsp
  <2>1. FoundLeg(q, dir, cursor, "none") = Found(q, dir, cursor)
    BY <1>2 DEF FoundLeg, Found, Visible
  <2>2. FetchRows(q, dir, cursor, limit) = fetchLeg(q.criteria, sortMeta(q.column), dir, cursor, limit, "none")
    BY <1>2 DEF FetchRows
  <2> QED
    BY <2>1, <2>2, LegIsFirsts
<1>3. CASE Caller # NoFsp
  <2>1. PICK A, B : A = FoundLeg(q, dir, cursor, "payer") /\ B = FoundLeg(q, dir, cursor, "payee")
    OBVIOUS
  <2>2. A \cup B = Found(q, dir, cursor) /\ A \cup B \subseteq Id
    BY <1>3, <2>1, RowsAreIds DEF FoundLeg, Found, Visible
  <2>3. PICK a, b : /\ a = fetchLeg(q.criteria, sortMeta(q.column), dir, cursor, limit, "payer")
                    /\ b = fetchLeg(q.criteria, sortMeta(q.column), dir, cursor, limit, "payee")
    OBVIOUS
  <2>4. Firsts(a, A, limit, R) /\ Firsts(b, B, limit, R)
    BY <1>1, <2>1, <2>3, LegIsFirsts
  <2>5. PICK U : U = Elements(a) \cup Elements(b)
    OBVIOUS
  <2>6. Elements(a) \subseteq A /\ Elements(b) \subseteq B
    BY <2>4, ElementsOf DEF Firsts
  <2>7. U \subseteq Id
    BY <2>2, <2>5, <2>6
  <2>8. PICK seq : seq = ByMerge(U, sortMeta(q.column), dir)
    OBVIOUS
  <2>9. sortMeta(q.column).field = q.column
    BY DEF sortMeta
  <2>10. seq \in Seq(U) /\ Ascends(seq, R) /\ Elements(seq) = U
    BY <1>1, <2>7, <2>8, <2>9, SortedMerge
  <2>11. Orders(R, U) /\ Orders(R, A \cup B)
    BY <1>1, <2>2, <2>7, BeforeOrders, PartOrdered
  <2>12. Firsts(Take(seq, limit), U, limit, R)
    BY <2>10, <2>11, TakeFirsts
  <2>13. FetchRows(q, dir, cursor, limit) = Take(seq, limit)
    BY <1>3, <2>3, <2>5, <2>8 DEF FetchRows, mergeLegs, Sorted, ByMerge
  <2>14. Firsts(Take(seq, limit), A \cup B, limit, R)
    BY <2>4, <2>5, <2>11, <2>12, MergeFirsts
  <2> QED
    BY <1>1, <2>2, <2>13, <2>14
<1> QED
  BY <1>2, <1>3

(* One row more is read than is shown, to see whether there are more. *)
LEMMA PageOfFirsts ==
    ASSUME NEW A, NEW R, Orders(R, A), NEW n \in Nat, NEW found, Firsts(found, A, n + 1, R),
           NEW page, page = Take(found, n)
    PROVE  /\ page \in Seq(A) /\ Ascends(page, R) /\ Len(page) \in Nat /\ Len(page) <= n
           /\ Elements(page) \subseteq A
           /\ \A i \in A \ Elements(page), j \in Elements(page) : <<j, i>> \in R
           /\ Len(found) > n => Len(page) = n /\ \E i \in A : i \notin Elements(page)
           /\ ~(Len(found) > n) => Elements(page) = A
<1>0. found \in Seq(A) /\ Ascends(found, R)
  BY DEF Firsts
<1>1. Len(found) \in Nat /\ DOMAIN found = 1 .. Len(found) /\ Len(found) <= n + 1
  BY <1>0, ElementsOf DEF Firsts
<1>2. PICK E : E = Elements(found)
  OBVIOUS
<1>a. \A i \in A, j \in E : <<i, j>> \in R => i \in E
  BY <1>2 DEF Firsts
<1>b. Len(found) < n + 1 => E = A
  BY <1>2 DEF Firsts
<1>3. E \subseteq A /\ found \in Seq(E)
  BY <1>0, <1>2, ElementsOf
<1>4. Orders(R, E)
  BY <1>3, PartOrdered
<1>5. Firsts(page, E, n, R)
  <2>1. Firsts(Take(found, n), E, n, R)
    BY <1>0, <1>2, <1>3, <1>4, TakeFirsts
  <2> QED
    BY <2>1
<1>6. page \in Seq(E) /\ Len(page) \in Nat /\ Elements(page) \subseteq E /\ page \in Seq(A)
  <2>1. page \in Seq(E)
    BY <1>5 DEF Firsts
  <2>2. page \in Seq(A)
    BY <1>3, <2>1
  <2> QED
    BY <2>1, <2>2, ElementsOf
<1>c. Len(page) = IF Len(found) < n THEN Len(found) ELSE n
  BY <1>0, Taken
<1>d. \A k \in 1 .. Len(page) : page[k] = found[k]
  BY <1>0, Taken
<1>7. ASSUME NEW i \in A, i \notin Elements(page), NEW j \in Elements(page) PROVE <<j, i>> \in R
  <2>1. j \in E /\ j \in A /\ i # j
    BY <1>3, <1>6, <1>7
  <2>2. <<i, j>> \notin R
    <3> SUFFICES ASSUME <<i, j>> \in R PROVE FALSE
      OBVIOUS
    <3>1. i \in E
      BY <1>a, <2>1
    <3> QED
      BY <1>5, <1>7, <3>1 DEF Firsts
  <2> QED
    BY <2>1, <2>2 DEF Orders
<1>8. ASSUME Len(found) > n PROVE Len(page) = n /\ \E i \in A : i \notin Elements(page)
  <2>1. Len(page) = n
    <3>1. ~(Len(found) < n)
      BY <1>1, <1>8
    <3> QED
      BY <1>c, <3>1, Zenon
  <2>2. Cardinality(Elements(page)) = n
    BY <1>4, <1>5, <2>1, AscendingLength DEF Firsts
  <2>3. Cardinality(E) = Len(found)
    BY <1>0, <1>2, <1>3, <1>4, AscendingLength
  <2>4. Elements(page) # E
    BY <1>8, <2>2, <2>3
  <2> QED
    BY <1>3, <1>6, <2>1, <2>4
<1>9. ASSUME ~(Len(found) > n) PROVE Elements(page) = A
  <2>1. E = A
    BY <1>1, <1>b, <1>9
  <2>2. Len(page) = Len(found) /\ \A k \in 1 .. Len(page) : page[k] = found[k]
    <3>1. CASE Len(found) < n
      BY <1>c, <1>d, <3>1, Zenon
    <3>2. CASE ~(Len(found) < n)
      <4>1. Len(page) = n
        BY <1>c, <3>2, Zenon
      <4>2. Len(found) = n
        <5>1. PICK m \in Nat : m = Len(found)
          BY <1>1
        <5>2. ~(m > n) /\ ~(m < n)
          BY <1>9, <3>2, <5>1
        <5> QED
          BY <5>1, <5>2
      <4> QED
        BY <1>d, <4>1, <4>2, Zenon
    <3> QED
      BY <3>1, <3>2
  <2>3. DOMAIN page = DOMAIN found
    BY <1>1, <1>6, <2>2
  <2>4. Elements(page) = Elements(found)
    BY <1>1, <2>2, <2>3 DEF Elements
  <2> QED
    BY <1>2, <2>1, <2>4
<1>10. Len(page) <= n
  BY <1>5 DEF Firsts
<1>11. Ascends(page, R)
  BY <1>5 DEF Firsts
<1> QED
  BY <1>3, <1>6, <1>7, <1>8, <1>9, <1>10, <1>11

(* q says what is searched for and how it is sorted. *)
IsQuery(q) == q.criteria \in Criteria /\ q.column \in Column /\ q.direction \in Direction

(* The order of a query, as a relation between rows. *)
LEMMA ComesOrders ==
    ASSUME TableOK, NEW field \in Column, NEW dir \in Direction
    PROVE  /\ \A i, j \in Id : <<i, j>> \in OrderOf(field, dir) <=> Before(i, j, field, dir)
           /\ \A i \in Id : ~Before(i, i, field, dir)
           /\ \A i, j, k \in Id : Before(i, j, field, dir) /\ Before(j, k, field, dir) => Before(i, k, field, dir)
           /\ \A i, j \in Id : i # j => Before(i, j, field, dir) \/ Before(j, i, field, dir)
           /\ \A i, j \in Id : Before(i, j, field, dir) => ~Before(j, i, field, dir)
<1>1. \A i, j \in Id : <<i, j>> \in OrderOf(field, dir) <=> Before(i, j, field, dir)
  BY DEF OrderOf
<1>2. PICK R : R = OrderOf(field, dir)
  OBVIOUS
<1>3. Orders(R, Id)
  BY <1>2, BeforeOrders
<1>4. \A i, j \in Id : <<i, j>> \in R <=> Before(i, j, field, dir)
  BY <1>1, <1>2
<1>5. \A i \in Id : ~Before(i, i, field, dir)
  BY <1>3, <1>4 DEF Orders
<1>6. \A i, j, k \in Id : Before(i, j, field, dir) /\ Before(j, k, field, dir) => Before(i, k, field, dir)
  BY <1>3, <1>4 DEF Orders
<1>7. \A i, j \in Id : i # j => Before(i, j, field, dir) \/ Before(j, i, field, dir)
  BY <1>3, <1>4 DEF Orders
<1>8. \A i, j \in Id : Before(i, j, field, dir) => ~Before(j, i, field, dir)
  BY <1>5, <1>6
<1> QED
  BY <1>1, <1>5, <1>6, <1>7, <1>8

(* What the query lets through after the cursor of a row is what comes *)
(* after that row. *)
LEMMA KeysetIsBefore ==
    ASSUME TableOK, NEW field \in Column, NEW dir \in Direction, NEW i \in Stored, NEW j \in Stored
    PROVE  keysetWhere(sortMeta(field), dir, encodeCursor(i, sortMeta(field)), j) <=> Before(i, j, field, dir)
<1>1. PICK v, w : v = table[i][field] /\ w = table[j][field]
  OBVIOUS
<1>2. i \in Id /\ j \in Id /\ i \in Nat /\ j \in Nat
  BY StoredIsStarted
<1>3. v \in Nat /\ w \in Nat
  BY <1>1, <1>2, ValueIsNumber
<1>4. field # "completed" => v # 0 /\ w # 0
  BY <1>1, StoredIsStarted DEF Null, Column
<1>5. PICK c : c = encodeCursor(i, sortMeta(field))
  OBVIOUS
<1>6. c.v = v /\ c.id = i
  BY <1>1, <1>5 DEF encodeCursor, sortMeta
<1>7. PICK m : m = sortMeta(field)
  OBVIOUS
<1>8. m.field = field /\ m.nullable = (field = "completed")
  BY <1>7 DEF sortMeta
<1>9. CASE dir = "ASC"
  <2>1. Before(i, j, field, dir) <=> v < w \/ (v = w /\ i < j)
    BY <1>1, <1>9 DEF Before
  <2>2. keysetWhere(m, dir, c, j) <=>
          \/ v = 0 /\ (w # 0 \/ (w = 0 /\ j > i))
          \/ v # 0 /\ w # 0 /\ (w > v \/ (w = v /\ j > i))
    BY <1>1, <1>6, <1>8, <1>9 DEF keysetWhere, Null
  <2> QED
    BY <1>2, <1>3, <1>5, <1>7, <2>1, <2>2
<1>10. CASE dir = "DESC"
  <2>1. Before(i, j, field, dir) <=> w < v \/ (w = v /\ j < i)
    BY <1>1, <1>10 DEF Before
  <2>2. keysetWhere(m, dir, c, j) <=>
          \/ v = 0 /\ w = 0 /\ j < i
          \/ v # 0 /\ ((w # 0 /\ (w < v \/ (w = v /\ j < i))) \/ (field = "completed" /\ w = 0))
    BY <1>1, <1>6, <1>8, <1>10 DEF keysetWhere, Null
  <2> QED
    BY <1>2, <1>3, <1>4, <1>5, <1>7, <2>1, <2>2 DEF Column
<1> QED
  BY <1>9, <1>10 DEF Direction

(* Beyond a cursor means beyond it for every later row too, whatever has *)
(* become of the row it was taken from. *)
LEMMA KeysetIsClosed ==
    ASSUME TableOK, NEW field \in Column, NEW dir \in Direction, NEW i \in Stored, NEW j \in Stored,
           NEW c \in Cursor, keysetWhere(sortMeta(field), dir, c, i), Before(i, j, field, dir)
    PROVE  keysetWhere(sortMeta(field), dir, c, j)
<1>1. PICK v, w : v = table[i][field] /\ w = table[j][field]
  OBVIOUS
<1>2. i \in Id /\ j \in Id /\ i \in Nat /\ j \in Nat
  BY StoredIsStarted
<1>3. v \in Nat /\ w \in Nat
  BY <1>1, <1>2, ValueIsNumber
<1>4. field # "completed" => v # 0 /\ w # 0
  BY <1>1, StoredIsStarted DEF Null, Column
<1>5. PICK u, r : u = c.v /\ r = c.id
  OBVIOUS
<1>6. u \in Nat /\ r \in Nat
  BY <1>5 DEF Cursor
<1>7. PICK m : m = sortMeta(field)
  OBVIOUS
<1>8. m.field = field /\ m.nullable = (field = "completed")
  BY <1>7 DEF sortMeta
<1>a. keysetWhere(m, dir, c, i)
  BY <1>7
<1>9. CASE dir = "ASC"
  <2>1. v < w \/ (v = w /\ i < j)
    BY <1>1, <1>9 DEF Before
  <2>2. keysetWhere(m, dir, c, i) <=>
          \/ u = 0 /\ (v # 0 \/ (v = 0 /\ i > r))
          \/ u # 0 /\ v # 0 /\ (v > u \/ (v = u /\ i > r))
    BY <1>1, <1>5, <1>8, <1>9 DEF keysetWhere, Null
  <2>3. keysetWhere(m, dir, c, j) <=>
          \/ u = 0 /\ (w # 0 \/ (w = 0 /\ j > r))
          \/ u # 0 /\ w # 0 /\ (w > u \/ (w = u /\ j > r))
    BY <1>1, <1>5, <1>8, <1>9 DEF keysetWhere, Null
  <2> QED
    BY <1>2, <1>3, <1>6, <1>7, <1>a, <2>1, <2>2, <2>3
<1>10. CASE dir = "DESC"
  <2>1. w < v \/ (w = v /\ j < i)
    BY <1>1, <1>10 DEF Before
  <2>2. keysetWhere(m, dir, c, i) <=>
          \/ u = 0 /\ v = 0 /\ i < r
          \/ u # 0 /\ ((v # 0 /\ (v < u \/ (v = u /\ i < r))) \/ (field = "completed" /\ v = 0))
    BY <1>1, <1>5, <1>8, <1>10 DEF keysetWhere, Null
  <2>3. keysetWhere(m, dir, c, j) <=>
          \/ u = 0 /\ w = 0 /\ j < r
          \/ u # 0 /\ ((w # 0 /\ (w < u \/ (w = u /\ j < r))) \/ (field = "completed" /\ w = 0))
    BY <1>1, <1>5, <1>8, <1>10 DEF keysetWhere, Null
  <2> QED
    BY <1>2, <1>3, <1>4, <1>6, <1>7, <1>a, <2>1, <2>2, <2>3 DEF Column
<1> QED
  BY <1>9, <1>10 DEF Direction

(* The cursor of a row. *)
LEMMA CursorOfRow ==
    ASSUME TableOK, NEW field \in Column, NEW i \in Stored
    PROVE  /\ encodeCursor(i, sortMeta(field)) \in Cursor
           /\ encodeCursor(i, sortMeta(field)).id = i
           /\ encodeCursor(i, sortMeta(field)) # NoCursor
<1>1. i \in Id /\ i \in Nat \ {0}
  BY StoredIsStarted
<1>2. table[i][field] \in Nat
  BY <1>1, ValueIsNumber
<1>3. encodeCursor(i, sortMeta(field)) = [v |-> table[i][field], id |-> i]
  BY DEF encodeCursor, sortMeta
<1>4. encodeCursor(i, sortMeta(field)).id = i /\ NoCursor.id = 0
  BY <1>3 DEF NoCursor
<1> QED
  BY <1>1, <1>2, <1>3, <1>4 DEF Cursor

(* The place of a cursor in a read of q: the beginning, or after a row. *)
LEMMA BeyondIsClosed ==
    ASSUME TableOK, NEW q, IsQuery(q), NEW c \in Cursor, NEW i \in Stored, NEW j \in Stored,
           Beyond(i, c, q), Comes(i, j, q)
    PROVE  Beyond(j, c, q)
BY KeysetIsClosed DEF Beyond, Comes, IsQuery

(* Beyond the cursor of a row is after that row. *)
LEMMA BeyondARow ==
    ASSUME TableOK, NEW q, IsQuery(q), NEW i \in Stored, NEW j \in Stored,
           NEW c, c = encodeCursor(i, sortMeta(q.column))
    PROVE  Beyond(j, c, q) <=> Comes(i, j, q)
BY KeysetIsBefore, CursorOfRow DEF Beyond, Comes, IsQuery

(* The elements of a concatenation. *)
LEMMA Joined ==
    ASSUME NEW S, NEW s \in Seq(S), NEW t \in Seq(S)
    PROVE  /\ s \o t \in Seq(S) /\ Len(s \o t) = Len(s) + Len(t)
           /\ Elements(s \o t) = Elements(s) \cup Elements(t)
           /\ DOMAIN (s \o t) = 1 .. Len(s) + Len(t)
           /\ \A k \in 1 .. Len(s) : (s \o t)[k] = s[k]
           /\ \A k \in Len(s) + 1 .. Len(s) + Len(t) :
                (s \o t)[k] = t[k - Len(s)] /\ k - Len(s) \in 1 .. Len(t)
<1>1. /\ Len(s) \in Nat /\ Len(t) \in Nat /\ DOMAIN s = 1 .. Len(s) /\ DOMAIN t = 1 .. Len(t)
  OBVIOUS
<1>2. s \o t \in Seq(S) /\ Len(s \o t) = Len(s) + Len(t) /\ DOMAIN (s \o t) = 1 .. Len(s) + Len(t)
  BY <1>1
<1>3. \A k \in 1 .. Len(s) : (s \o t)[k] = s[k] /\ k \in 1 .. Len(s) + Len(t)
  BY <1>1
<1>4. \A k \in Len(s) + 1 .. Len(s) + Len(t) :
        (s \o t)[k] = t[k - Len(s)] /\ k - Len(s) \in 1 .. Len(t)
  BY <1>1
<1>5. \A k \in 1 .. Len(t) : (s \o t)[k + Len(s)] = t[k] /\ k + Len(s) \in 1 .. Len(s) + Len(t)
  BY <1>1
<1>6. \A k \in 1 .. Len(s) + Len(t) : k \in 1 .. Len(s) \/ k \in Len(s) + 1 .. Len(s) + Len(t)
  BY <1>1
<1>7. Elements(s \o t) = Elements(s) \cup Elements(t)
  <2>1. \A i \in Elements(s \o t) : i \in Elements(s) \cup Elements(t)
    BY <1>1, <1>2, <1>3, <1>4, <1>6 DEF Elements
  <2>2. \A i \in Elements(s) : i \in Elements(s \o t)
    BY <1>1, <1>2, <1>3 DEF Elements
  <2>3. \A i \in Elements(t) : i \in Elements(s \o t)
    BY <1>1, <1>2, <1>5 DEF Elements
  <2> QED
    BY <2>1, <2>2, <2>3
<1> QED
  BY <1>2, <1>3, <1>4, <1>7

(* A sequence in order followed by one that comes after it. *)
LEMMA JoinedInOrder ==
    ASSUME NEW q, NEW S, NEW s \in Seq(Id), NEW t \in Seq(Id), InOrder(s, q, S), InOrder(t, q, S),
           \A i \in Elements(s) \cap S, j \in Elements(t) \cap S : Comes(i, j, q)
    PROVE  InOrder(s \o t, q, S)
<1>1. PICK u : u = s \o t
  OBVIOUS
<1>2. PICK m \in Nat, n \in Nat : m = Len(s) /\ n = Len(t)
  OBVIOUS
<1>3. DOMAIN u = 1 .. m + n /\ DOMAIN s = 1 .. m /\ DOMAIN t = 1 .. n
  BY <1>1, <1>2, Joined
<1>4. \A k \in 1 .. m : u[k] = s[k] /\ u[k] \in Elements(s)
  BY <1>1, <1>2, Joined, ElementsOf
<1>5. \A k \in m + 1 .. m + n : u[k] = t[k - m] /\ k - m \in 1 .. n /\ u[k] \in Elements(t)
  <2>1. \A k \in m + 1 .. m + n : u[k] = t[k - m] /\ k - m \in 1 .. n
    BY <1>1, <1>2, Joined
  <2>2. \A k \in 1 .. n : t[k] \in Elements(t)
    BY <1>2, ElementsOf
  <2> QED
    BY <2>1, <2>2
<1>6. ASSUME NEW k \in 1 .. m + n, NEW l \in 1 .. m + n, k < l, u[k] \in S, u[l] \in S
      PROVE  Comes(u[k], u[l], q)
  <2>1. CASE k \in 1 .. m /\ l \in 1 .. m
    <3>1. s[k] \in S /\ s[l] \in S /\ k \in DOMAIN s /\ l \in DOMAIN s
      BY <1>3, <1>4, <1>6, <2>1
    <3>2. Comes(s[k], s[l], q)
      BY <1>6, <3>1 DEF InOrder
    <3> QED
      BY <1>4, <2>1, <3>2
  <2>2. CASE k \in 1 .. m /\ l \in m + 1 .. m + n
    BY <1>4, <1>5, <1>6, <2>2
  <2>3. CASE k \in m + 1 .. m + n /\ l \in m + 1 .. m + n
    <3>1. t[k - m] \in S /\ t[l - m] \in S /\ k - m \in DOMAIN t /\ l - m \in DOMAIN t
      BY <1>3, <1>5, <1>6, <2>3
    <3>2. k - m < l - m
      BY <1>6
    <3>3. Comes(t[k - m], t[l - m], q)
      BY <3>1, <3>2 DEF InOrder
    <3> QED
      BY <1>5, <2>3, <3>3
  <2> QED
    BY <1>6, <2>1, <2>2, <2>3
<1> QED
  BY <1>1, <1>3, <1>6 DEF InOrder

(* page has the first rows of A, and there are more of them if more. *)
PageAhead(page, more, limit, q, A) ==
    /\ page \in Seq(A) /\ InOrder(page, q, Id) /\ Len(page) \in Nat /\ Len(page) <= limit
    /\ Elements(page) \subseteq A
    /\ \A i \in A \ Elements(page), j \in Elements(page) : Comes(j, i, q)
    /\ more => Len(page) = limit
    /\ ~more => Elements(page) = A

(* What a read of q returns, in terms of the order of q. *)
LEMMA ReadAhead ==
    ASSUME TableOK, NEW q, IsQuery(q), NEW c \in Cursor, NEW limit \in Nat \ {0},
           NEW found, found = FetchRows(q, q.direction, c, limit + 1),
           NEW page, page = Take(found, limit),
           NEW A, A = {i \in Visible(q.criteria) : Beyond(i, c, q)}
    PROVE  PageAhead(page, Len(found) > limit, limit, q, A)
<1>1. q.column \in Column /\ q.direction \in Direction
  BY DEF IsQuery
<1>2. Found(q, q.direction, c) = A
  BY DEF Found, Beyond
<1>3. PICK R : R = OrderOf(q.column, q.direction)
  OBVIOUS
<1>4. A \subseteq Id
  BY RowsAreIds
<1>5. Orders(R, A)
  BY <1>1, <1>3, <1>4, BeforeOrders, PartOrdered
<1>6. limit + 1 \in Nat /\ limit \in Nat
  OBVIOUS
<1>7. Firsts(found, A, limit + 1, R)
  <2>1. Firsts(FetchRows(q, q.direction, c, limit + 1), Found(q, q.direction, c), limit + 1, OrderOf(q.column, q.direction))
    BY <1>1, <1>6, FetchIsFirsts
  <2> QED
    BY <1>2, <1>3, <2>1
<1>8. /\ page \in Seq(A) /\ Ascends(page, R) /\ Len(page) \in Nat /\ Len(page) <= limit
      /\ Elements(page) \subseteq A
      /\ \A i \in A \ Elements(page), j \in Elements(page) : <<j, i>> \in R
      /\ Len(found) > limit => Len(page) = limit
      /\ ~(Len(found) > limit) => Elements(page) = A
  BY <1>5, <1>6, <1>7, PageOfFirsts
<1>9. \A i, j \in Id : <<i, j>> \in R <=> Comes(i, j, q)
  BY <1>3 DEF OrderOf, Comes
<1>10. InOrder(page, q, Id)
  BY <1>8, <1>9 DEF InOrder, Ascends
<1>11. \A i \in A \ Elements(page), j \in Elements(page) : Comes(j, i, q)
  BY <1>4, <1>8, <1>9
<1> QED
  BY <1>8, <1>10, <1>11 DEF PageAhead

(* Reading on from a cursor: what is read then stands after what was. *)
LEMMA ReadOn ==
    ASSUME TableOK, NEW q, IsQuery(q), NEW S, S \subseteq Id, NEW seq \in Seq(Id), NEW c \in Cursor,
           Frontier(seq, q, c, S), NEW limit \in Nat \ {0},
           NEW found, found = FetchRows(q, q.direction, c, limit + 1),
           NEW page, page = Take(found, limit)
    PROVE  /\ page \in Seq(Id) /\ Len(page) <= limit /\ seq \o page \in Seq(Id)
           /\ Front(seq \o page, q, S)
           /\ ~(Len(found) > limit) => LeavesOutNone(seq \o page, q, S)
           /\ Len(found) > limit =>
                /\ Len(page) = limit /\ page[limit] \in Stored
                /\ Frontier(seq \o page, q, encodeCursor(page[limit], sortMeta(q.column)), S)
<1>1. PICK A : A = {i \in Visible(q.criteria) : Beyond(i, c, q)}
  OBVIOUS
<1>2. A \subseteq Visible(q.criteria) /\ Visible(q.criteria) \subseteq Stored /\ Stored \subseteq Id
  BY <1>1, RowsAreIds
<1>r. PageAhead(page, Len(found) > limit, limit, q, A)
  BY <1>1, ReadAhead
<1>3. page \in Seq(A) /\ InOrder(page, q, Id) /\ Len(page) \in Nat /\ Len(page) <= limit
  BY <1>r DEF PageAhead
<1>4. /\ Elements(page) \subseteq A
      /\ \A i \in A \ Elements(page), j \in Elements(page) : Comes(j, i, q)
  BY <1>r DEF PageAhead
<1>5. /\ Len(found) > limit => Len(page) = limit
      /\ ~(Len(found) > limit) => Elements(page) = A
  BY <1>r DEF PageAhead
<1>6. page \in Seq(Id)
  BY <1>2, <1>3
<1>7. q.column \in Column /\ q.direction \in Direction
  BY DEF IsQuery
<1>o. /\ \A i \in Id : ~Comes(i, i, q)
      /\ \A i, j \in Id : i # j => Comes(i, j, q) \/ Comes(j, i, q)
      /\ \A i, j \in Id : Comes(i, j, q) => ~Comes(j, i, q)
  BY <1>7, ComesOrders DEF Comes
<1>8. /\ InOrder(seq, q, S)
      /\ Elements(seq) \cap S \subseteq Visible(q.criteria)
      /\ \A i \in Visible(q.criteria) \cap S : i \in Elements(seq) <=> ~Beyond(i, c, q)
  BY DEF Frontier
<1>9. \A i, j \in Visible(q.criteria) : Beyond(i, c, q) /\ Comes(i, j, q) => Beyond(j, c, q)
  BY <1>2, BeyondIsClosed
<1>10. \A i \in Elements(seq) \cap S, j \in A : Comes(i, j, q)
  <2> SUFFICES ASSUME NEW i \in Elements(seq) \cap S, NEW j \in A PROVE Comes(i, j, q)
    OBVIOUS
  <2>1. i \in Visible(q.criteria) /\ ~Beyond(i, c, q) /\ j \in Visible(q.criteria) /\ Beyond(j, c, q)
    BY <1>1, <1>8
  <2>2. i # j /\ ~Comes(j, i, q)
    BY <1>9, <2>1
  <2> QED
    BY <1>2, <1>o, <2>1, <2>2
<1>11. PICK all : all = seq \o page
  OBVIOUS
<1>12. all \in Seq(Id) /\ Elements(all) = Elements(seq) \cup Elements(page)
  BY <1>6, <1>11, Joined
<1>13. InOrder(all, q, S)
  <2>1. InOrder(page, q, S)
    BY <1>3 DEF InOrder
  <2>2. \A i \in Elements(seq) \cap S, j \in Elements(page) \cap S : Comes(i, j, q)
    BY <1>4, <1>10
  <2>3. InOrder(seq \o page, q, S)
    BY <1>6, <1>8, <2>1, <2>2, JoinedInOrder
  <2> QED
    BY <1>11, <2>3
<1>14. Elements(all) \cap S \subseteq Visible(q.criteria)
  BY <1>2, <1>4, <1>8, <1>12
<1>15. ASSUME NEW i \in Visible(q.criteria) \cap S, NEW j \in Elements(all) \cap S, Comes(i, j, q)
       PROVE  i \in Elements(all)
  <2>1. CASE ~Beyond(i, c, q)
    BY <1>8, <1>12, <1>15, <2>1
  <2>2. CASE Beyond(i, c, q)
    <3>1. i \in A /\ i \in Id /\ j \in Id
      BY <1>1, <1>2, <1>15, <2>2
    <3>2. j \notin Elements(seq)
      BY <1>10, <1>15, <1>o, <3>1
    <3>3. j \in Elements(page)
      BY <1>12, <1>15, <3>2
    <3> QED
      BY <1>4, <1>12, <1>15, <1>o, <3>1, <3>3
  <2> QED
    BY <2>1, <2>2
<1>16. Front(all, q, S)
  BY <1>13, <1>14, <1>15 DEF Front
<1>17. ASSUME ~(Len(found) > limit) PROVE LeavesOutNone(all, q, S)
  <2>1. Elements(page) = A
    BY <1>5, <1>17
  <2> QED
    BY <1>1, <1>8, <1>12, <2>1 DEF LeavesOutNone
<1>18. ASSUME Len(found) > limit
       PROVE  /\ Len(page) = limit /\ page[limit] \in Stored
              /\ Frontier(all, q, encodeCursor(page[limit], sortMeta(q.column)), S)
  <2>1. Len(page) = limit
    BY <1>5, <1>18
  <2>2. PICK b : b = page[limit]
    OBVIOUS
  <2>3. limit \in 1 .. Len(page) /\ DOMAIN page = 1 .. Len(page)
    BY <1>3, <2>1
  <2>4. b \in Elements(page) /\ b \in A /\ b \in Stored /\ b \in Id
    BY <1>2, <1>4, <2>2, <2>3 DEF Elements
  <2>5. PICK d : d = encodeCursor(b, sortMeta(q.column))
    OBVIOUS
  <2>6. \A i \in Visible(q.criteria) : Beyond(i, d, q) <=> Comes(b, i, q)
    BY <1>2, <2>4, <2>5, BeyondARow
  <2>7. \A i \in Elements(page) : i = b \/ Comes(i, b, q)
    <3> SUFFICES ASSUME NEW i \in Elements(page), i # b PROVE Comes(i, b, q)
      OBVIOUS
    <3>1. PICK k \in DOMAIN page : page[k] = i
      BY DEF Elements
    <3>2. k < limit
      BY <2>1, <2>2, <2>3, <3>1
    <3>3. i \in Id
      BY <1>2, <1>4
    <3> QED
      BY <1>3, <2>2, <2>3, <2>4, <3>1, <3>2, <3>3 DEF InOrder
  <2>8. ASSUME NEW i \in Visible(q.criteria) \cap S
        PROVE  i \in Elements(all) <=> ~Beyond(i, d, q)
    <3>1. i \in Id
      BY <1>2
    <3>2. CASE ~Beyond(i, c, q)
      <4>1. i \in Elements(seq)
        BY <1>8, <3>2
      <4>2. Comes(i, b, q)
        BY <1>10, <2>4, <4>1
      <4> QED
        BY <1>12, <1>o, <2>4, <2>6, <3>1, <4>1, <4>2
    <3>3. CASE Beyond(i, c, q) /\ i \in Elements(page)
      BY <1>12, <1>o, <2>4, <2>6, <2>7, <3>1, <3>3
    <3>4. CASE Beyond(i, c, q) /\ i \notin Elements(page)
      <4>1. i \in A /\ i \notin Elements(seq)
        BY <1>1, <1>8, <3>4
      <4>2. Comes(b, i, q)
        BY <1>4, <2>4, <3>4, <4>1
      <4> QED
        BY <1>12, <2>6, <3>4, <4>1, <4>2
    <3> QED
      BY <3>2, <3>3, <3>4
  <2>9. Frontier(all, q, d, S)
    BY <1>13, <1>14, <2>8 DEF Frontier
  <2> QED
    BY <2>1, <2>2, <2>4, <2>5, <2>9
<1> QED
  BY <1>3, <1>6, <1>11, <1>12, <1>16, <1>17, <1>18

(* Nothing has been read when a read begins. *)
LEMMA NothingRead ==
    ASSUME NEW q, NEW S
    PROVE  Frontier(<<>>, q, NoCursor, S)
<1>1. DOMAIN <<>> = {} /\ Elements(<<>>) = {}
  BY DEF Elements
<1> QED
  BY <1>1 DEF Frontier, InOrder, Beyond

(* Two queries that search for and sort by the same. *)
SameQuery(q, r) == q.criteria = r.criteria /\ q.column = r.column /\ q.direction = r.direction

(* The rows of S are not changed by the step. *)
Untouched(S) == S \subseteq Id /\ \A i \in S : table'[i] = table[i]

(* What holds of the rows of S still holds of those a step leaves alone. *)
LEMMA CalmKeeps ==
    ASSUME NEW S, NEW T, T \subseteq S, Untouched(T), NEW q, NEW r, SameQuery(q, r), NEW seq, NEW c
    PROVE  /\ Front(seq, q, S) => Front(seq, r, T)'
           /\ LeavesOutNone(seq, q, S) => LeavesOutNone(seq, r, T)'
           /\ Frontier(seq, q, c, S) => Frontier(seq, r, c, T)'
<1>1. \A i, j \in T : Comes(i, j, q) <=> Comes(i, j, r)'
  BY DEF Untouched, SameQuery, Comes, Before
<1>2. \A i \in T : i \in Visible(q.criteria) <=> i \in Visible(r.criteria)'
  BY DEF Untouched, SameQuery, Visible, applyCriteria, Stored
<1>3. \A i \in T : Beyond(i, c, q) <=> Beyond(i, c, r)'
  BY DEF Untouched, SameQuery, Beyond, keysetWhere, sortMeta
<1>4. InOrder(seq, q, S) => InOrder(seq, r, T)'
  BY <1>1 DEF InOrder
<1>5. ASSUME Front(seq, q, S) PROVE Front(seq, r, T)'
  <2>1. InOrder(seq, r, T)'
    BY <1>4, <1>5 DEF Front
  <2>2. \A i \in Elements(seq) \cap T : i \in Visible(r.criteria)'
    BY <1>2, <1>5 DEF Front
  <2>3. \A i \in T, j \in Elements(seq) \cap T :
          i \in Visible(r.criteria)' /\ Comes(i, j, r)' => i \in Elements(seq)
    BY <1>1, <1>2, <1>5 DEF Front
  <2> QED
    BY <2>1, <2>2, <2>3 DEF Front, Elements
<1>6. LeavesOutNone(seq, q, S) => LeavesOutNone(seq, r, T)'
  BY <1>2 DEF LeavesOutNone, Elements
<1>7. ASSUME Frontier(seq, q, c, S) PROVE Frontier(seq, r, c, T)'
  <2>1. InOrder(seq, r, T)'
    BY <1>4, <1>7 DEF Frontier
  <2>2. \A i \in Elements(seq) \cap T : i \in Visible(r.criteria)'
    BY <1>2, <1>7 DEF Frontier
  <2>3. \A i \in T : i \in Visible(r.criteria)' => (i \in Elements(seq) <=> ~Beyond(i, c, r)')
    BY <1>2, <1>3, <1>7 DEF Frontier
  <2> QED
    BY <2>1, <2>2, <2>3 DEF Frontier, Elements
<1> QED
  BY <1>5, <1>6, <1>7

(* Rows that were read up to a place are the first ones. *)
LEMMA FrontierIsFront ==
    ASSUME TableOK, NEW q, IsQuery(q), NEW S, S \subseteq Id, NEW seq, NEW c \in Cursor,
           Frontier(seq, q, c, S)
    PROVE  Front(seq, q, S)
<1>1. Visible(q.criteria) \subseteq Stored
  BY RowsAreIds
<1>2. \A i, j \in Visible(q.criteria) : Beyond(i, c, q) /\ Comes(i, j, q) => Beyond(j, c, q)
  BY <1>1, BeyondIsClosed
<1> QED
  BY <1>2 DEF Frontier, Front

(* A report that has as many rows as there are has them all. *)
LEMMA EnoughIsAll ==
    ASSUME TableOK, NEW q, IsQuery(q), NEW seq \in Seq(Id), Front(seq, q, Id),
           Cardinality(Visible(q.criteria)) <= Len(seq)
    PROVE  LeavesOutNone(seq, q, Id)
<1>1. PICK E, V : E = Elements(seq) /\ V = Visible(q.criteria)
  OBVIOUS
<1>2. E \subseteq Id /\ V \subseteq Id /\ seq \in Seq(Id)
  BY <1>1, RowsAreIds, ElementsOf
<1>3. E \subseteq V
  BY <1>1, <1>2 DEF Front
<1>4. PICK R : R = OrderOf(q.column, q.direction)
  OBVIOUS
<1>5. Orders(R, Id)
  BY <1>4, BeforeOrders DEF IsQuery
<1>6. \A i, j \in Id : <<i, j>> \in R <=> Comes(i, j, q)
  BY <1>4 DEF OrderOf, Comes
<1>7. Ascends(seq, R)
  <2>1. DOMAIN seq = 1 .. Len(seq) /\ \A k \in DOMAIN seq : seq[k] \in Id
    OBVIOUS
  <2> QED
    BY <1>6, <2>1 DEF Ascends, Front, InOrder
<1>8. IsFiniteSet(E) /\ Cardinality(E) = Len(seq)
  BY <1>1, <1>5, <1>7, AscendingLength
<1>9. IsFiniteSet(V)
  BY <1>2, IdsAreFinite, FS_Subset
<1>10. Cardinality(V) \in Nat /\ Cardinality(E) \in Nat /\ Cardinality(E) <= Cardinality(V)
  BY <1>3, <1>8, <1>9, FS_Subset, FS_CardinalityType
<1>11. E = V
  <2>1. Cardinality(E) = Cardinality(V)
    BY <1>1, <1>8, <1>10
  <2> QED
    BY <1>3, <1>9, <2>1, FS_Subset
<1> QED
  BY <1>1, <1>11 DEF LeavesOutNone

-----------------------------------------------------------------------------
(* Types. *)

(* The page, its requests and the report search for something. *)
LEMMA QueriesAreQueries ==
    ASSUME SearchTypeOK
    PROVE  TableOK /\ IsQuery(view) /\ IsQuery(report) /\ \A q \in asked : q \in PageRequest /\ IsQuery(q)
BY DEF SearchTypeOK, TableOK, View, ReportState, PageRequest, IsQuery

(* No cursor is a cursor, too. *)
LEMMA NoCursorIsCursor == NoCursor \in Cursor
BY DEF NoCursor, Cursor, Null

(* A read returns stored rows. *)
LEMMA ReadTyped ==
    ASSUME TableOK, NEW q, IsQuery(q), NEW dir \in Direction, NEW c, NEW n \in Nat, NEW m \in Nat
    PROVE  Take(FetchRows(q, dir, c, n), m) \in Seq(Stored)
<1>1. PICK found : found = FetchRows(q, dir, c, n)
  OBVIOUS
<1>2. Firsts(found, Found(q, dir, c), n, OrderOf(q.column, dir))
  BY <1>1, FetchIsFirsts DEF IsQuery
<1>3. Found(q, dir, c) \subseteq Stored
  BY RowsAreIds DEF Found
<1>4. found \in Seq(Found(q, dir, c))
  BY <1>2 DEF Firsts
<1>5. found \in Seq(Stored)
  BY <1>3, <1>4
<1> QED
  BY <1>1, <1>5, Taken

(* The page of a backward read is turned round. *)
LEMMA Reversed ==
    ASSUME NEW S, NEW seq \in Seq(S)
    PROVE  /\ Reverse(seq) \in Seq(S) /\ Len(Reverse(seq)) = Len(seq)
           /\ \A k \in 1 .. Len(seq) : Reverse(seq)[k] = seq[Len(seq) + 1 - k] /\ Len(seq) + 1 - k \in 1 .. Len(seq)
           /\ Elements(Reverse(seq)) = Elements(seq)
<1>1. PICK n \in Nat : n = Len(seq)
  OBVIOUS
<1>2. PICK r : r = [k \in 1 .. n |-> seq[n + 1 - k]]
  OBVIOUS
<1>3. Reverse(seq) = r
  BY <1>1, <1>2 DEF Reverse
<1>4. \A k \in 1 .. n : n + 1 - k \in 1 .. n /\ n + 1 - (n + 1 - k) = k
  OBVIOUS
<1>5. \A k \in 1 .. n : seq[k] \in S /\ DOMAIN seq = 1 .. n
  BY <1>1
<1>6. \A k \in 1 .. n : r[k] = seq[n + 1 - k] /\ r[k] \in S
  BY <1>2, <1>4, <1>5
<1>7. r \in [1 .. n -> S] /\ DOMAIN r = 1 .. n
  BY <1>2, <1>6
<1>8. r \in Seq(S) /\ Len(r) = n
  BY <1>7
<1>9. Elements(r) = Elements(seq)
  <2>1. DOMAIN seq = 1 .. n
    BY <1>1
  <2>2. \A i \in Elements(r) : i \in Elements(seq)
    BY <1>4, <1>6, <1>7, <2>1 DEF Elements
  <2>3. \A k \in 1 .. n : r[n + 1 - k] = seq[k]
    BY <1>4, <1>6
  <2>4. \A i \in Elements(seq) : i \in Elements(r)
    BY <1>4, <1>7, <2>1, <2>3 DEF Elements
  <2> QED
    BY <2>2, <2>4
<1> QED
  BY <1>1, <1>3, <1>4, <1>6, <1>8, <1>9

(* buildPageInfo makes cursors of the first and the last row. *)
LEMMA PageInfoTyped ==
    ASSUME TableOK, NEW field \in Column, NEW page \in Seq(Stored), NEW position, NEW more
    PROVE  /\ buildPageInfo(position, more, page, sortMeta(field)) \in PageInfo
           /\ page # <<>> => page[1] \in Stored /\ page[Len(page)] \in Stored
<1>1. page # <<>> => page[1] \in Stored /\ page[Len(page)] \in Stored
  <2>1. page # <<>> => Len(page) \in Nat /\ Len(page) # 0
    OBVIOUS
  <2> QED
    BY <2>1
<1>2. PICK info : info = buildPageInfo(position, more, page, sortMeta(field))
  OBVIOUS
<1>3. info = [hasNext |-> info.hasNext, hasPrev |-> info.hasPrev,
              startCursor |-> info.startCursor, endCursor |-> info.endCursor]
  BY <1>2 DEF buildPageInfo
<1>4. info.hasNext \in BOOLEAN /\ info.hasPrev \in BOOLEAN
  BY <1>2 DEF buildPageInfo
<1>5. CASE page = <<>>
  <2>1. info.startCursor = NoCursor /\ info.endCursor = NoCursor
    BY <1>2, <1>5 DEF buildPageInfo
  <2> QED
    BY <1>1, <1>2, <1>3, <1>4, <2>1, NoCursorIsCursor DEF PageInfo
<1>6. CASE page # <<>>
  <2>1. /\ info.startCursor = encodeCursor(page[1], sortMeta(field))
        /\ info.endCursor = encodeCursor(page[Len(page)], sortMeta(field))
    BY <1>2, <1>6 DEF buildPageInfo
  <2>2. info.startCursor \in Cursor /\ info.endCursor \in Cursor
    BY <1>1, <1>6, <2>1, CursorOfRow
  <2> QED
    BY <1>1, <1>2, <1>3, <1>4, <2>2 DEF PageInfo
<1> QED
  BY <1>5, <1>6

(* An answer is a page of stored rows. *)
LEMMA FindTyped ==
    ASSUME TableOK, NEW q \in PageRequest
    PROVE  find(q).records \in Seq(Id) /\ find(q).pageInfo \in PageInfo
<1>1. IsQuery(q) /\ q.column \in Column /\ q.direction \in Direction /\ q.token \in Cursor
  BY DEF PageRequest, IsQuery
<1>2. Size \in Nat /\ Size + 1 \in Nat
  BY SearchAssumption
<1>3. PICK position, reverse : position = resolveCursor(q) /\ reverse = (position \in {"prev", "last"})
  OBVIOUS
<1>4. PICK dir : dir = IF reverse THEN Flip(q.direction) ELSE q.direction
  OBVIOUS
<1>5. dir \in Direction
  BY <1>1, <1>4, FlipFlips
<1>6. PICK token : token = IF position \in {"next", "prev"} THEN q.token ELSE NoCursor
  OBVIOUS
<1>7. PICK found : found = FetchRows(q, dir, token, Size + 1)
  OBVIOUS
<1>8. PICK read : read = Take(found, Size)
  OBVIOUS
<1>9. read \in Seq(Stored)
  BY <1>1, <1>2, <1>5, <1>7, <1>8, ReadTyped
<1>10. PICK page : page = IF reverse THEN Reverse(read) ELSE read
  OBVIOUS
<1>11. page \in Seq(Stored)
  BY <1>9, <1>10, Reversed
<1>m. PICK more : more = (Len(found) > Size)
  OBVIOUS
<1>12. /\ find(q).records = page
       /\ find(q).pageInfo = buildPageInfo(position, more, page, sortMeta(q.column))
  BY <1>m, <1>3, <1>4, <1>6, <1>7, <1>8, <1>10 DEF find
<1>13. find(q).pageInfo \in PageInfo
  BY <1>1, <1>11, <1>12, PageInfoTyped
<1>14. page \in Seq(Id)
  BY <1>11, RowsAreIds
<1> QED
  BY <1>12, <1>13, <1>14

(* r is the only request sent, and the page that sent it is v, loading. *)
Sends(v, r) ==
    /\ Cardinality(asked) < MaxAsked
    /\ r \in PageRequest /\ SameQuery(r, v)
    /\ asked' = asked \cup {r}
    /\ view' \in View /\ view'.loading /\ SameQuery(v, view')
    /\ UNCHANGED <<table, report, touched, walk, changes>>

(* A new search asks for the first page, and the page forgets its cursors. *)
LEMMA NewSearchSends ==
    ASSUME SearchTypeOK, NEW v \in View, executeNewSearch(v)
    PROVE  /\ searches' = searches + 1 /\ view'.pageInfo = NoPage
           /\ \E r : Sends(v, r) /\ r.position = "first"
<1>1. PICK w : w = [v EXCEPT !.pageInfo = NoPage, !.searched = TRUE]
  OBVIOUS
<1>2. runSearch(w, "first", NoCursor) /\ searches' = searches + 1
      /\ UNCHANGED <<table, report, touched, walk, changes>>
  BY <1>1 DEF executeNewSearch
<1>3. NoPage \in PageInfo
  BY NoCursorIsCursor DEF NoPage, PageInfo
<1>4. w \in View /\ SameQuery(v, w) /\ w.pageInfo = NoPage
  BY <1>1, <1>3 DEF View, SameQuery
<1>5. PICK r : r = [criteria |-> w.criteria, column |-> w.column, direction |-> w.direction,
                    position |-> "first", token |-> NoCursor]
  OBVIOUS
<1>6. Cardinality(asked) < MaxAsked /\ asked' = asked \cup {r} /\ view' = [w EXCEPT !.loading = TRUE]
  BY <1>2, <1>5 DEF runSearch
<1>7. r \in PageRequest /\ SameQuery(r, v) /\ r.position = "first"
  BY <1>4, <1>5, NoCursorIsCursor DEF View, SameQuery, PageRequest, Position
<1>8. view' \in View /\ view'.loading /\ SameQuery(v, view') /\ view'.pageInfo = NoPage
  BY <1>4, <1>6 DEF View, SameQuery
<1> QED
  BY <1>2, <1>6, <1>7, <1>8 DEF Sends

(* A search of the form, of a link or of the history. *)
LEMMA ApplySends ==
    ASSUME SearchTypeOK, NEW criteria \in Criteria, NEW column \in Column, NEW direction \in Direction,
           applySearchRouteQuery(criteria, column, direction)
    PROVE  /\ searches' = searches + 1 /\ view'.pageInfo = NoPage
           /\ \E v, r : Sends(v, r) /\ r.position = "first"
<1>1. PICK v : v = [view EXCEPT !.criteria = criteria, !.column = column, !.direction = direction]
  OBVIOUS
<1>2. executeNewSearch(v)
  BY <1>1 DEF applySearchRouteQuery
<1>3. v \in View
  BY <1>1 DEF SearchTypeOK, View
<1> QED
  BY <1>2, <1>3, NewSearchSends

(* A click on the head of a column. *)
LEMMA SortSends ==
    ASSUME SearchTypeOK, NEW column \in Column, sortByColumn(column)
    PROVE  /\ searches' = searches + 1 /\ view'.pageInfo = NoPage
           /\ \E v, r : Sends(v, r) /\ r.position = "first"
<1>1. PICK v : v = IF view.column = column THEN [view EXCEPT !.direction = Flip(@)]
                   ELSE [view EXCEPT !.column = column, !.direction = "ASC"]
  OBVIOUS
<1>2. executeNewSearch(v)
  BY <1>1 DEF sortByColumn
<1>3. view \in View /\ Flip(view.direction) \in Direction /\ "ASC" \in Direction
  BY FlipFlips DEF SearchTypeOK, View, Direction
<1>4. v \in View
  <2>1. CASE view.column = column
    BY <1>1, <1>3, <2>1 DEF View
  <2>2. CASE view.column # column
    BY <1>1, <1>3, <2>2 DEF View
  <2> QED
    BY <2>1, <2>2
<1> QED
  BY <1>2, <1>4, NewSearchSends

(* The next requests are about the same search. *)
LEMMA TurnSends ==
    ASSUME SearchTypeOK, NEW position \in Position, NEW token \in Cursor, Turn(position, token)
    PROVE  /\ UNCHANGED searches /\ view'.pageInfo = view.pageInfo
           /\ \E r : Sends(view, r) /\ r.position = position /\ r.token = token
<1>1. runSearch(view, position, token) /\ UNCHANGED <<table, report, touched, walk, searches, changes>>
  BY DEF Turn
<1>2. PICK r : r = [criteria |-> view.criteria, column |-> view.column, direction |-> view.direction,
                    position |-> position, token |-> token]
  OBVIOUS
<1>3. Cardinality(asked) < MaxAsked /\ asked' = asked \cup {r} /\ view' = [view EXCEPT !.loading = TRUE]
  BY <1>1, <1>2 DEF runSearch
<1>4. view \in View
  BY DEF SearchTypeOK
<1>5. r \in PageRequest /\ SameQuery(r, view) /\ r.position = position /\ r.token = token
  BY <1>2, <1>4 DEF View, SameQuery, PageRequest
<1>6. view' \in View /\ view'.loading /\ SameQuery(view, view') /\ view'.pageInfo = view.pageInfo
  BY <1>3, <1>4 DEF View, SameQuery
<1> QED
  BY <1>1, <1>3, <1>5, <1>6 DEF Sends

(* Where a turn of the page starts. *)
TurnFits(r, info) ==
    /\ r.position = "next" => info.hasNext /\ r.token = info.endCursor
    /\ r.position = "prev" => info.hasPrev /\ r.token = info.startCursor

Searches ==
    /\ searches' = searches + 1 /\ view'.pageInfo = NoPage
    /\ \E v, r : Sends(v, r) /\ r.position = "first"

Turns ==
    /\ UNCHANGED searches /\ view'.pageInfo = view.pageInfo
    /\ \E r : Sends(view, r) /\ TurnFits(r, view.pageInfo)

(* The user searches, turns the page, or gets an answer or none. *)
LEMMA BrowseCases ==
    ASSUME SearchTypeOK, Browse
    PROVE  Searches \/ Turns \/ \E q \in asked : searchAnswered(q) \/ searchFailed(q)
<1>1. PICK info : info = view.pageInfo
  OBVIOUS
<1>2. info.startCursor \in Cursor /\ info.endCursor \in Cursor
  BY <1>1 DEF SearchTypeOK, View, PageInfo
<1>3. ASSUME NEW criteria \in Criteria, NEW column \in Column, NEW direction \in Direction,
             applySearchRouteQuery(criteria, column, direction)
      PROVE  Searches
  BY <1>3, ApplySends DEF Searches
<1>4. ASSUME NEW column \in Column, sortByColumn(column) PROVE Searches
  BY <1>4, SortSends DEF Searches
<1>5. ASSUME NEW position \in Position, NEW token \in Cursor, Turn(position, token),
             position = "next" => info.hasNext /\ token = info.endCursor,
             position = "prev" => info.hasPrev /\ token = info.startCursor
      PROVE  Turns
  <2>1. UNCHANGED searches /\ view'.pageInfo = view.pageInfo
    BY <1>5, TurnSends
  <2>2. PICK r : Sends(view, r) /\ r.position = position /\ r.token = token
    BY <1>5, TurnSends
  <2>3. TurnFits(r, info)
    BY <1>5, <2>2 DEF TurnFits
  <2> QED
    BY <1>1, <2>1, <2>2, <2>3 DEF Turns
<1>6. CASE goToPreviousPage
  <2>1. info.hasPrev /\ Turn("prev", info.startCursor)
    BY <1>1, <1>6 DEF goToPreviousPage
  <2>2. "prev" \in Position /\ "prev" # "next"
    BY DEF Position
  <2> QED
    BY <1>2, <1>5, <2>1, <2>2
<1>7. CASE goToNextPage
  <2>1. info.hasNext /\ Turn("next", info.endCursor)
    BY <1>1, <1>7 DEF goToNextPage
  <2>2. "next" \in Position /\ "prev" # "next"
    BY DEF Position
  <2> QED
    BY <1>2, <1>5, <2>1, <2>2
<1>8. CASE goToFirstPage
  <2>1. Turn("first", NoCursor)
    BY <1>8 DEF goToFirstPage
  <2>2. "first" \in Position /\ "first" # "next" /\ "first" # "prev"
    BY DEF Position
  <2> QED
    BY <1>5, <2>1, <2>2, NoCursorIsCursor
<1>9. CASE goToLastPage
  <2>1. Turn("last", NoCursor)
    BY <1>9 DEF goToLastPage
  <2>2. "last" \in Position /\ "last" # "next" /\ "last" # "prev"
    BY DEF Position
  <2> QED
    BY <1>5, <2>1, <2>2, NoCursorIsCursor
<1> QED
  BY <1>3, <1>4, <1>6, <1>7, <1>8, <1>9 DEF Browse

(* Nothing of this touches a row or the report. *)
LEMMA BrowseReads ==
    ASSUME SearchTypeOK, Browse
    PROVE  UNCHANGED <<table, report, changes>>
<1>1. CASE Searches
  BY <1>1 DEF Searches, Sends
<1>2. CASE Turns
  BY <1>2 DEF Turns, Sends
<1>3. ASSUME NEW q \in asked, searchAnswered(q) \/ searchFailed(q) PROVE UNCHANGED <<table, report, changes>>
  BY <1>3 DEF searchAnswered, searchFailed
<1> QED
  BY <1>1, <1>2, <1>3, BrowseCases

(* Requests keep the types, *)
LEMMA SendsTyped ==
    ASSUME SearchTypeOK, NEW v, NEW r, Sends(v, r), searches' \in Nat
    PROVE  SearchTypeOK'
<1>1. asked' \subseteq PageRequest /\ IsFiniteSet(asked')
  <2>1. IsFiniteSet(asked \cup {r})
    BY FS_AddElement DEF SearchTypeOK
  <2> QED
    BY <2>1 DEF SearchTypeOK, Sends
<1> QED
  BY <1>1 DEF SearchTypeOK, Sends

(* What an answer leaves of the page. *)
LEMMA Answers ==
    ASSUME SearchTypeOK, NEW q \in asked, searchAnswered(q)
    PROVE  /\ view' \in View /\ SameQuery(view, view')
           /\ view'.results = find(q).records /\ view'.pageInfo = find(q).pageInfo
           /\ find(q).records \in Seq(Id) /\ q \in PageRequest
           /\ asked' = asked \ {q} /\ UNCHANGED <<table, report, searches, changes>>
<1>1. find(q).records \in Seq(Id) /\ find(q).pageInfo \in PageInfo /\ q \in PageRequest
  BY QueriesAreQueries, FindTyped
<1>2. PICK s, p : s = find(q).records /\ p = find(q).pageInfo
  OBVIOUS
<1>3. view' = [view EXCEPT !.results = s, !.shown = TRUE, !.pageInfo = p, !.loading = FALSE]
  BY <1>2 DEF searchAnswered
<1>4. view \in View
  BY DEF SearchTypeOK
<1>5. view' \in View /\ SameQuery(view, view') /\ view'.results = s /\ view'.pageInfo = p
  BY <1>1, <1>2, <1>3, <1>4 DEF View, SameQuery
<1>6. asked' = asked \ {q} /\ UNCHANGED <<table, report, searches, changes>>
  BY DEF searchAnswered
<1> QED
  BY <1>1, <1>2, <1>5, <1>6

(* answers do, *)
LEMMA AnsweredTyped ==
    ASSUME SearchTypeOK, NEW q \in asked, searchAnswered(q)
    PROVE  SearchTypeOK'
<1>1. view' \in View /\ asked' = asked \ {q} /\ UNCHANGED <<table, report, searches, changes>>
  BY Answers
<1>2. asked' \subseteq PageRequest /\ IsFiniteSet(asked')
  BY <1>1, FS_RemoveElement DEF SearchTypeOK
<1>3. touched' \subseteq Id
  BY DEF searchAnswered, SearchTypeOK
<1>4. walk' \in [going: BOOLEAN, seen: Seq(Id)]
  <2>1. PICK s, position : s = find(q).records /\ position = resolveCursor(q)
    OBVIOUS
  <2>2. s \in Seq(Id)
    BY <2>1, Answers
  <2>3. walk' = CASE position = "first" -> [going |-> TRUE, seen |-> s]
                  [] position = "next" /\ walk.going -> [going |-> TRUE, seen |-> walk.seen \o s]
                  [] OTHER -> [going |-> FALSE, seen |-> <<>>]
    BY <2>1 DEF searchAnswered
  <2>4. walk.seen \in Seq(Id)
    BY DEF SearchTypeOK
  <2>5. walk.seen \o s \in Seq(Id) /\ <<>> \in Seq(Id)
    BY <2>2, <2>4
  <2>6. CASE position = "first"
    <3>1. walk' = [going |-> TRUE, seen |-> s]
      BY <2>3, <2>6
    <3> QED
      BY <2>2, <3>1
  <2>7. CASE position = "next" /\ walk.going
    <3>1. walk' = [going |-> TRUE, seen |-> walk.seen \o s]
      BY <2>3, <2>7
    <3> QED
      BY <2>5, <3>1
  <2>8. CASE position # "first" /\ ~(position = "next" /\ walk.going)
    <3>1. walk' = [going |-> FALSE, seen |-> <<>>]
      BY <2>3, <2>8
    <3> QED
      BY <2>5, <3>1
  <2> QED
    BY <2>6, <2>7, <2>8
<1> QED
  BY <1>1, <1>2, <1>3, <1>4 DEF SearchTypeOK

(* and failures. *)
LEMMA FailedTyped ==
    ASSUME SearchTypeOK, NEW q \in asked, searchFailed(q)
    PROVE  SearchTypeOK'
<1>1. asked' = asked \ {q} /\ UNCHANGED <<table, report, touched, walk, searches, changes>>
  BY DEF searchFailed
<1>2. asked' \subseteq PageRequest /\ IsFiniteSet(asked')
  BY <1>1, FS_RemoveElement DEF SearchTypeOK
<1>3. view' \in View
  <2>1. view' = [view EXCEPT !.results = <<>>, !.shown = FALSE, !.loading = FALSE]
    BY DEF searchFailed
  <2>2. view \in View /\ <<>> \in Seq(Id)
    BY DEF SearchTypeOK
  <2> QED
    BY <2>1, <2>2 DEF View
<1> QED
  BY <1>1, <1>2, <1>3 DEF SearchTypeOK

(* So does all the user does. *)
LEMMA BrowseTyped ==
    ASSUME SearchTypeOK, Browse
    PROVE  SearchTypeOK'
<1>1. searches \in Nat
  BY DEF SearchTypeOK
<1>2. CASE Searches
  BY <1>1, <1>2, SendsTyped DEF Searches
<1>3. CASE Turns
  <2>1. PICK v : v = view
    OBVIOUS
  <2>2. \E r : Sends(v, r)
    BY <1>3, <2>1 DEF Turns
  <2> QED
    BY <1>1, <1>3, <2>2, SendsTyped DEF Turns
<1>4. ASSUME NEW q \in asked, searchAnswered(q) \/ searchFailed(q) PROVE SearchTypeOK'
  BY <1>4, AnsweredTyped, FailedTyped
<1> QED
  BY <1>2, <1>3, <1>4, BrowseCases

ReportInv == SearchTypeOK /\ ReportFits /\ ReportComplete

(* The types hold at first, *)
LEMMA InitTyped == SearchInit => SearchTypeOK
<1> SUFFICES ASSUME SearchInit PROVE SearchTypeOK
  OBVIOUS
<1>1. NoCursor \in Cursor /\ NoPage \in PageInfo /\ <<>> \in Seq(Id) /\ NoFsp \in Criteria
  BY NoCursorIsCursor DEF NoPage, PageInfo, Criteria
<1>2. table \in [Id -> Transaction \cup {NoRow}]
  BY SearchAssumption DEF SearchInit
<1>3. view \in View
  BY <1>1 DEF SearchInit, View, Column, Direction
<1>4. report \in ReportState
  BY <1>1 DEF SearchInit, NoReport, ReportState, Column, Direction
<1>5. asked \subseteq PageRequest /\ IsFiniteSet(asked)
  BY FS_EmptySet DEF SearchInit
<1> QED
  BY <1>1, <1>2, <1>3, <1>4, <1>5 DEF SearchInit, SearchTypeOK

(* and no report has begun. *)
LEMMA InitReport == SearchInit => ReportInv
<1>1. SearchInit => ReportFits /\ ReportComplete
  BY DEF SearchInit, NoReport, ReportFits, ReportComplete
<1> QED
  BY <1>1, InitTyped DEF ReportInv

(* What a report is about to begin with. *)
LEMMA GenerateBegins ==
    ASSUME SearchTypeOK, generate
    PROVE  /\ report' \in ReportState /\ UNCHANGED <<table, view, asked, touched, walk, searches, changes>>
           /\ report'.read = <<>> /\ report'.cursor = NoCursor /\ report'.touched = {}
           /\ report'.phase \in {"refused", "done", "reading"}
           /\ report'.phase = "done" => Visible(report'.criteria) = {}
           /\ report'.phase = "reading" => /\ report'.total = Cardinality(Visible(report'.criteria))
                                           /\ report'.total > 0
<1>1. PICK V : V = Visible(view.criteria)
  OBVIOUS
<1>2. IsFiniteSet(V)
  BY <1>1, RowsAreIds, IdsAreFinite, FS_Subset
<1>3. PICK n \in Nat : n = Cardinality(V)
  BY <1>2, FS_CardinalityType
<1>4. PICK m : m = IF n < ReportLimit THEN n ELSE ReportLimit
  OBVIOUS
<1>5. ReportLimit \in Nat /\ m \in Nat
  BY <1>4, SearchAssumption
<1>6. count(view.criteria, ReportLimit) = [count |-> m, capped |-> n > ReportLimit]
  BY <1>1, <1>3, <1>4 DEF count
<1>7. PICK p : p = IF n > ReportLimit THEN "refused" ELSE IF m = 0 THEN "done" ELSE "reading"
  OBVIOUS
<1>8. report' = [NoReport EXCEPT !.phase = p, !.criteria = view.criteria, !.column = view.column,
                                 !.direction = view.direction, !.total = m]
  <2>1. PICK k : k = count(view.criteria, ReportLimit)
    OBVIOUS
  <2>2. k.capped = (n > ReportLimit) /\ k.count = m
    BY <1>6, <2>1
  <2>3. report' = [NoReport EXCEPT !.phase = IF k.capped THEN "refused" ELSE IF k.count = 0 THEN "done"
                                             ELSE "reading",
                                   !.criteria = view.criteria, !.column = view.column,
                                   !.direction = view.direction, !.total = k.count]
    BY <2>1, Zenon DEF generate
  <2>4. p = IF k.capped THEN "refused" ELSE IF k.count = 0 THEN "done" ELSE "reading"
    BY <1>7, <2>2, Zenon
  <2> QED
    BY <2>2, <2>3, <2>4, Zenon
<1>9. NoReport \in ReportState
  BY NoCursorIsCursor DEF NoReport, ReportState, Criteria, Column, Direction
<1>10. view \in View /\ p \in {"refused", "done", "reading"}
  BY <1>7 DEF SearchTypeOK
<1>11. /\ report' \in ReportState /\ report'.phase = p /\ report'.criteria = view.criteria /\ report'.total = m
       /\ report'.read = NoReport.read /\ report'.cursor = NoReport.cursor /\ report'.touched = NoReport.touched
  BY <1>5, <1>8, <1>9, <1>10 DEF View, ReportState
<1>12. NoReport.read = <<>> /\ NoReport.cursor = NoCursor /\ NoReport.touched = {}
  BY DEF NoReport
<1>13. p = "done" => n = 0
  BY <1>4, <1>5, <1>7
<1>14. p = "reading" => m = n /\ m > 0
  BY <1>4, <1>5, <1>7
<1>15. n = 0 => V = {}
  BY <1>2, <1>3, FS_EmptySet
<1>16. UNCHANGED <<table, view, asked, touched, walk, searches, changes>>
  BY DEF generate
<1> QED
  BY <1>1, <1>3, <1>10, <1>11, <1>12, <1>13, <1>14, <1>15, <1>16

(* The rows of a query are those of the table. *)
LEMMA VisibleKept ==
    ASSUME UNCHANGED table, NEW criteria
    PROVE  Visible(criteria)' = Visible(criteria)
BY DEF Visible, applyCriteria, Stored

(* A report begins with nothing read. *)
LEMMA GenerateReport ==
    ASSUME SearchTypeOK, generate
    PROVE  ReportInv'
<1>1. /\ report' \in ReportState /\ UNCHANGED <<table, view, asked, touched, walk, searches, changes>>
      /\ report'.read = <<>> /\ report'.cursor = NoCursor /\ report'.touched = {}
      /\ report'.phase \in {"refused", "done", "reading"}
      /\ report'.phase = "done" => Visible(report'.criteria) = {}
      /\ report'.phase = "reading" => /\ report'.total = Cardinality(Visible(report'.criteria))
                                      /\ report'.total > 0
  BY GenerateBegins
<1>2. SearchTypeOK'
  BY <1>1 DEF SearchTypeOK
<1>3. PICK r : r = report'
  OBVIOUS
<1>4. r.read = <<>> /\ r.cursor = NoCursor /\ r.touched = {}
  BY <1>1, <1>3
<1>5. Visible(r.criteria)' = Visible(r.criteria)
  BY <1>1, VisibleKept
<1>6. Frontier(<<>>, r, NoCursor, Id)'
  BY DEF Frontier, InOrder, Beyond, Elements
<1>7. Len(<<>>) = 0 /\ Elements(<<>>) = {}
  BY DEF Elements
<1>8. ReportFits'
  BY <1>1, <1>3, <1>4, <1>5, <1>6, <1>7 DEF ReportFits
<1>9. ReportComplete'
  BY <1>1, <1>3, <1>4, <1>5, <1>7 DEF ReportComplete, Front, InOrder, LeavesOutNone, Elements
<1> QED
  BY <1>2, <1>8, <1>9 DEF ReportInv

(* The least of three. *)
LEMMA LeastOfThree ==
    ASSUME NEW a \in Nat, NEW b \in Nat, NEW c \in Nat
    PROVE  \E n \in {a, b, c} : \A m \in {a, b, c} : n <= m
<1>1. CASE a <= b /\ a <= c
  BY <1>1
<1>2. CASE b <= a /\ b <= c
  BY <1>2
<1>3. CASE c <= a /\ c <= b
  BY <1>3
<1> QED
  BY <1>1, <1>2, <1>3

(* A round reads at least one row, and no more than are still expected. *)
LEMMA RoundReads ==
    ASSUME NEW written \in Nat, NEW total \in Nat, written < total,
           NEW l, l = CHOOSE n \in {ReportPage, FileRows - (written % FileRows), total - written} :
                        \A m \in {ReportPage, FileRows - (written % FileRows), total - written} : n <= m
    PROVE  l \in Nat \ {0} /\ l <= total - written
<1>1. PICK a, b, c : a = ReportPage /\ b = FileRows - (written % FileRows) /\ c = total - written
  OBVIOUS
<1>2. a \in Nat \ {0} /\ FileRows \in Nat \ {0}
  BY <1>1, SearchAssumption
<1>3. written % FileRows \in 0 .. FileRows - 1
  BY <1>2
<1>4. b \in Nat \ {0}
  BY <1>1, <1>2, <1>3
<1>5. c \in Nat \ {0}
  BY <1>1
<1>6. l = CHOOSE n \in {a, b, c} : \A m \in {a, b, c} : n <= m
  BY <1>1
<1>7. l \in {a, b, c} /\ l <= c
  <2>1. a \in Nat /\ b \in Nat /\ c \in Nat
    BY <1>2, <1>4, <1>5
  <2> QED
    <3>1. \E n \in {a, b, c} : \A m \in {a, b, c} : n <= m
      BY <2>1, LeastOfThree
    <3> QED
      BY <1>6, <3>1
<1> QED
  BY <1>1, <1>2, <1>4, <1>5, <1>7

(* A round of readRows reads on, and ends with all that was counted. *)
LEMMA ReadRowsReport ==
    ASSUME ReportInv, readRows
    PROVE  ReportInv'
<1>1. SearchTypeOK /\ ReportFits /\ report.phase = "reading"
  BY DEF ReportInv, readRows
<1>2. TableOK /\ IsQuery(report) /\ report \in ReportState
  BY <1>1, QueriesAreQueries DEF SearchTypeOK
<1>3. PICK q : q = report
  OBVIOUS
<1>4. IsQuery(q) /\ q.read \in Seq(Id) /\ q.cursor \in Cursor /\ q.total \in Nat /\ q.touched \subseteq Id /\ q \in ReportState
  BY <1>2, <1>3 DEF ReportState
<1>5. PICK S : S = Id \ q.touched
  OBVIOUS
<1>6. /\ Frontier(q.read, q, q.cursor, S) /\ Len(q.read) < q.total
      /\ q.touched = {} => q.total = Cardinality(Visible(q.criteria))
  BY <1>1, <1>3, <1>5 DEF ReportFits
<1>7. Len(q.read) \in Nat
  BY <1>4
<1>8. PICK limit : limit = CHOOSE n \in {ReportPage, FileRows - (Len(q.read) % FileRows), q.total - Len(q.read)} :
                     \A m \in {ReportPage, FileRows - (Len(q.read) % FileRows), q.total - Len(q.read)} : n <= m
  OBVIOUS
<1>9. limit \in Nat \ {0}
  BY <1>4, <1>6, <1>7, <1>8, RoundReads
<1>10. PICK found : found = FetchRows(q, q.direction, q.cursor, limit + 1)
  OBVIOUS
<1>11. PICK page : page = Take(found, limit)
  OBVIOUS
<1>12. PICK all : all = q.read \o page
  OBVIOUS
<1>13. PICK c : c = IF Len(found) > limit THEN encodeCursor(page[limit], sortMeta(q.column)) ELSE NoCursor
  OBVIOUS
<1>14. findForReport(q, q.cursor, limit) = [records |-> page, nextCursor |-> c]
  BY <1>10, <1>11, <1>13 DEF findForReport
<1>15. PICK p : p = IF Len(all) >= q.total \/ c = NoCursor THEN "done" ELSE "reading"
  OBVIOUS
<1>16. report' = [q EXCEPT !.read = all, !.cursor = c, !.phase = p]
  <2>1. PICK answer : answer = findForReport(q, q.cursor, limit)
    OBVIOUS
  <2>2. answer.records = page /\ answer.nextCursor = c
    BY <1>14, <2>1
  <2>3. report' = [q EXCEPT !.read = q.read \o answer.records, !.cursor = answer.nextCursor,
                            !.phase = IF Len(q.read \o answer.records) >= q.total \/ answer.nextCursor = NoCursor
                                      THEN "done" ELSE "reading"]
    BY <1>3, <1>8, <2>1, Zenon DEF readRows
  <2> QED
    BY <1>12, <1>15, <2>2, <2>3, Zenon
<1>17. UNCHANGED <<table, view, asked, touched, walk, searches, changes>>
  BY DEF readRows
<1>18. S \subseteq Id
  BY <1>5
<1>19. /\ page \in Seq(Id) /\ Len(page) <= limit /\ all \in Seq(Id)
       /\ Front(all, q, S)
       /\ ~(Len(found) > limit) => LeavesOutNone(all, q, S)
       /\ Len(found) > limit =>
            /\ Len(page) = limit /\ page[limit] \in Stored
            /\ Frontier(all, q, encodeCursor(page[limit], sortMeta(q.column)), S)
  BY <1>2, <1>4, <1>6, <1>9, <1>10, <1>11, <1>12, <1>18, ReadOn
<1>20. /\ c \in Cursor
       /\ c = NoCursor => ~(Len(found) > limit)
       /\ c # NoCursor => Frontier(all, q, c, S)
  <2>1. CASE Len(found) > limit
    <3>1. page[limit] \in Stored /\ q.column \in Column /\ c = encodeCursor(page[limit], sortMeta(q.column))
      BY <1>4, <1>13, <1>19, <2>1 DEF IsQuery
    <3>2. c \in Cursor /\ c # NoCursor
      BY <1>2, <3>1, CursorOfRow
    <3> QED
      BY <1>19, <2>1, <3>1, <3>2
  <2>2. CASE ~(Len(found) > limit)
    <3>1. c = NoCursor
      BY <1>13, <2>2, Zenon
    <3> QED
      BY <2>2, <3>1, NoCursorIsCursor
  <2> QED
    BY <2>1, <2>2
<1>21. p \in {"done", "reading"}
  BY <1>15
<1>22. PICK r : r = report'
  OBVIOUS
<1>23. /\ r \in ReportState /\ SameQuery(q, r) /\ r.read = all /\ r.cursor = c /\ r.phase = p
       /\ r.total = q.total /\ r.touched = q.touched
  BY <1>4, <1>16, <1>19, <1>20, <1>21, <1>22 DEF ReportState, SameQuery
<1>24. SearchTypeOK'
  BY <1>1, <1>17, <1>22, <1>23 DEF SearchTypeOK
<1>25. Untouched(S)
  BY <1>17, <1>18 DEF Untouched
<1>26. /\ Front(all, q, S) => Front(all, r, S)'
       /\ LeavesOutNone(all, q, S) => LeavesOutNone(all, r, S)'
       /\ Frontier(all, q, c, S) => Frontier(all, r, c, S)'
  BY <1>23, <1>25, CalmKeeps
<1>27. p = "done" /\ q.touched = {} => LeavesOutNone(all, q, S)
  <2> SUFFICES ASSUME p = "done", q.touched = {} PROVE LeavesOutNone(all, q, S)
    OBVIOUS
  <2>1. CASE c = NoCursor
    BY <1>19, <1>20, <2>1
  <2>2. CASE Len(all) >= q.total
    <3>1. S = Id
      BY <1>5
    <3>2. Cardinality(Visible(q.criteria)) <= Len(all)
      <4>1. Cardinality(Visible(q.criteria)) = q.total /\ Len(all) \in Nat
        BY <1>6, <1>19
      <4> QED
        BY <1>4, <2>2, <4>1
    <3>3. Front(all, q, Id) /\ all \in Seq(Id)
      BY <1>19, <3>1
    <3> QED
      BY <1>2, <1>4, <3>1, <3>2, <3>3, EnoughIsAll
  <2> QED
    BY <1>15, <2>1, <2>2
<1>28. p = "reading" => Len(all) < q.total /\ c # NoCursor
  <2>1. Len(all) \in Nat
    BY <1>19
  <2> QED
    BY <1>4, <1>15, <2>1
<1>29. Visible(r.criteria)' = Visible(q.criteria)
  BY <1>17, <1>23, VisibleKept DEF SameQuery
<1>30. ReportFits'
  <2>1. p = "reading" => Frontier(all, r, c, S)'
    BY <1>20, <1>26, <1>28
  <2>2. r.touched = {} => r.total = Cardinality(Visible(r.criteria)')
    BY <1>6, <1>23, <1>29
  <2> QED
    BY <1>5, <1>22, <1>23, <1>28, <2>1, <2>2 DEF ReportFits
<1>31. ReportComplete'
  <2>1. Front(all, r, S)'
    BY <1>19, <1>26
  <2>2. p = "done" /\ r.touched = {} => LeavesOutNone(all, r, Id)'
    BY <1>5, <1>23, <1>26, <1>27
  <2> QED
    BY <1>5, <1>22, <1>23, <2>1, <2>2 DEF ReportComplete
<1> QED
  BY <1>24, <1>30, <1>31 DEF ReportInv

(* A report that fails is gone. *)
LEMMA GenerateFailsReport ==
    ASSUME ReportInv, generateFails
    PROVE  ReportInv'
<1>1. report' = NoReport /\ UNCHANGED <<table, view, asked, touched, walk, searches, changes>>
  BY DEF generateFails
<1>2. NoReport \in ReportState
  BY NoCursorIsCursor DEF NoReport, ReportState, Criteria, Column, Direction
<1>3. SearchTypeOK'
  BY <1>1, <1>2 DEF SearchTypeOK, ReportInv
<1>4. report'.phase = "none"
  BY <1>1 DEF NoReport
<1> QED
  BY <1>3, <1>4 DEF ReportInv, ReportFits, ReportComplete

(* A payment changes one row, and is noted. *)
Pays ==
    \E i \in Id :
        /\ table' \in [Id -> Transaction \cup {NoRow}] /\ \A j \in Id \ {i} : table'[j] = table[j]
        /\ touched' = touched \cup {i}
        /\ report' = IF report.phase = "none" THEN report
                     ELSE [report EXCEPT !.touched = @ \cup {i}]
        /\ changes' = changes + 1
        /\ UNCHANGED <<view, asked, walk, searches>>

(* A row that changes is noted as touched. *)
LEMMA ChangePays ==
    ASSUME TableOK, NEW i \in Id, NEW row \in Transaction, Change(i, row)
    PROVE  Pays
<1>1. table' = [table EXCEPT ![i] = row]
  BY DEF Change
<1>2. table' \in [Id -> Transaction \cup {NoRow}] /\ \A j \in Id \ {i} : table'[j] = table[j]
  BY <1>1 DEF TableOK
<1> QED
  BY <1>2 DEF Change, Pays

(* A payment inserts a row or updates one. *)
LEMMA PaymentPays ==
    ASSUME TableOK, NEW i \in Id, Insert(i) \/ Merge(i)
    PROVE  Pays
<1>1. CASE Insert(i)
  <2>1. Arrival[i] \in Transaction
    BY SearchAssumption
  <2> QED
    BY <1>1, <2>1, ChangePays DEF Insert
<1>2. CASE Merge(i)
  <2>1. table[i] \in Transaction /\ Update[i] \in Transaction
    BY <1>2, SearchAssumption DEF TableOK, Merge
  <2>2. PICK row : /\ Change(i, row)
                   /\ \E payer \in {table[i].payer, Update[i].payer},
                         payee \in {table[i].payee, Update[i].payee} :
                        row = [payer |-> payer, payee |-> payee,
                               started |-> IF Update[i].started < table[i].started
                                           THEN Update[i].started ELSE table[i].started,
                               completed |-> IF Update[i].completed = Null
                                             THEN table[i].completed ELSE Update[i].completed,
                               correlation |-> table[i].correlation]
    BY <1>2 DEF Merge
  <2>3. row \in Transaction
    BY <2>1, <2>2 DEF Transaction
  <2> QED
    BY <2>2, <2>3, ChangePays
<1> QED
  BY <1>1, <1>2

(* Payments keep the types. *)
LEMMA PaysTyped ==
    ASSUME SearchTypeOK, Pays
    PROVE  SearchTypeOK'
<1>1. PICK i \in Id :
        /\ table' \in [Id -> Transaction \cup {NoRow}]
        /\ touched' = touched \cup {i}
        /\ report' = IF report.phase = "none" THEN report
                     ELSE [report EXCEPT !.touched = @ \cup {i}]
        /\ changes' = changes + 1
        /\ UNCHANGED <<view, asked, walk, searches>>
  BY DEF Pays
<1>2. report \in ReportState
  BY DEF SearchTypeOK
<1>3. report' \in ReportState
  BY <1>1, <1>2 DEF ReportState
<1>4. touched' \subseteq Id /\ changes' \in Nat
  BY <1>1 DEF SearchTypeOK
<1> QED
  BY <1>1, <1>3, <1>4 DEF SearchTypeOK

(* What a report has read of the rows that stay calm is not moved by a payment. *)
LEMMA PaysReport ==
    ASSUME ReportInv, Pays
    PROVE  ReportInv'
<1>1. PICK i \in Id :
        /\ \A j \in Id \ {i} : table'[j] = table[j]
        /\ report' = IF report.phase = "none" THEN report
                     ELSE [report EXCEPT !.touched = @ \cup {i}]
  BY DEF Pays
<1>2. SearchTypeOK'
  BY PaysTyped DEF ReportInv
<1>3. CASE report.phase = "none"
  <2>1. report'.phase = "none"
    BY <1>1, <1>3
  <2> QED
    BY <1>2, <2>1 DEF ReportInv, ReportFits, ReportComplete
<1>4. CASE report.phase # "none"
  <2>1. PICK q, r : q = report /\ r = report'
    OBVIOUS
  <2>2. q \in ReportState
    BY <2>1 DEF ReportInv, SearchTypeOK
  <2>3. r = [q EXCEPT !.touched = @ \cup {i}]
    BY <1>1, <1>4, <2>1
  <2>4. /\ SameQuery(q, r) /\ r.phase = q.phase /\ r.read = q.read /\ r.cursor = q.cursor
        /\ r.total = q.total /\ r.touched = q.touched \cup {i}
    BY <2>2, <2>3 DEF ReportState, SameQuery
  <2>5. PICK S, T : S = Id \ q.touched /\ T = Id \ r.touched
    OBVIOUS
  <2>6. T \subseteq S /\ Untouched(T) /\ r.touched # {}
    BY <1>1, <2>4, <2>5 DEF Untouched
  <2>7. PICK seq, c : seq = q.read /\ c = q.cursor
    OBVIOUS
  <2>8. /\ Front(seq, q, S) => Front(seq, r, T)'
        /\ Frontier(seq, q, c, S) => Frontier(seq, r, c, T)'
    BY <2>4, <2>6, CalmKeeps
  <2>9. ReportFits'
    <3>1. q.phase = "reading" => Frontier(seq, q, c, S) /\ Len(q.read) < q.total
      BY <2>1, <2>5, <2>7 DEF ReportInv, ReportFits
    <3>2. r.phase = "reading" => Frontier(seq, r, c, T)' /\ Len(r.read) < r.total
      BY <2>4, <2>8, <3>1
    <3> QED
      BY <2>1, <2>4, <2>5, <2>6, <2>7, <3>2 DEF ReportFits
  <2>10. ReportComplete'
    <3>1. q.phase = "done" => Front(seq, q, S)
      BY <2>1, <2>5, <2>7 DEF ReportInv, ReportComplete
    <3>2. r.phase = "done" => Front(seq, r, T)'
      BY <2>4, <2>8, <3>1
    <3> QED
      BY <2>1, <2>4, <2>5, <2>6, <2>7, <3>2 DEF ReportComplete
  <2> QED
    BY <1>2, <2>9, <2>10 DEF ReportInv
<1> QED
  BY <1>3, <1>4

(* A step that changes neither the rows nor the report. *)
LEMMA ReportKept ==
    ASSUME ReportInv, SearchTypeOK', UNCHANGED <<table, report>>
    PROVE  ReportInv'
<1>1. PICK q, S : q = report /\ S = Id \ report.touched
  OBVIOUS
<1>2. S \subseteq Id /\ Untouched(S) /\ Untouched(Id) /\ SameQuery(q, q)
  BY <1>1 DEF Untouched, SameQuery
<1>3. PICK seq, c : seq = q.read /\ c = q.cursor
  OBVIOUS
<1>4. /\ Front(seq, q, S) => Front(seq, q, S)'
      /\ Frontier(seq, q, c, S) => Frontier(seq, q, c, S)'
  BY <1>2, CalmKeeps
<1>5. LeavesOutNone(seq, q, Id) => LeavesOutNone(seq, q, Id)'
  BY <1>2, CalmKeeps
<1>6. Visible(q.criteria)' = Visible(q.criteria)
  BY VisibleKept
<1>7. report' = q
  BY <1>1
<1>8. ReportFits'
  <2>1. q.phase = "reading" => /\ Frontier(seq, q, c, S) /\ Len(q.read) < q.total
                               /\ q.touched = {} => q.total = Cardinality(Visible(q.criteria))
    BY <1>1, <1>3 DEF ReportInv, ReportFits
  <2> QED
    BY <1>1, <1>3, <1>4, <1>6, <1>7, <2>1 DEF ReportFits
<1>9. ReportComplete'
  <2>1. q.phase = "done" => Front(seq, q, S) /\ (q.touched = {} => LeavesOutNone(seq, q, Id))
    BY <1>1, <1>3 DEF ReportInv, ReportComplete
  <2> QED
    BY <1>1, <1>3, <1>4, <1>5, <1>7, <2>1 DEF ReportComplete
<1> QED
  BY <1>8, <1>9 DEF ReportInv

(* Every step keeps the invariant of the report. *)
LEMMA NextReport ==
    ASSUME ReportInv, [SearchNext]_searchVars
    PROVE  ReportInv'
<1>1. SearchTypeOK /\ TableOK
  BY QueriesAreQueries DEF ReportInv
<1>2. CASE Browse
  <2>1. UNCHANGED <<table, report>>
    BY <1>1, <1>2, BrowseReads
  <2>2. SearchTypeOK'
    BY <1>1, <1>2, BrowseTyped
  <2> QED
    BY <2>1, <2>2, ReportKept
<1>3. CASE generate
  BY <1>1, <1>3, GenerateReport
<1>4. CASE readRows
  BY <1>4, ReadRowsReport
<1>5. CASE generateFails
  BY <1>5, GenerateFailsReport
<1>6. ASSUME NEW i \in Id, Insert(i) \/ Merge(i) PROVE ReportInv'
  <2>1. Pays
    BY <1>1, <1>6, PaymentPays
  <2> QED
    BY <2>1, PaysReport
<1>7. CASE UNCHANGED searchVars
  <2>1. UNCHANGED <<table, view, asked, report, touched, walk, searches, changes>>
    BY <1>7 DEF searchVars
  <2>2. SearchTypeOK'
    BY <1>1, <2>1 DEF SearchTypeOK
  <2> QED
    BY <2>1, <2>2, ReportKept
<1> QED
  BY <1>2, <1>3, <1>4, <1>5, <1>6, <1>7 DEF SearchNext

(* A report of any size, for any page size and any number of rows per file, has     *)
(* of the rows that did not change while it was read the first ones of the search,  *)
(* once and in order, and all of them when none changed (ReportComplete: generate,  *)
(* readRows, findForReport), however many rows there are and however many change.   *)
THEOREM ReportsAreComplete == SearchSpec => []ReportComplete
<1>1. ReportInv => ReportComplete
  BY DEF ReportInv
<1> QED
  BY InitReport, NextReport, <1>1, PTL DEF SearchSpec

(* page is a stretch of all in the order of the column; more and earlier *)
(* tell whether there are rows after and before it. *)
Stretch(page, more, earlier, all, field, dir) ==
    LET P == Elements(page) IN
    /\ page \in Seq(all) /\ Len(page) \in Nat /\ Len(page) <= Size
    /\ \A k, l \in 1 .. Len(page) : k < l => Before(page[k], page[l], field, dir)
    /\ \A i \in all \ P, j, k \in P : ~(Before(j, i, field, dir) /\ Before(i, k, field, dir))
    /\ P = {} => all = {}
    /\ more <=> \E i \in all \ P, j \in P : Before(j, i, field, dir)
    /\ earlier <=> \E i \in all \ P, j \in P : Before(i, j, field, dir)
    /\ earlier /\ more => Len(page) = Size

(* A read begins nowhere, or after a row that others come after. *)
Begins(c, q, dir) ==
    c = NoCursor \/ /\ AtRow(c, q)
                    /\ \E i \in Visible(q.criteria) : Before(c.id, i, q.column, dir)

(* A read from a row, or from the beginning, is a stretch of the result. *)
LEMMA ReadStretch ==
    ASSUME TableOK, NEW q, IsQuery(q), NEW dir \in Direction, NEW c, Begins(c, q, dir),
           NEW found, found = FetchRows(q, dir, c, Size + 1),
           NEW page, page = Take(found, Size)
    PROVE  Stretch(page, Len(found) > Size, c # NoCursor, Visible(q.criteria), q.column, dir)
<1>1. PICK all, A, P : all = Visible(q.criteria) /\ A = Found(q, dir, c) /\ P = Elements(page)
  OBVIOUS
<1>2. PICK more, field : more = (Len(found) > Size) /\ field = q.column
  OBVIOUS
<1>3. A \subseteq all /\ all \subseteq Stored /\ all \subseteq Id /\ A \subseteq Id /\ field \in Column
  BY <1>1, <1>2, RowsAreIds DEF Found, IsQuery
<1>4. Size \in Nat /\ Size # 0 /\ Size + 1 \in Nat
  BY SearchAssumption
<1>5. PICK R : R = OrderOf(field, dir)
  OBVIOUS
<1>6. Orders(R, A)
  BY <1>3, <1>5, BeforeOrders, PartOrdered
<1>7. Firsts(found, A, Size + 1, R)
  BY <1>1, <1>2, <1>3, <1>4, <1>5, FetchIsFirsts
<1>8. /\ page \in Seq(A) /\ Ascends(page, R) /\ Len(page) \in Nat /\ Len(page) <= Size
      /\ Elements(page) \subseteq A
      /\ \A i \in A \ Elements(page), j \in Elements(page) : <<j, i>> \in R
      /\ Len(found) > Size => Len(page) = Size /\ \E i \in A : i \notin Elements(page)
      /\ ~(Len(found) > Size) => Elements(page) = A
  BY <1>4, <1>6, <1>7, PageOfFirsts
<1>9. \A i, j \in Id : <<i, j>> \in R <=> Before(i, j, field, dir)
  BY <1>5 DEF OrderOf
<1>10. page \in Seq(all) /\ page \in Seq(A) /\ Len(page) \in Nat /\ Len(page) <= Size /\ P \subseteq A
  BY <1>1, <1>3, <1>8
<1>11. \A i \in A \ P, j \in P : Before(j, i, field, dir)
  <2>1. \A i \in A \ P, j \in P : <<j, i>> \in R /\ i \in Id /\ j \in Id
    BY <1>1, <1>3, <1>8
  <2> QED
    BY <1>9, <2>1
<1>12. \A k, l \in 1 .. Len(page) : k < l => Before(page[k], page[l], field, dir)
  <2>1. DOMAIN page = 1 .. Len(page) /\ \A k \in 1 .. Len(page) : page[k] \in Id
    BY <1>3, <1>10
  <2>2. Ascends(page, R)
    BY <1>8
  <2> QED
    BY <1>9, <2>1, <2>2 DEF Ascends
<1>13. more => Len(page) = Size /\ P # {} /\ \E i \in A : i \notin P
  <2>1. more => Len(page) = Size /\ \E i \in A : i \notin P
    BY <1>1, <1>2, <1>8
  <2>2. Len(page) # 0 => P # {}
    BY <1>1, <1>10, ElementsOf
  <2> QED
    BY <1>4, <2>1, <2>2
<1>14. ~more => P = A
  BY <1>1, <1>2, <1>8
<1>o. /\ \A i \in Id : ~Before(i, i, field, dir)
      /\ \A i, j, k \in Id : Before(i, j, field, dir) /\ Before(j, k, field, dir) => Before(i, k, field, dir)
      /\ \A i, j \in Id : i # j => Before(i, j, field, dir) \/ Before(j, i, field, dir)
      /\ \A i, j \in Id : Before(i, j, field, dir) => ~Before(j, i, field, dir)
  BY <1>3, ComesOrders
<1>15. /\ \A i \in all \ A, j \in A : Before(i, j, field, dir)
       /\ c # NoCursor => A # {} /\ \E i \in all : i \notin A
       /\ c = NoCursor => A = all
  <2>1. CASE c = NoCursor
    <3>1. A = all
      BY <1>1, <2>1 DEF Found
    <3> QED
      BY <2>1, <3>1
  <2>2. CASE c # NoCursor
    <3>1. PICK b : b = c.id
      OBVIOUS
    <3>2. b \in all /\ c = encodeCursor(b, sortMeta(field)) /\ \E i \in all : Before(b, i, field, dir)
      BY <1>1, <1>2, <2>2, <3>1 DEF Begins, AtRow
    <3>3. \A i \in all : i \in A <=> Before(b, i, field, dir)
      <4>1. \A i \in all : keysetWhere(sortMeta(field), dir, c, i) <=> Before(b, i, field, dir)
        BY <1>3, <3>2, KeysetIsBefore
      <4>2. \A i \in all : i \in A <=> keysetWhere(sortMeta(field), dir, c, i)
        BY <1>1, <1>2, <2>2 DEF Found
      <4> QED
        BY <4>1, <4>2
    <3>4. b \notin A /\ A # {}
      BY <1>3, <1>o, <3>2, <3>3
    <3>5. ASSUME NEW i \in all \ A, NEW j \in A PROVE Before(i, j, field, dir)
      <4>1. ~Before(b, i, field, dir) /\ Before(b, j, field, dir) /\ i \in Id /\ j \in Id /\ b \in Id
        BY <1>3, <3>2, <3>3, <3>5
      <4>2. i = b \/ Before(i, b, field, dir)
        BY <1>o, <4>1
      <4> QED
        BY <1>o, <4>1, <4>2
    <3> QED
      BY <2>2, <3>2, <3>4, <3>5
  <2> QED
    BY <2>1, <2>2
<1>16. P # {} \/ A = {}
  BY <1>13, <1>14
<1>17. P = {} => all = {}
  BY <1>15, <1>16
<1>18. \A i \in all \ P, j \in P : i \in A => Before(j, i, field, dir) /\ ~Before(i, j, field, dir)
  BY <1>3, <1>10, <1>11, <1>o
<1>19. \A i \in all \ P, j \in P : i \notin A => Before(i, j, field, dir) /\ ~Before(j, i, field, dir)
  BY <1>3, <1>10, <1>15, <1>o
<1>20. \A i \in all \ P, j, k \in P : ~(Before(j, i, field, dir) /\ Before(i, k, field, dir))
  BY <1>18, <1>19
<1>21. more <=> \E i \in all \ P, j \in P : Before(j, i, field, dir)
  <2>1. CASE more
    <3>1. PICK i \in A, j \in P : i \notin P
      BY <1>13, <2>1
    <3> QED
      BY <1>3, <1>11, <2>1, <3>1
  <2>2. CASE ~more
    BY <1>14, <1>19, <2>2
  <2> QED
    BY <2>1, <2>2
<1>22. c # NoCursor <=> \E i \in all \ P, j \in P : Before(i, j, field, dir)
  <2>1. CASE c # NoCursor
    <3>1. PICK i \in all, j \in P : i \notin A
      BY <1>15, <1>16, <2>1
    <3> QED
      BY <1>10, <1>15, <2>1, <3>1
  <2>2. CASE c = NoCursor
    BY <1>15, <1>18, <2>2
  <2> QED
    BY <2>1, <2>2
<1>23. Stretch(page, more, c # NoCursor, all, field, dir)
  BY <1>1, <1>10, <1>12, <1>13, <1>17, <1>20, <1>21, <1>22 DEF Stretch
<1> QED
  BY <1>1, <1>2, <1>23

(* Backwards, a stretch is one of the reverse order. *)
LEMMA StretchTurned ==
    ASSUME NEW dir \in Direction, NEW field, NEW all, NEW page, NEW more, NEW earlier,
           Stretch(page, more, earlier, all, field, Flip(dir))
    PROVE  Stretch(Reverse(page), earlier, more, all, field, dir)
<1>1. page \in Seq(all) /\ Len(page) \in Nat
  BY DEF Stretch
<1>2. PICK r, n : r = Reverse(page) /\ n = Len(page)
  OBVIOUS
<1>3. r \in Seq(all) /\ Len(r) = n /\ n \in Nat /\ Elements(r) = Elements(page)
  BY <1>1, <1>2, Reversed
<1>4. \A k \in 1 .. n : r[k] = page[n + 1 - k] /\ n + 1 - k \in 1 .. n
  BY <1>1, <1>2, Reversed
<1>5. \A i, j : Before(i, j, field, Flip(dir)) <=> Before(j, i, field, dir)
  BY FlipFlips
<1>6. \A k, l \in 1 .. n : k < l => Before(r[k], r[l], field, dir)
  <2> SUFFICES ASSUME NEW k \in 1 .. n, NEW l \in 1 .. n, k < l PROVE Before(r[k], r[l], field, dir)
    OBVIOUS
  <2>1. n + 1 - l < n + 1 - k /\ n + 1 - l \in 1 .. n /\ n + 1 - k \in 1 .. n
    BY <1>3
  <2>2. Before(page[n + 1 - l], page[n + 1 - k], field, Flip(dir))
    BY <1>2, <2>1 DEF Stretch
  <2>3. Before(page[n + 1 - k], page[n + 1 - l], field, dir)
    BY <1>5, <2>2
  <2> QED
    BY <1>4, <2>3
<1>7. PICK P : P = Elements(page)
  OBVIOUS
<1>8. \A i \in all \ P, j, k \in P : ~(Before(j, i, field, dir) /\ Before(i, k, field, dir))
  BY <1>5, <1>7 DEF Stretch
<1>9. more <=> \E i \in all \ P, j \in P : Before(i, j, field, dir)
  BY <1>5, <1>7 DEF Stretch
<1>10. earlier <=> \E i \in all \ P, j \in P : Before(j, i, field, dir)
  BY <1>5, <1>7 DEF Stretch
<1>11. n <= Size /\ (earlier /\ more => n = Size) /\ (P = {} => all = {})
  BY <1>2, <1>7 DEF Stretch
<1> QED
  BY <1>2, <1>3, <1>6, <1>7, <1>8, <1>9, <1>10, <1>11 DEF Stretch

(* A stretch is a window, and its ends are the places to go on from. *)
LEMMA StretchIsWindow ==
    ASSUME TableOK, NEW q, IsQuery(q), NEW page, NEW info, NEW more, NEW earlier,
           Stretch(page, more, earlier, Visible(q.criteria), q.column, q.direction),
           info.hasNext = more, info.hasPrev = earlier,
           page # <<>> => /\ info.startCursor = encodeCursor(page[1], sortMeta(q.column))
                          /\ info.endCursor = encodeCursor(page[Len(page)], sortMeta(q.column))
    PROVE  Window(page, info, q) /\ CursorsAt(info, q)
<1>1. PICK all, P, n : all = Visible(q.criteria) /\ P = Elements(page) /\ n = Len(page)
  OBVIOUS
<1>2. all \subseteq Stored /\ all \subseteq Id
  BY <1>1, RowsAreIds
<1>3. page \in Seq(all) /\ n \in Nat /\ n <= Size /\ (P = {} => all = {}) /\ (earlier /\ more => n = Size)
  BY <1>1 DEF Stretch
<1>4. \A k, l \in 1 .. n : k < l => Comes(page[k], page[l], q)
  BY <1>1 DEF Stretch, Comes
<1>5. \A i \in all \ P, j, k \in P : ~(Comes(j, i, q) /\ Comes(i, k, q))
  BY <1>1 DEF Stretch, Comes
<1>6. more <=> \E i \in all \ P, j \in P : Comes(j, i, q)
  BY <1>1 DEF Stretch, Comes
<1>7. earlier <=> \E i \in all \ P, j \in P : Comes(i, j, q)
  BY <1>1 DEF Stretch, Comes
<1>8. DOMAIN page = 1 .. n /\ P \subseteq all
  BY <1>1, <1>3, ElementsOf
<1>9. InOrder(page, q, Id)
  BY <1>4, <1>8 DEF InOrder
<1>10. Window(page, info, q)
  BY <1>1, <1>3, <1>5, <1>6, <1>7, <1>8, <1>9 DEF Window
<1>o. /\ \A i, j, k \in Id : Comes(i, j, q) /\ Comes(j, k, q) => Comes(i, k, q)
      /\ \A i, j \in Id : i # j => Comes(i, j, q) \/ Comes(j, i, q)
  BY ComesOrders DEF Comes, IsQuery
<1>11. ASSUME more
       PROVE  AtRow(info.endCursor, q) /\ \E i \in all : Comes(info.endCursor.id, i, q)
  <2>1. PICK i \in all \ P, j \in P : Comes(j, i, q)
    BY <1>6, <1>11
  <2>2. page # <<>> /\ n \in 1 .. n
    BY <1>1, <1>3, <1>8, <2>1, ElementsOf
  <2>3. PICK b : b = page[n]
    OBVIOUS
  <2>4. b \in P /\ b \in all /\ b \in Stored /\ b \in Id
    BY <1>1, <1>2, <1>8, <2>2, <2>3 DEF Elements
  <2>5. info.endCursor = encodeCursor(b, sortMeta(q.column))
    BY <1>1, <2>2, <2>3
  <2>6. info.endCursor.id = b
    BY <2>4, <2>5, CursorOfRow DEF IsQuery
  <2>7. Comes(b, i, q)
    <3>1. i # b /\ i \in Id /\ j \in Id
      BY <1>2, <1>8, <2>1, <2>4
    <3>2. ~Comes(i, b, q)
      BY <1>5, <2>1, <2>4
    <3> QED
      BY <1>o, <2>4, <3>1, <3>2
  <2> QED
    BY <1>1, <2>1, <2>4, <2>5, <2>6, <2>7 DEF AtRow
<1>12. ASSUME earlier
       PROVE  AtRow(info.startCursor, q) /\ \E i \in all : Comes(i, info.startCursor.id, q)
  <2>1. PICK i \in all \ P, j \in P : Comes(i, j, q)
    BY <1>7, <1>12
  <2>2. page # <<>> /\ 1 \in 1 .. n
    BY <1>1, <1>3, <1>8, <2>1, ElementsOf
  <2>3. PICK b : b = page[1]
    OBVIOUS
  <2>4. b \in P /\ b \in all /\ b \in Stored /\ b \in Id
    BY <1>1, <1>2, <1>8, <2>2, <2>3 DEF Elements
  <2>5. info.startCursor = encodeCursor(b, sortMeta(q.column))
    BY <1>1, <2>2, <2>3
  <2>6. info.startCursor.id = b
    BY <2>4, <2>5, CursorOfRow DEF IsQuery
  <2>7. Comes(i, b, q)
    <3>1. i # b /\ i \in Id /\ j \in Id
      BY <1>2, <1>8, <2>1, <2>4
    <3>2. ~Comes(b, i, q)
      BY <1>5, <2>1, <2>4
    <3> QED
      BY <1>o, <2>4, <3>1, <3>2
  <2> QED
    BY <1>1, <2>1, <2>4, <2>5, <2>6, <2>7 DEF AtRow
<1> QED
  BY <1>1, <1>10, <1>11, <1>12 DEF CursorsAt

(* A request that asks for the page next to a cursor of the page it shows. *)
AsksFrom(q) ==
    LET position == resolveCursor(q) IN
    /\ position = "next" => Begins(q.token, q, q.direction)
    /\ position = "prev" => Begins(q.token, q, Flip(q.direction))

(* Next and prev have a token (resolveCursor). *)
LEMMA Resolved ==
    ASSUME NEW q \in PageRequest
    PROVE  /\ resolveCursor(q) \in Position
           /\ resolveCursor(q) \in {"next", "prev"} => resolveCursor(q) = q.position /\ q.token # NoCursor
BY DEF resolveCursor, PageRequest, Position

(* When no row changes, every answer is a window. *)
LEMMA AnswerIsWindow ==
    ASSUME TableOK, NEW q \in PageRequest, AsksFrom(q)
    PROVE  Window(find(q).records, find(q).pageInfo, q) /\ CursorsAt(find(q).pageInfo, q)
<1>1. IsQuery(q) /\ q.column \in Column /\ q.direction \in Direction
  BY DEF PageRequest, IsQuery
<1>2. PICK position, meta : position = resolveCursor(q) /\ meta = sortMeta(q.column)
  OBVIOUS
<1>3. position \in Position /\ (position \in {"next", "prev"} => q.token # NoCursor)
  BY <1>2, Resolved
<1>4. PICK token : token = IF position \in {"next", "prev"} THEN q.token ELSE NoCursor
  OBVIOUS
<1>5. PICK dir : dir = IF position \in {"prev", "last"} THEN Flip(q.direction) ELSE q.direction
  OBVIOUS
<1>6. dir \in Direction
  BY <1>1, <1>5, FlipFlips
<1>7. Begins(token, q, dir)
  BY <1>2, <1>3, <1>4, <1>5 DEF AsksFrom, Position, Begins
<1>8. PICK found, read : found = FetchRows(q, dir, token, Size + 1) /\ read = Take(found, Size)
  OBVIOUS
<1>9. PICK more, earlier : more = (Len(found) > Size) /\ earlier = (token # NoCursor)
  OBVIOUS
<1>10. Stretch(read, more, earlier, Visible(q.criteria), q.column, dir)
  BY <1>1, <1>6, <1>7, <1>8, <1>9, ReadStretch
<1>11. earlier <=> position \in {"next", "prev"}
  BY <1>3, <1>4, <1>9
<1>12. PICK page, info : page = find(q).records /\ info = find(q).pageInfo
  OBVIOUS
<1>13. page = IF position \in {"prev", "last"} THEN Reverse(read) ELSE read
  BY <1>2, <1>4, <1>5, <1>8, <1>12 DEF find
<1>14. info = buildPageInfo(position, more, page, meta)
  BY <1>2, <1>4, <1>5, <1>8, <1>9, <1>12 DEF find
<1>15. page # <<>> => /\ info.startCursor = encodeCursor(page[1], meta)
                      /\ info.endCursor = encodeCursor(page[Len(page)], meta)
  BY <1>14 DEF buildPageInfo
<1>16. /\ info.hasNext <=> position = "prev" \/ (position \in {"next", "first"} /\ more)
       /\ info.hasPrev <=> position = "next" \/ (position \in {"prev", "last"} /\ more)
       /\ info.hasNext \in BOOLEAN /\ info.hasPrev \in BOOLEAN
  BY <1>14 DEF buildPageInfo
<1>17. CASE position \in {"first", "next"}
  <2>1. dir = q.direction /\ page = read
    BY <1>5, <1>13, <1>17
  <2>2. (info.hasNext <=> more) /\ (info.hasPrev <=> earlier)
    BY <1>11, <1>16, <1>17
  <2>3. Stretch(page, info.hasNext, info.hasPrev, Visible(q.criteria), q.column, q.direction)
    BY <1>10, <2>1, <2>2 DEF Stretch
  <2> QED
    BY <1>1, <1>2, <1>12, <1>15, <2>3, StretchIsWindow
<1>18. CASE position \in {"last", "prev"}
  <2>1. dir = Flip(q.direction) /\ page = Reverse(read)
    BY <1>5, <1>13, <1>18
  <2>2. (info.hasNext <=> earlier) /\ (info.hasPrev <=> more)
    BY <1>11, <1>16, <1>18
  <2>3. Stretch(page, earlier, more, Visible(q.criteria), q.column, q.direction)
    BY <1>1, <1>10, <2>1, StretchTurned
  <2>4. Stretch(page, info.hasNext, info.hasPrev, Visible(q.criteria), q.column, q.direction)
    BY <2>2, <2>3 DEF Stretch
  <2> QED
    BY <1>1, <1>2, <1>12, <1>15, <2>4, StretchIsWindow
<1> QED
  BY <1>3, <1>17, <1>18 DEF Position

(* A window stays one while the table does not change. *)
LEMMA WindowKept ==
    ASSUME UNCHANGED table, NEW q, NEW r, SameQuery(q, r), NEW page, NEW info
    PROVE  /\ Window(page, info, q) => Window(page, info, r)'
           /\ CursorsAt(info, q) => CursorsAt(info, r)'
<1>1. \A i, j : Comes(i, j, q) <=> Comes(i, j, r)'
  BY DEF SameQuery, Comes, Before
<1>2. Visible(q.criteria) = Visible(r.criteria)'
  BY DEF SameQuery, Visible, applyCriteria, Stored
<1>3. Elements(page) = Elements(page)'
  BY DEF Elements
<1>4. InOrder(page, q, Id) => InOrder(page, r, Id)'
  BY <1>1 DEF InOrder
<1>5. \A c : AtRow(c, q) <=> AtRow(c, r)'
  BY <1>2 DEF AtRow, SameQuery, encodeCursor, sortMeta
<1>6. Window(page, info, q) => Window(page, info, r)'
  BY <1>1, <1>2, <1>3, <1>4 DEF Window
<1>7. CursorsAt(info, q) => CursorsAt(info, r)'
  BY <1>1, <1>2, <1>5 DEF CursorsAt
<1> QED
  BY <1>6, <1>7

(* An answer to a request for the page after what was read reads on. *)
LEMMA AnswerReadsOn ==
    ASSUME TableOK, NEW q \in PageRequest, NEW S, S \subseteq Id, NEW seq \in Seq(Id),
           resolveCursor(q) \in {"first", "next"},
           NEW c, c = IF resolveCursor(q) = "next" THEN q.token ELSE NoCursor,
           Frontier(seq, q, c, S),
           NEW page, page = find(q).records, NEW info, info = find(q).pageInfo
    PROVE  /\ Front(seq \o page, q, S)
           /\ ~info.hasNext => LeavesOutNone(seq \o page, q, S)
           /\ info.hasNext => Frontier(seq \o page, q, info.endCursor, S)
<1>1. IsQuery(q) /\ c \in Cursor
  BY NoCursorIsCursor DEF PageRequest, IsQuery
<1>2. PICK position, meta : position = resolveCursor(q) /\ meta = sortMeta(q.column)
  OBVIOUS
<1>3. position \in {"first", "next"} /\ position \notin {"prev", "last"}
  BY <1>2
<1>4. c = IF position \in {"next", "prev"} THEN q.token ELSE NoCursor
  BY <1>2, <1>3
<1>5. PICK found : found = FetchRows(q, q.direction, c, Size + 1)
  OBVIOUS
<1>6. PICK more : more = (Len(found) > Size)
  OBVIOUS
<1>7. page = Take(found, Size)
  BY <1>2, <1>3, <1>4, <1>5 DEF find
<1>8. info = buildPageInfo(position, more, page, meta)
  BY <1>2, <1>3, <1>4, <1>5, <1>6, <1>7 DEF find
<1>9. info.hasNext <=> more
  <2>1. info.hasNext = (position = "prev" \/ (position \in {"next", "first"} /\ more))
    BY <1>8 DEF buildPageInfo
  <2> QED
    BY <1>3, <2>1
<1>10. page # <<>> => info.endCursor = encodeCursor(page[Len(page)], meta)
  BY <1>8 DEF buildPageInfo
<1>11. Size \in Nat \ {0}
  BY SearchAssumption
<1>12. /\ page \in Seq(Id) /\ Len(page) <= Size /\ seq \o page \in Seq(Id)
       /\ Front(seq \o page, q, S)
       /\ ~(Len(found) > Size) => LeavesOutNone(seq \o page, q, S)
       /\ Len(found) > Size =>
            /\ Len(page) = Size /\ page[Size] \in Stored
            /\ Frontier(seq \o page, q, encodeCursor(page[Size], sortMeta(q.column)), S)
  BY <1>1, <1>5, <1>7, <1>11, ReadOn
<1>13. ASSUME more PROVE Frontier(seq \o page, q, info.endCursor, S)
  <2>1. Len(page) = Size /\ Frontier(seq \o page, q, encodeCursor(page[Size], sortMeta(q.column)), S)
    BY <1>6, <1>12, <1>13
  <2>2. page # <<>>
    BY <1>11, <2>1
  <2> QED
    BY <1>2, <1>10, <2>1, <2>2
<1> QED
  BY <1>6, <1>9, <1>12, <1>13

PagePlace == SearchTypeOK /\ RequestsFit /\ CursorsFit /\ WalkFits
PageInv == PagePlace /\ WalkComplete /\ PageIsWindow

(* One request at a time. *)
LEMMA SendsAlone ==
    ASSUME MaxAsked = 1, SearchTypeOK, NEW v, NEW r, Sends(v, r)
    PROVE  asked' = {r}
<1>1. IsFiniteSet(asked) /\ Cardinality(asked) \in Nat
  BY FS_CardinalityType DEF SearchTypeOK
<1>2. Cardinality(asked) = 0
  BY <1>1 DEF Sends
<1>3. asked = {}
  BY <1>1, <1>2, FS_EmptySet
<1> QED
  BY <1>3 DEF Sends

(* The one request that is sent fits the page. *)
LEMMA SendsFit ==
    ASSUME MaxAsked = 1, SearchTypeOK, NEW v, NEW r, Sends(v, r), TurnFits(r, view'.pageInfo)
    PROVE  RequestsFit'
<1>1. asked' = {r}
  BY SendsAlone
<1>2. r.criteria = view'.criteria /\ r.column = view'.column /\ r.direction = view'.direction /\ view'.loading
  BY DEF Sends, SameQuery
<1> QED
  BY <1>1, <1>2 DEF RequestsFit, TurnFits

(* What the page goes on from stays where it is. *)
LEMMA PlaceKept ==
    ASSUME CursorsFit, WalkFits, SameQuery(view, view'), view'.pageInfo = view.pageInfo,
           UNCHANGED <<table, touched, walk>>
    PROVE  CursorsFit' /\ WalkFits'
<1>1. PICK q, r, info, w : q = view /\ r = view' /\ info = view.pageInfo /\ w = walk
  OBVIOUS
<1>2. SameQuery(q, r)
  BY <1>1
<1>3. CursorsAt(info, q) => CursorsAt(info, r)'
  BY <1>2, WindowKept
<1>4. CursorsFit'
  BY <1>1, <1>3 DEF CursorsFit
<1>5. PICK S, c : S = Id \ touched /\ c = info.endCursor
  OBVIOUS
<1>6. S \subseteq S /\ Untouched(S)
  BY <1>5 DEF Untouched
<1>7. Frontier(w.seen, q, c, S) => Frontier(w.seen, r, c, S)'
  BY <1>2, <1>6, CalmKeeps
<1>8. WalkFits'
  BY <1>1, <1>5, <1>7 DEF WalkFits
<1> QED
  BY <1>4, <1>8

(* A new search forgets the cursors of the page. *)
LEMMA SearchesPage ==
    ASSUME MaxAsked = 1, PageInv, SearchTypeOK', Searches
    PROVE  PageInv'
<1>1. PICK v, r : Sends(v, r) /\ r.position = "first"
  BY DEF Searches
<1>2. view'.pageInfo = NoPage /\ view'.loading /\ ~NoPage.hasNext /\ ~NoPage.hasPrev
  BY <1>1 DEF Searches, Sends, NoPage
<1>3. TurnFits(r, view'.pageInfo)
  BY <1>1 DEF TurnFits
<1>4. RequestsFit'
  BY <1>1, <1>3, SendsFit DEF PageInv, PagePlace
<1>5. CursorsFit' /\ WalkFits'
  BY <1>2 DEF CursorsFit, CursorsAt, WalkFits
<1> QED
  BY <1>2, <1>4, <1>5 DEF PageInv, PagePlace, WalkComplete, PageIsWindow

(* Turning the page starts from its cursors. *)
LEMMA TurnsPage ==
    ASSUME MaxAsked = 1, PageInv, SearchTypeOK', Turns
    PROVE  PageInv'
<1>1. PICK v, r : v = view /\ Sends(v, r) /\ TurnFits(r, view.pageInfo)
  BY DEF Turns
<1>2. view'.pageInfo = view.pageInfo /\ view'.loading /\ SameQuery(view, view') /\ UNCHANGED <<table, touched, walk>>
  BY <1>1 DEF Turns, Sends
<1>3. TurnFits(r, view'.pageInfo)
  BY <1>1, <1>2
<1>4. RequestsFit'
  BY <1>1, <1>3, SendsFit DEF PageInv, PagePlace
<1>5. CursorsFit' /\ WalkFits'
  BY <1>2, PlaceKept DEF PageInv, PagePlace
<1> QED
  BY <1>2, <1>4, <1>5 DEF PageInv, PagePlace, WalkComplete, PageIsWindow

(* After a failure the page goes on from where it was. *)
LEMMA FailedPage ==
    ASSUME PageInv, SearchTypeOK', NEW q \in asked, searchFailed(q)
    PROVE  PageInv'
<1>1. asked' = {}
  BY DEF PageInv, PagePlace, RequestsFit, searchFailed
<1>2. view' = [view EXCEPT !.results = <<>>, !.shown = FALSE, !.loading = FALSE]
      /\ UNCHANGED <<table, touched, walk>>
  BY DEF searchFailed
<1>3. view \in View
  BY DEF PageInv, PagePlace, SearchTypeOK
<1>4. view'.pageInfo = view.pageInfo /\ ~view'.shown /\ SameQuery(view, view')
  BY <1>2, <1>3 DEF View, SameQuery
<1>5. CursorsFit' /\ WalkFits'
  BY <1>2, <1>4, PlaceKept DEF PageInv, PagePlace
<1> QED
  BY <1>1, <1>4, <1>5 DEF PageInv, PagePlace, RequestsFit, WalkComplete, PageIsWindow

(* What a request asks for is there, as long as no row has changed. *)
LEMMA RequestAsksFrom ==
    ASSUME PagePlace, NEW q \in asked,
           resolveCursor(q) \in {"first", "last"} \/ touched = {}
    PROVE  AsksFrom(q)
<1>1. q \in PageRequest /\ SameQuery(q, view) /\ q.direction \in Direction
  BY DEF PagePlace, SearchTypeOK, RequestsFit, SameQuery, PageRequest
<1>2. PICK position : position = resolveCursor(q)
  OBVIOUS
<1>3. position \in {"next", "prev"} => position = q.position
  BY <1>1, <1>2, Resolved
<1>4. \A c : AtRow(c, view) => AtRow(c, q)
  BY <1>1 DEF AtRow, SameQuery
<1>5. \A i, j : Comes(i, j, view) <=> Before(i, j, q.column, q.direction)
  BY <1>1 DEF Comes, SameQuery
<1>6. \A i, j : Before(i, j, q.column, Flip(q.direction)) <=> Before(j, i, q.column, q.direction)
  BY <1>1, FlipFlips
<1>7. Visible(q.criteria) = Visible(view.criteria)
  BY <1>1 DEF SameQuery
<1>8. ASSUME position = "next" PROVE Begins(q.token, q, q.direction)
  <2>1. touched = {} /\ view.pageInfo.hasNext /\ q.token = view.pageInfo.endCursor
    BY <1>2, <1>3, <1>8 DEF PagePlace, RequestsFit
  <2>2. AtRow(q.token, view) /\ \E i \in Visible(view.criteria) : Comes(q.token.id, i, view)
    BY <2>1 DEF PagePlace, CursorsFit, CursorsAt
  <2> QED
    BY <1>4, <1>5, <1>7, <2>2 DEF Begins
<1>9. ASSUME position = "prev" PROVE Begins(q.token, q, Flip(q.direction))
  <2>1. touched = {} /\ view.pageInfo.hasPrev /\ q.token = view.pageInfo.startCursor
    BY <1>2, <1>3, <1>9 DEF PagePlace, RequestsFit
  <2>2. AtRow(q.token, view) /\ \E i \in Visible(view.criteria) : Comes(i, q.token.id, view)
    BY <2>1 DEF PagePlace, CursorsFit, CursorsAt
  <2> QED
    BY <1>4, <1>5, <1>6, <1>7, <2>2 DEF Begins
<1> QED
  BY <1>2, <1>8, <1>9 DEF AsksFrom

(* Only what is searched for and the order count. *)
LEMMA SameFrontier ==
    ASSUME NEW q, NEW r, SameQuery(q, r), NEW seq, NEW c, NEW S, Frontier(seq, q, c, S)
    PROVE  Frontier(seq, r, c, S)
<1>1. \A i, j : Comes(i, j, q) <=> Comes(i, j, r)
  BY DEF SameQuery, Comes
<1>2. \A i : Beyond(i, c, q) <=> Beyond(i, c, r)
  BY DEF SameQuery, Beyond
<1>3. Visible(q.criteria) = Visible(r.criteria)
  BY DEF SameQuery
<1> QED
  BY <1>1, <1>2, <1>3 DEF Frontier, InOrder

(* Where a walk goes on from, at the answer to its next request. *)
LEMMA WalkGoesOn ==
    ASSUME PagePlace, NEW q \in asked, searchAnswered(q), walk'.going
    PROVE  \E seq \in Seq(Id) :
             /\ walk'.seen = seq \o find(q).records
             /\ resolveCursor(q) \in {"first", "next"}
             /\ Frontier(seq, q, IF resolveCursor(q) = "next" THEN q.token ELSE NoCursor, Id \ touched')
<1>1. PICK s, position : s = find(q).records /\ position = resolveCursor(q)
  OBVIOUS
<1>2. s \in Seq(Id) /\ q \in PageRequest
  BY <1>1, Answers DEF PagePlace
<1>3. walk' = CASE position = "first" -> [going |-> TRUE, seen |-> s]
                [] position = "next" /\ walk.going -> [going |-> TRUE, seen |-> walk.seen \o s]
                [] OTHER -> [going |-> FALSE, seen |-> <<>>]
  BY <1>1 DEF searchAnswered
<1>4. CASE position = "first"
  <2>1. walk' = [going |-> TRUE, seen |-> s]
    BY <1>3, <1>4
  <2>2. walk'.seen = <<>> \o s /\ <<>> \in Seq(Id)
    BY <1>2, <2>1
  <2>3. Frontier(<<>>, q, NoCursor, Id \ touched')
    BY NothingRead
  <2>4. (IF position = "next" THEN q.token ELSE NoCursor) = NoCursor
    BY <1>4
  <2> QED
    BY <1>1, <1>4, <2>2, <2>3, <2>4
<1>5. CASE position = "next" /\ walk.going
  <2>1. walk' = [going |-> TRUE, seen |-> walk.seen \o s]
    BY <1>3, <1>5
  <2>2. walk'.seen = walk.seen \o s /\ walk.seen \in Seq(Id)
    BY <2>1 DEF PagePlace, SearchTypeOK
  <2>3. touched' = touched
    <3>1. position \notin {"first", "last"}
      BY <1>5
    <3> QED
      BY <1>1, <3>1 DEF searchAnswered
  <2>4. q.position = "next"
    BY <1>1, <1>2, <1>5, Resolved
  <2>5. view.pageInfo.hasNext /\ q.token = view.pageInfo.endCursor /\ SameQuery(view, q)
    BY <2>4 DEF PagePlace, RequestsFit, SameQuery
  <2>6. Frontier(walk.seen, view, q.token, Id \ touched)
    BY <1>5, <2>5 DEF PagePlace, WalkFits
  <2>7. Frontier(walk.seen, q, q.token, Id \ touched)
    BY <2>5, <2>6, SameFrontier
  <2>8. (IF position = "next" THEN q.token ELSE NoCursor) = q.token
    BY <1>5
  <2> QED
    BY <1>1, <1>5, <2>2, <2>3, <2>7, <2>8
<1>6. CASE position # "first" /\ ~(position = "next" /\ walk.going)
  <2>1. walk' = [going |-> FALSE, seen |-> <<>>]
    BY <1>3, <1>6
  <2> QED
    BY <2>1
<1> QED
  BY <1>4, <1>5, <1>6

(* An answer shows a window and takes the walk on. *)
LEMMA AnsweredPage ==
    ASSUME PageInv, SearchTypeOK', NEW q \in asked, searchAnswered(q)
    PROVE  PageInv'
<1>1. PagePlace /\ SearchTypeOK /\ TableOK
  BY QueriesAreQueries DEF PageInv, PagePlace
<1>2. PICK s, info, r : s = find(q).records /\ info = find(q).pageInfo /\ r = view'
  OBVIOUS
<1>3. /\ SameQuery(view, r) /\ r.results = s /\ r.pageInfo = info
      /\ s \in Seq(Id) /\ q \in PageRequest /\ asked' = asked \ {q} /\ UNCHANGED table
  BY <1>1, <1>2, Answers
<1>4. asked' = {} /\ SameQuery(q, r)
  BY <1>1, <1>3 DEF PagePlace, RequestsFit, SameQuery
<1>5. touched' = {} => resolveCursor(q) \in {"first", "last"} \/ touched = {}
  BY DEF searchAnswered
<1>6. touched' = {} => Window(s, info, q) /\ CursorsAt(info, q)
  BY <1>1, <1>2, <1>3, <1>5, RequestAsksFrom, AnswerIsWindow
<1>7. touched' = {} => Window(s, info, r)' /\ CursorsAt(info, r)'
  BY <1>3, <1>4, <1>6, WindowKept
<1>8. CursorsFit' /\ PageIsWindow'
  BY <1>2, <1>3, <1>7 DEF CursorsFit, PageIsWindow
<1>s. PICK S, seen, d : S = Id \ touched' /\ seen = walk'.seen /\ d = info.endCursor
  OBVIOUS
<1>9. ASSUME walk'.going
      PROVE  /\ Front(seen, r, S)'
             /\ ~info.hasNext => LeavesOutNone(seen, r, S)'
             /\ info.hasNext => Frontier(seen, r, d, S)'
  <2>2. PICK seq \in Seq(Id) :
          /\ walk'.seen = seq \o s
          /\ resolveCursor(q) \in {"first", "next"}
          /\ Frontier(seq, q, IF resolveCursor(q) = "next" THEN q.token ELSE NoCursor, S)
    BY <1>1, <1>2, <1>9, <1>s, WalkGoesOn
  <2>3. PICK c : c = IF resolveCursor(q) = "next" THEN q.token ELSE NoCursor
    OBVIOUS
  <2>4. S \subseteq Id /\ Untouched(S)
    BY <1>3, <1>s DEF Untouched
  <2>5. Frontier(seq, q, c, S) /\ resolveCursor(q) \in {"first", "next"}
    BY <2>2, <2>3
  <2>6. seen = seq \o s
    BY <1>s, <2>2
  <2>7. /\ Front(seen, q, S)
        /\ ~info.hasNext => LeavesOutNone(seen, q, S)
        /\ info.hasNext => Frontier(seen, q, info.endCursor, S)
    BY <1>1, <1>2, <1>3, <2>3, <2>4, <2>5, <2>6, AnswerReadsOn
  <2>8. info.hasNext => Frontier(seen, q, d, S)
    BY <1>s, <2>7
  <2>9. /\ Front(seen, q, S) => Front(seen, r, S)'
        /\ LeavesOutNone(seen, q, S) => LeavesOutNone(seen, r, S)'
        /\ Frontier(seen, q, d, S) => Frontier(seen, r, d, S)'
    BY <1>4, <2>4, CalmKeeps
  <2> QED
    BY <2>7, <2>8, <2>9
<1>10. WalkFits' /\ WalkComplete'
  <2>1. view' = r /\ view'.pageInfo = info
    BY <1>2, <1>3
  <2>2. WalkFits'
    BY <1>9, <1>s, <2>1 DEF WalkFits
  <2>3. WalkComplete'
    BY <1>9, <1>s, <2>1 DEF WalkComplete
  <2> QED
    BY <2>2, <2>3
<1>11. RequestsFit'
  BY <1>4 DEF RequestsFit
<1> QED
  BY <1>8, <1>10, <1>11 DEF PageInv, PagePlace

(* A payment moves no row that was read and is told of all others. *)
LEMMA PaysPage ==
    ASSUME PageInv, Pays
    PROVE  PageInv'
<1>1. PICK i \in Id :
        /\ \A j \in Id \ {i} : table'[j] = table[j]
        /\ touched' = touched \cup {i}
        /\ UNCHANGED <<view, asked, walk>>
  BY DEF Pays
<1>2. SearchTypeOK'
  BY PaysTyped DEF PageInv, PagePlace
<1>3. touched' # {}
  BY <1>1
<1>4. CursorsFit' /\ PageIsWindow'
  BY <1>3 DEF CursorsFit, PageIsWindow
<1>5. RequestsFit'
  BY <1>1 DEF RequestsFit, PageInv, PagePlace
<1>6. PICK q, seq, c : q = view /\ seq = walk.seen /\ c = view.pageInfo.endCursor
  OBVIOUS
<1>7. PICK S, T : S = Id \ touched /\ T = Id \ touched'
  OBVIOUS
<1>8. T \subseteq S /\ Untouched(T) /\ SameQuery(q, q)
  BY <1>1, <1>7 DEF Untouched, SameQuery
<1>9. /\ Front(seq, q, S) => Front(seq, q, T)'
      /\ LeavesOutNone(seq, q, S) => LeavesOutNone(seq, q, T)'
      /\ Frontier(seq, q, c, S) => Frontier(seq, q, c, T)'
  BY <1>8, CalmKeeps
<1>10. WalkFits'
  <2>1. walk.going /\ q.pageInfo.hasNext => Frontier(seq, q, c, S)
    BY <1>6, <1>7 DEF PageInv, PagePlace, WalkFits
  <2> QED
    BY <1>1, <1>6, <1>7, <1>9, <2>1 DEF WalkFits
<1>11. WalkComplete'
  <2>1. walk.going /\ q.shown /\ ~q.loading =>
          Front(seq, q, S) /\ (~q.pageInfo.hasNext => LeavesOutNone(seq, q, S))
    BY <1>6, <1>7 DEF PageInv, WalkComplete
  <2> QED
    BY <1>1, <1>6, <1>7, <1>9, <2>1 DEF WalkComplete
<1> QED
  BY <1>2, <1>4, <1>5, <1>10, <1>11 DEF PageInv, PagePlace

(* A step that leaves the page and the rows alone. *)
LEMMA PageKept ==
    ASSUME PageInv, SearchTypeOK', UNCHANGED <<table, view, asked, touched, walk>>
    PROVE  PageInv'
<1>1. SameQuery(view, view')
  BY DEF SameQuery
<1>2. CursorsFit' /\ WalkFits'
  BY <1>1, PlaceKept DEF PageInv, PagePlace
<1>3. RequestsFit'
  BY DEF RequestsFit, PageInv, PagePlace
<1>4. PICK q, seq, S, s, info : /\ q = view /\ seq = walk.seen /\ S = Id \ touched
                                /\ s = view.results /\ info = view.pageInfo
  OBVIOUS
<1>5. S \subseteq S /\ Untouched(S) /\ SameQuery(q, q)
  BY <1>4 DEF Untouched, SameQuery
<1>6. /\ Front(seq, q, S) => Front(seq, q, S)'
      /\ LeavesOutNone(seq, q, S) => LeavesOutNone(seq, q, S)'
  BY <1>5, CalmKeeps
<1>7. Window(s, info, q) => Window(s, info, q)'
  BY <1>5, WindowKept
<1>8. WalkComplete'
  <2>1. walk.going /\ q.shown /\ ~q.loading =>
          Front(seq, q, S) /\ (~q.pageInfo.hasNext => LeavesOutNone(seq, q, S))
    BY <1>4 DEF PageInv, WalkComplete
  <2> QED
    BY <1>4, <1>6, <2>1 DEF WalkComplete
<1>9. PageIsWindow'
  BY <1>4, <1>7 DEF PageInv, PageIsWindow
<1> QED
  BY <1>2, <1>3, <1>8, <1>9 DEF PageInv, PagePlace

(* Every step keeps the invariant of the page. *)
LEMMA NextPage ==
    ASSUME MaxAsked = 1, PageInv, ReportInv, [SearchNext]_searchVars
    PROVE  PageInv'
<1>1. SearchTypeOK /\ TableOK
  BY QueriesAreQueries DEF PageInv, PagePlace
<1>2. CASE Browse
  <2>1. SearchTypeOK'
    BY <1>1, <1>2, BrowseTyped
  <2>2. CASE Searches
    BY <2>1, <2>2, SearchesPage
  <2>3. CASE Turns
    BY <2>1, <2>3, TurnsPage
  <2>4. ASSUME NEW q \in asked, searchAnswered(q) \/ searchFailed(q) PROVE PageInv'
    BY <2>1, <2>4, AnsweredPage, FailedPage
  <2> QED
    BY <1>1, <1>2, <2>2, <2>3, <2>4, BrowseCases
<1>3. CASE generate
  <2>1. SearchTypeOK'
    BY <1>1, <1>3, GenerateReport DEF ReportInv
  <2> QED
    BY <1>3, <2>1, PageKept DEF generate
<1>4. CASE readRows
  <2>1. SearchTypeOK'
    BY <1>4, ReadRowsReport DEF ReportInv
  <2> QED
    BY <1>4, <2>1, PageKept DEF readRows
<1>5. CASE generateFails
  <2>1. SearchTypeOK'
    BY <1>5, GenerateFailsReport DEF ReportInv
  <2> QED
    BY <1>5, <2>1, PageKept DEF generateFails
<1>6. ASSUME NEW i \in Id, Insert(i) \/ Merge(i) PROVE PageInv'
  BY <1>1, <1>6, PaymentPays, PaysPage
<1>7. CASE UNCHANGED searchVars
  <2>1. UNCHANGED <<table, view, asked, report, touched, walk, searches, changes>>
    BY <1>7 DEF searchVars
  <2>2. SearchTypeOK'
    BY <1>1, <2>1 DEF SearchTypeOK
  <2> QED
    BY <2>1, <2>2, PageKept
<1> QED
  BY <1>2, <1>3, <1>4, <1>5, <1>6, <1>7 DEF SearchNext

(* Nothing has been shown at first. *)
LEMMA InitPage == SearchInit => PageInv
<1> SUFFICES ASSUME SearchInit PROVE PageInv
  OBVIOUS
<1>1. SearchTypeOK
  BY InitTyped
<1>2. asked = {} /\ view.pageInfo = NoPage /\ ~view.shown /\ ~walk.going
  BY DEF SearchInit
<1>3. ~NoPage.hasNext /\ ~NoPage.hasPrev
  BY DEF NoPage
<1> QED
  BY <1>1, <1>2, <1>3 DEF PageInv, PagePlace, RequestsFit, CursorsFit, CursorsAt, WalkFits,
                          WalkComplete, PageIsWindow

(* The two invariants together are SearchInv. *)
LEMMA InvHolds == ASSUME MaxAsked = 1 PROVE SearchSpec => []SearchInv
<1>1. SearchInv <=> PageInv /\ ReportInv
  BY DEF SearchInv, PageInv, PagePlace, ReportInv
<1>2. SearchInit => SearchInv
  BY <1>1, InitPage, InitReport
<1>3. ASSUME SearchInv, [SearchNext]_searchVars PROVE SearchInv'
  <2>1. PageInv' /\ ReportInv'
    BY <1>1, <1>3, NextPage, NextReport
  <2> QED
    BY <2>1 DEF SearchInv, PageInv, PagePlace, ReportInv
<1> QED
  BY <1>2, <1>3, PTL DEF SearchSpec

(* With one list request at a time, a walk by Next shows every row that did not     *)
(* change meanwhile, once and in order, for any page size, any rows and any number  *)
(* of changes (WalkComplete: goToNextPage, find, keysetWhere, mergeLegs).           *)
THEOREM WalksAreComplete == ASSUME MaxAsked = 1 PROVE SearchSpec => []WalkComplete
<1>1. SearchInv => WalkComplete
  BY DEF SearchInv
<1> QED
  BY InvHolds, <1>1, PTL

(* With one list request at a time and as long as no row changes, every page is a   *)
(* window of the result with the right Prev and Next (PageIsWindow: find,           *)
(* buildPageInfo, and the turns of the page in both directions).                    *)
THEOREM PagesAreWindows == ASSUME MaxAsked = 1 PROVE SearchSpec => []PageIsWindow
<1>1. SearchInv => PageIsWindow
  BY DEF SearchInv
<1> QED
  BY InvHolds, <1>1, PTL
=============================================================================
